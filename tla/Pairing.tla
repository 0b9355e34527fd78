------------------------------ MODULE Pairing ------------------------------
(***************************************************************************)
(* Pairing, approval, re-pairing and deletion of a chat between devices    *)
(* (connect_with_invite, the Hello, Approved, CodeInUse, Closed and        *)
(* RelaySet handlers, authorize and delete_chat), with the onion access    *)
(* keys that follow the user's decision.  An invite's one-time key names   *)
(* the session a join opens with it, the invite's pass, the joiner's own   *)
(* key and its reply pass.                                                 *)
(*                                                                         *)
(* A RelaySet is sent once to each chat that has not confirmed the current *)
(* one, at most one in flight to a contact, by an outbox round that may    *)
(* fail.  The Hello and the Closed are held and retried until they land,   *)
(* and so, in this model, are Approved and CodeInUse; frames arrive in any *)
(* order.                                                                  *)
(***************************************************************************)
EXTENDS Naturals, FiniteSets

CONSTANTS
    Peers,
    MaxInvites,   \* one-time keys ever published
    MaxContacts,  \* MAX_CONTACTS
    PairCases     \* what a behaviour may hold, see PairCase

\* Who invites and joins, whether joins may cross and former contacts be refused,
\* and how many invites, deletions, verifications, expired passes, edits of a
\* relay list and failed announcements there may be.
PairCase == [inviters : SUBSET Peers, joiners : SUBSET Peers, crossing : BOOLEAN,
             returning : BOOLEAN, ends : Nat, verifies : Nat, expiries : Nat,
             invites : Nat, edits : Nat, fails : Nat]

ASSUME PairingAssumption ==
    /\ IsFiniteSet(Peers) /\ {MaxInvites, MaxContacts} \subseteq Nat
    /\ PairCases \subseteq PairCase

Otks == 1 .. MaxInvites
Keys == [kind : {"pass", "own", "reply"}, otk : Otks]
Key(k, n) == [kind |-> k, otk |-> n]
NoKey == [kind |-> "none", otk |-> 0]
\* A relay set as it was announced: the set, and the session it was sealed on.
RelaySets == {1, 2}
Announcements == [set : RelaySets, otk : Otks]
NoSet == [set |-> 0, otk |-> 0]

VARIABLES
    chatOf,      \* chats: each device's chat with each peer
    allow,       \* keys each device's onion admits, by the name they are filed under
    present,     \* the key each device presents to each peer's onion
    pairNet,     \* frames on their way
    invs,        \* invites: who published each one-time key, and whether it is unused
    lastCode,    \* last_invite_code of each device (an invite's code is named by its key)
    consent,     \* peers each device's user joined or accepted, and has not deleted
    relayList,   \* my_relay_set of each device
    relaySetOut, \* relay_set_in_flight: what each device is announcing to each peer
    pairLeft     \* what may still happen
pairVars == <<chatOf, allow, present, pairNet, invs, lastCode, consent, relayList, relaySetOut, pairLeft>>
relayVars == <<relayList, relaySetOut>>

NoChat == [session |-> 0]
Chats == [session : Otks, authorized : BOOLEAN, closed : BOOLEAN, verified : {0} \cup Otks,
          awaiting : BOOLEAN, received : BOOLEAN, code : {0} \cup Otks, via : {0} \cup Otks,
          told : Announcements \cup {NoSet}, ownPending : Keys \cup {NoKey}, keyPending : Keys \cup {NoKey},
          passPending : Keys \cup {NoKey}]
Has(s, p) == chatOf[s][p] # NoChat
Open(s, p) == Has(s, p) /\ chatOf[s][p].authorized /\ ~chatOf[s][p].closed

PairTypeOK ==
    /\ \A s, p \in Peers : chatOf[s][p] \in Chats \cup {NoChat}
    /\ \A s \in Peers : \A e \in allow[s] : e.key \in Keys
    /\ \A s, p \in Peers : present[s][p] \in Keys \cup {NoKey}
    /\ \A s, p \in Peers : relaySetOut[s][p] \in Announcements \cup {NoSet}

PeerName(p) == <<"peer", p>>
PassName(n) == <<"pass", n>>
PutChat(s, p, c) == chatOf' = [chatOf EXCEPT ![s][p] = c]
\* authorize_client replaces the file of that name, revoke_client removes it.
Authorized(entries, name, key) ==
    {e \in entries : e.name # name} \cup (IF key = NoKey THEN {} ELSE {[name |-> name, key |-> key]})
Revoked(entries, name) == {e \in entries : e.name # name}
Frame(k, s, p, n) == [kind |-> k, from |-> s, to |-> p, otk |-> n]
\* announce_relay_set_to, on chat c of s with p: nothing goes out where the set
\* was confirmed already or one is in flight.
Due(s, c) == c # NoChat /\ c.authorized /\ ~c.closed /\ c.told.set # relayList[s]
AnnounceTo(s, p, c) ==
    relaySetOut' = IF Due(s, c) /\ relaySetOut[s][p] = NoSet
                THEN [relaySetOut EXCEPT ![s][p] = [set |-> relayList[s], otk |-> c.session]] ELSE relaySetOut
OpenContacts(s) == {p \in Peers : Open(s, p)}
\* Mutant: a chat that is closed is not new.
CapAllowsClosed(s, p) == Has(s, p) \/ Cardinality(OpenContacts(s)) < MaxContacts

\* check_contact_cap
CapAllows(s, p) == Open(s, p) \/ Cardinality(OpenContacts(s)) < MaxContacts

----------------------------------------------------------------------------
\* create_invite, stage_short_code_invite: a one-time key, a pass filed under
\* it, and the code an approval will echo.
Invite(s) ==
    LET n == Cardinality(DOMAIN invs) + 1 IN
    /\ n \in Otks /\ n <= pairLeft.invites /\ s \in pairLeft.inviters
    /\ invs' = [i \in 1 .. n |-> IF i = n THEN [by |-> s, unused |-> TRUE, taken |-> FALSE] ELSE invs[i]]
    /\ allow' = [allow EXCEPT ![s] = Authorized(@, PassName(n), Key("pass", n))]
    /\ lastCode' = [lastCode EXCEPT ![s] = n]
    /\ UNCHANGED <<chatOf, present, pairNet, consent, pairLeft, relayVars>>

\* expire_passes: a day went by and nobody used it.
ExpirePass(s) ==
    /\ pairLeft.expiries > 0
    /\ \E e \in allow[s] :
          /\ e.name[1] = "pass"
          /\ allow' = [allow EXCEPT ![s] = @ \ {e}]
    /\ pairLeft' = [pairLeft EXCEPT !.expiries = @ - 1]
    /\ UNCHANGED <<chatOf, present, pairNet, invs, lastCode, consent, relayVars>>

\* Two devices that join each other at the same time, or again before a Hello
\* has landed.
Crossing(s, p) ==
    \E f \in pairNet : f.kind = "Hello" /\ {f.from, f.to} = {s, p}

\* connect_with_invite and note_awaiting_approval.  The Hello carries the relay
\* set.
Join(s, p) ==
    \E n \in DOMAIN invs :
        /\ s # p /\ invs[n].by = p /\ ~invs[n].taken /\ s \in pairLeft.joiners
        /\ Crossing(s, p) => pairLeft.crossing
        /\ CapAllows(s, p)
        /\ PutChat(s, p, [session |-> n, authorized |-> TRUE, closed |-> FALSE, verified |-> 0,
                          awaiting |-> TRUE, received |-> FALSE,
                          code |-> IF Has(s, p) THEN chatOf[s][p].code ELSE 0,
                          via |-> n, told |-> [set |-> relayList[s], otk |-> n],
                          ownPending |-> Key("own", n),
                          keyPending |-> IF Has(s, p) THEN chatOf[s][p].keyPending ELSE NoKey,
                          passPending |-> IF Has(s, p) THEN chatOf[s][p].passPending ELSE NoKey])
        /\ present' = [present EXCEPT ![s][p] = Key("pass", n)]
        /\ allow' = [allow EXCEPT ![s] = Authorized(@, PeerName(p), Key("reply", n))]
        /\ pairNet' = pairNet \cup {Frame("Hello", s, p, n)}
        /\ invs' = [invs EXCEPT ![n].taken = TRUE]
        /\ consent' = [consent EXCEPT ![s] = @ \cup {p}]
    /\ UNCHANGED <<lastCode, pairLeft, relayVars>>

\* apply_pending_keys on chat c of s with p: what s admits and presents after.
AllowedAfter(s, p, c) == Authorized(allow[s], PeerName(p), c.keyPending)
PresentedAfter(s, p, c) == IF c.passPending = NoKey THEN present[s][p] ELSE c.passPending
KeysApplied(c) == [c EXCEPT !.keyPending = NoKey, !.passPending = NoKey]

\* Mutant: re-keying an open chat leaves its verification.
RekeyedVerified(c, n) ==
    [c EXCEPT !.session = n, !.closed = FALSE, !.received = TRUE, !.via = n, !.told = NoSet,
              !.keyPending = Key("own", n), !.passPending = Key("reply", n)]

\* A Hello on an open chat adopts the new session and keeps the rest.
Rekeyed(c, n) ==
    [c EXCEPT !.session = n, !.closed = FALSE, !.received = TRUE, !.verified = 0, !.via = n,
              !.told = NoSet, !.keyPending = Key("own", n), !.passPending = Key("reply", n)]

\* A Hello from a stranger, or on a closed chat, is a request.
Requested(s, n) ==
    [session |-> n, authorized |-> FALSE, closed |-> FALSE, verified |-> 0, awaiting |-> FALSE,
     received |-> TRUE, code |-> lastCode[s], via |-> n, told |-> NoSet, ownPending |-> NoKey,
     keyPending |-> Key("own", n), passPending |-> Key("reply", n)]

\* The chat a Hello leaves.
AfterHello(s, p, n) ==
    IF Has(s, p) /\ ~chatOf[s][p].closed THEN Rekeyed(chatOf[s][p], n) ELSE Requested(s, n)

RecvHello(f) ==
    LET s == f.to
        p == f.from
        chat == AfterHello(s, p, f.otk)
        spent == Revoked(allow[s], PassName(f.otk))
    IN  /\ f.kind = "Hello" /\ invs[f.otk].unused
        /\ invs' = [invs EXCEPT ![f.otk].unused = FALSE]
        /\ PutChat(s, p, IF chat.authorized THEN KeysApplied(chat) ELSE chat)
        /\ allow' = [allow EXCEPT ![s] = IF chat.authorized THEN Authorized(spent, PeerName(p), chat.keyPending)
                                         ELSE spent]
        /\ present' = IF chat.authorized
                      THEN [present EXCEPT ![s][p] = PresentedAfter(s, p, chat)] ELSE present
        /\ pairNet' = (pairNet \ {f}) \cup (IF chat.authorized THEN {Frame("Approved", s, p, 0)} ELSE {})
        /\ AnnounceTo(s, p, chat)
        /\ UNCHANGED <<lastCode, consent, relayList, pairLeft>>

----------------------------------------------------------------------------
CodeUsed(s, p) ==
    \E q \in Peers \ {p} :
        Has(s, q) /\ chatOf[s][q].authorized /\ chatOf[s][q].code # 0
        /\ chatOf[s][q].code = chatOf[s][p].code

\* A contact that was closed, and is a request again, is still admitted.
Returning(s, p) == \E e \in allow[s] : e.name = PeerName(p)

\* authorize(accept): the request becomes a contact, or is refused for its code.
Accept(s, p) ==
    LET chat == chatOf[s][p] IN
    /\ Has(s, p) /\ ~chat.authorized /\ CapAllows(s, p)
    /\ CodeUsed(s, p) /\ Returning(s, p) => pairLeft.returning
    /\ IF CodeUsed(s, p)
       THEN /\ PutChat(s, p, NoChat)
            /\ pairNet' = pairNet \cup {Frame("CodeInUse", s, p, 0)}
            /\ UNCHANGED <<allow, present, consent, relaySetOut>>
       ELSE /\ PutChat(s, p, KeysApplied([chat EXCEPT !.authorized = TRUE]))
            /\ allow' = [allow EXCEPT ![s] = AllowedAfter(s, p, chat)]
            /\ present' = [present EXCEPT ![s][p] = PresentedAfter(s, p, chat)]
            /\ pairNet' = pairNet \cup {Frame("Approved", s, p, 0)}
            /\ AnnounceTo(s, p, [chat EXCEPT !.authorized = TRUE])
            /\ consent' = [consent EXCEPT ![s] = @ \cup {p}]
    /\ UNCHANGED <<invs, lastCode, relayList, pairLeft>>

\* The chat goes, with both directions of onion access.
Forgotten(s, p) ==
    /\ PutChat(s, p, NoChat)
    /\ allow' = [allow EXCEPT ![s] = Revoked(@, PeerName(p))]
    /\ present' = [present EXCEPT ![s][p] = NoKey]
    /\ consent' = [consent EXCEPT ![s] = @ \ {p}]

\* authorize(decline)
Decline(s, p) ==
    /\ Has(s, p) /\ ~chatOf[s][p].authorized /\ pairLeft.ends > 0
    /\ Forgotten(s, p)
    /\ pairLeft' = [pairLeft EXCEPT !.ends = @ - 1]
    /\ UNCHANGED <<pairNet, invs, lastCode, relayVars>>

\* Mutant: only our own key for the peer is forgotten.
DeleteKeepsAccess(s, p) ==
    /\ Has(s, p) /\ pairLeft.ends > 0
    /\ PutChat(s, p, NoChat)
    /\ present' = [present EXCEPT ![s][p] = NoKey]
    /\ consent' = [consent EXCEPT ![s] = @ \ {p}]
    /\ pairNet' = pairNet \cup {Frame("Closed", s, p, chatOf[s][p].session)}
    /\ pairLeft' = [pairLeft EXCEPT !.ends = @ - 1]
    /\ UNCHANGED <<allow, invs, lastCode, relayVars>>

\* delete_chat: the Closed is sealed on the chat's session and held.
Delete(s, p) ==
    /\ Has(s, p) /\ pairLeft.ends > 0
    /\ Forgotten(s, p)
    /\ pairNet' = pairNet \cup {Frame("Closed", s, p, chatOf[s][p].session)}
    /\ pairLeft' = [pairLeft EXCEPT !.ends = @ - 1]
    /\ UNCHANGED <<invs, lastCode, relayVars>>

\* set_verified, for the session the safety number was compared on.
Verify(s, p) ==
    /\ Has(s, p) /\ pairLeft.verifies > 0
    /\ PutChat(s, p, [chatOf[s][p] EXCEPT !.verified = chatOf[s][p].session])
    /\ pairLeft' = [pairLeft EXCEPT !.verifies = @ - 1]
    /\ UNCHANGED <<allow, present, pairNet, invs, lastCode, consent, relayVars>>

----------------------------------------------------------------------------
\* Approved is not sealed: it ends the wait, and the relay set is announced if
\* the list was edited meanwhile.
RecvApproved(f) ==
    /\ f.kind = "Approved" /\ pairNet' = pairNet \ {f}
    /\ chatOf' = IF Has(f.to, f.from) THEN [chatOf EXCEPT ![f.to][f.from].awaiting = FALSE] ELSE chatOf
    /\ AnnounceTo(f.to, f.from, chatOf[f.to][f.from])
    /\ UNCHANGED <<allow, present, invs, lastCode, consent, relayList, pairLeft>>

\* Nor is CodeInUse: it ends a request on whose session nothing has arrived.
RecvCodeInUse(f) ==
    /\ f.kind = "CodeInUse" /\ pairNet' = pairNet \ {f}
    /\ chatOf' = IF Has(f.to, f.from) /\ ~chatOf[f.to][f.from].received
                 THEN [chatOf EXCEPT ![f.to][f.from].closed = TRUE] ELSE chatOf
    /\ UNCHANGED <<allow, present, invs, lastCode, consent, pairLeft, relayVars>>

\* A sealed frame opens on the session it was sealed on and on no other.
OpensFrame(f) == Has(f.to, f.from) /\ chatOf[f.to][f.from].session = f.otk

RecvClosed(f) ==
    /\ f.kind = "Closed" /\ pairNet' = pairNet \ {f}
    /\ chatOf' = IF OpensFrame(f) THEN [chatOf EXCEPT ![f.to][f.from].closed = TRUE,
                                                 ![f.to][f.from].received = TRUE] ELSE chatOf
    /\ UNCHANGED <<allow, present, invs, lastCode, consent, pairLeft, relayVars>>

\* Mutant: the pass stays what is presented.
RelaySetOnly(f) ==
    /\ f.kind = "RelaySet" /\ pairNet' = pairNet \ {f}
    /\ UNCHANGED <<chatOf, present, allow, invs, lastCode, consent, pairLeft, relayVars>>

\* A RelaySet on the session says the joiner was accepted: the own key that waits
\* takes the place of the invite's pass, whichever join it was made for.
RecvRelaySet(f) ==
    /\ f.kind = "RelaySet" /\ pairNet' = pairNet \ {f}
    /\ LET s == f.to
           p == f.from
           chat == chatOf[s][p]
       IN  IF OpensFrame(f) /\ chat.authorized
           THEN /\ PutChat(s, p, [chat EXCEPT !.ownPending = NoKey, !.received = TRUE])
                /\ present' = IF chat.ownPending = NoKey THEN present
                              ELSE [present EXCEPT ![s][p] = chat.ownPending]
           ELSE UNCHANGED <<chatOf, present>>
    /\ UNCHANGED <<allow, invs, lastCode, consent, pairLeft, relayVars>>

\* set_relay_list; announce_relay_set follows it and every tick, for each chat
\* that may be retried.
EditList(s) ==
    /\ pairLeft.edits > 0
    /\ relayList' = [relayList EXCEPT ![s] = 3 - @]
    /\ pairLeft' = [pairLeft EXCEPT !.edits = @ - 1]
    /\ UNCHANGED <<chatOf, allow, present, pairNet, invs, lastCode, consent, relaySetOut>>

AnnounceRelaySet(s, p) ==
    /\ Due(s, chatOf[s][p]) /\ relaySetOut[s][p] = NoSet
    /\ AnnounceTo(s, p, chatOf[s][p])
    /\ UNCHANGED <<chatOf, allow, present, pairNet, invs, lastCode, consent, relayList, pairLeft>>

\* The outbox round of the announcement, then apply_announced: what was delivered
\* is what the peer was told, on whatever session the chat has by then.
AnnounceLands(s, p) ==
    /\ relaySetOut[s][p] # NoSet
    /\ pairNet' = pairNet \cup {Frame("RelaySet", s, p, relaySetOut[s][p].otk)}
    /\ chatOf' = IF Has(s, p) THEN [chatOf EXCEPT ![s][p].told = relaySetOut[s][p]] ELSE chatOf
    /\ relaySetOut' = [relaySetOut EXCEPT ![s][p] = NoSet]
    /\ UNCHANGED <<allow, present, invs, lastCode, consent, relayList, pairLeft>>

\* Mutant: a round that fails is recorded as told.
AnnounceFailsTold(s, p) ==
    /\ relaySetOut[s][p] # NoSet /\ pairLeft.fails > 0
    /\ chatOf' = IF Has(s, p) THEN [chatOf EXCEPT ![s][p].told = relaySetOut[s][p]] ELSE chatOf
    /\ relaySetOut' = [relaySetOut EXCEPT ![s][p] = NoSet]
    /\ pairLeft' = [pairLeft EXCEPT !.fails = @ - 1]
    /\ UNCHANGED <<pairNet, allow, present, invs, lastCode, consent, relayList>>

\* A round that fails records nothing, though its frame may have got there.
AnnounceFails(s, p) ==
    /\ relaySetOut[s][p] # NoSet /\ pairLeft.fails > 0
    /\ pairNet' \in {pairNet, pairNet \cup {Frame("RelaySet", s, p, relaySetOut[s][p].otk)}}
    /\ relaySetOut' = [relaySetOut EXCEPT ![s][p] = NoSet]
    /\ pairLeft' = [pairLeft EXCEPT !.fails = @ - 1]
    /\ UNCHANGED <<chatOf, allow, present, invs, lastCode, consent, relayList>>

----------------------------------------------------------------------------
PairInit ==
    /\ chatOf = [s \in Peers |-> [p \in Peers |-> NoChat]]
    /\ allow = [s \in Peers |-> {}] /\ present = [s \in Peers |-> [p \in Peers |-> NoKey]]
    /\ pairNet = {} /\ invs = [i \in {} |-> 0] /\ lastCode = [s \in Peers |-> 0]
    /\ consent = [s \in Peers |-> {}]
    /\ relayList = [s \in Peers |-> 1] /\ relaySetOut = [s \in Peers |-> [p \in Peers |-> NoSet]]
    /\ pairLeft \in PairCases

PairNext ==
    \/ \E s \in Peers : Invite(s) \/ ExpirePass(s) \/ EditList(s)
    \/ \E s, p \in Peers :
          \/ Join(s, p) \/ Accept(s, p) \/ Decline(s, p) \/ Delete(s, p) \/ Verify(s, p)
          \/ AnnounceRelaySet(s, p) \/ AnnounceLands(s, p) \/ AnnounceFails(s, p)
    \/ \E f \in pairNet :
          RecvHello(f) \/ RecvApproved(f) \/ RecvCodeInUse(f) \/ RecvClosed(f) \/ RecvRelaySet(f)

PairSpec == PairInit /\ [][PairNext]_pairVars

----------------------------------------------------------------------------
BothOpen(s, p) == s # p /\ Open(s, p) /\ Open(p, s)

\* Everything that was sent has landed, and no announcement is out or due.
Quiet ==
    /\ pairNet = {}
    /\ \A s, p \in Peers : relaySetOut[s][p] = NoSet /\ ~Due(s, chatOf[s][p])

\* s presents a key that p's onion admits.
Reaches(s, p) == \E e \in allow[p] : e.name = PeerName(s) /\ e.key = present[s][p]

\* p recorded as told what it had announced on an earlier session: s was never
\* told on this one, and still presents the invite's pass.
LeftOnPass(s, p) ==
    present[s][p].kind = "pass" /\ chatOf[p][s].told.otk # chatOf[p][s].session

\* A RelaySet on this session took the own key that waited for an earlier one.
TookOldKey(s, p) ==
    present[s][p].kind = "own" /\ present[s][p].otk # chatOf[s][p].session

\* Once it is quiet, two devices that both show an open, approved chat hold the
\* same session, at least one of them may write, and each presents a key the
\* other's onion admits, unless LeftOnPass or TookOldKey came to pass.
QuietPairsTalk ==
    Quiet =>
        \A s, p \in Peers : BothOpen(s, p) =>
            /\ chatOf[s][p].session = chatOf[p][s].session
            /\ ~(chatOf[s][p].awaiting /\ chatOf[p][s].awaiting)
            /\ Reaches(s, p) \/ LeftOnPass(s, p) \/ TookOldKey(s, p)

\* A chat is open only with someone the user joined or accepted since it was
\* last deleted, and what the user verified is the session in use.
OpenByConsent ==
    \A s, p \in Peers :
        /\ Open(s, p) => p \in consent[s]
        /\ Has(s, p) /\ chatOf[s][p].verified # 0 => chatOf[s][p].verified = chatOf[s][p].session

\* Onion access follows the chats: a device admits no one it has no chat with,
\* besides the invites nobody has used.
NoLingeringAccess ==
    \A s \in Peers : \A e \in allow[s] :
        IF e.name[1] = "peer" THEN Has(s, e.name[2]) ELSE invs[e.name[2]].unused

\* However requests, joins and re-pairings interleave, no device has more open
\* contacts than the cap.
ContactsWithinCap == \A s \in Peers : Cardinality(OpenContacts(s)) <= MaxContacts

\* What connect_with_invite says of a re-pairing: adopting the new session makes
\* both ends match, once every Hello has landed.
BothEndsMatch ==
    pairNet = {} =>
        \A s, p \in Peers : BothOpen(s, p) => chatOf[s][p].session = chatOf[p][s].session

\* QuietPairsTalk, OpenByConsent, NoLingeringAccess and ContactsWithinCap: chats open
\* only by consent and within the cap, and both ends of one can talk.
PairingHolds ==
    /\ PairTypeOK
    /\ QuietPairsTalk /\ OpenByConsent /\ NoLingeringAccess /\ ContactsWithinCap
=============================================================================
