----------------------------- MODULE Rendezvous -----------------------------
(***************************************************************************)
(* Short-code pairing through the rendezvous mailboxes (pairing.rs,        *)
(* run_join_handshake of node.rs).  The inviter's poller answers openers   *)
(* off the lock from a snapshot of the invite and folds the count of       *)
(* distinct openers back in; the joiner re-posts its opener until an       *)
(* answer opens.  An opener is named by the attempt that made it, and an   *)
(* answer by the opener it answers: SPAKE2 and the KEM make it openable by *)
(* that attempt alone, and only if both used the same words.               *)
(***************************************************************************)
EXTENDS Naturals, FiniteSets

CONSTANTS
    RdvRelays,     \* rendezvous relays both sides share
    Attempts,      \* runs of run_join_handshake for this code
    WrongCode,     \* the attempts that use other words
    MaxOpeners,    \* MAX_OPENERS_PER_INVITE
    RdvFaults      \* what a run meets: [fails, kills, timeouts] and who joins

ASSUME RendezvousAssumption ==
    /\ MaxOpeners \in Nat \ {0} /\ IsFiniteSet(RdvRelays) /\ RdvRelays # {}
    /\ WrongCode \subseteq Attempts
    /\ RdvFaults \subseteq [fails : Nat, kills : Nat, timeouts : Nat, expires : BOOLEAN,
                            joins : SUBSET Attempts]

VARIABLES
    joinerLeg,   \* openers waiting on each relay
    inviterLeg,  \* answers waiting on each relay
    invite,      \* the hosted invite's distinct openers, or NoInvite
    savedInvite, \* the same, in the state file
    service,     \* the call of service_invites under way
    attempt,     \* where each attempt is
    answeredEver,\* openers an answer was ever built for
    rdvLeft      \* faults left
rdvVars == <<joinerLeg, inviterLeg, invite, savedInvite, service, attempt, answeredEver, rdvLeft>>

NoInvite == [hosted |-> FALSE, seen |-> {}]
Hosting(s) == [hosted |-> TRUE, seen |-> s]
NoService == [pc |-> "off"]

RdvTypeOK ==
    /\ joinerLeg \in [RdvRelays -> SUBSET Attempts]
    /\ inviterLeg \in [RdvRelays -> SUBSET Attempts]
    /\ {invite, savedInvite} \subseteq [hosted : BOOLEAN, seen : SUBSET Attempts]
    /\ attempt \in [Attempts -> {"no", "posting", "waiting", "joined", "refused", "gaveUp"}]

Fails == rdvLeft.fails > 0
Spend(f) == [rdvLeft EXCEPT ![f] = @ - 1]

----------------------------------------------------------------------------
\* invite_service_plan: the invite is copied under the lock.
PlanService ==
    /\ service.pc = "off" /\ invite.hosted
    /\ service' = [pc |-> "take", left |-> RdvRelays, openers |-> {}, seen |-> invite.seen,
                   answered |-> {}, retire |-> FALSE]
    /\ UNCHANGED <<joinerLeg, inviterLeg, invite, savedInvite, attempt, answeredEver, rdvLeft>>

\* One relay's joiner leg is taken, for good; a relay that does not answer is
\* passed over.
ServiceTake(r) ==
    /\ service.pc = "take" /\ r \in service.left /\ service.openers = {}
    /\ \/ /\ service' = [service EXCEPT !.left = @ \ {r},
                                        !.openers = joinerLeg[r] \ service.answered]
          /\ joinerLeg' = [joinerLeg EXCEPT ![r] = {}]
          /\ UNCHANGED rdvLeft
       \/ /\ Fails /\ rdvLeft' = Spend("fails")
          /\ service' = [service EXCEPT !.left = @ \ {r}]
          /\ UNCHANGED joinerLeg
    /\ UNCHANGED <<inviterLeg, invite, savedInvite, attempt, answeredEver>>

\* Mutant: the count is compared after the new opener was added.
OneTooMany(seen, o) == o \notin seen /\ Cardinality(seen) > MaxOpeners

\* A distinct opener beyond the cap retires the invite.
BeyondCap(seen, o) == o \notin seen /\ Cardinality(seen) >= MaxOpeners

\* Mutant: an opener that was answered in an earlier call is not answered again.
AnswerOnce(o) ==
    /\ service.pc = "take" /\ o \in service.openers
    /\ IF BeyondCap(service.seen, o)
       THEN /\ service' = [service EXCEPT !.pc = "done", !.retire = TRUE]
            /\ UNCHANGED <<inviterLeg, answeredEver, rdvLeft>>
       ELSE /\ service' = [service EXCEPT !.seen = @ \cup {o}, !.answered = @ \cup {o},
                                          !.openers = @ \ {o}]
            /\ answeredEver' = answeredEver \cup {o}
            /\ IF o \in service.seen THEN UNCHANGED <<inviterLeg, rdvLeft>> ELSE
               \/ /\ inviterLeg' = [r \in RdvRelays |-> inviterLeg[r] \cup {o}]
                  /\ UNCHANGED rdvLeft
               \/ Fails /\ rdvLeft' = Spend("fails") /\ UNCHANGED inviterLeg
    /\ UNCHANGED <<joinerLeg, invite, savedInvite, attempt>>

\* build_invite_response for one opener, posted to every relay that takes it.
ServiceAnswer(o) ==
    /\ service.pc = "take" /\ o \in service.openers
    /\ IF BeyondCap(service.seen, o)
       THEN /\ service' = [service EXCEPT !.pc = "done", !.retire = TRUE]
            /\ UNCHANGED <<inviterLeg, answeredEver, rdvLeft>>
       ELSE /\ service' = [service EXCEPT !.seen = @ \cup {o}, !.answered = @ \cup {o},
                                          !.openers = @ \ {o}]
            /\ answeredEver' = answeredEver \cup {o}
            /\ \/ /\ inviterLeg' = [r \in RdvRelays |-> inviterLeg[r] \cup {o}]
                  /\ UNCHANGED rdvLeft
               \/ \E ok \in SUBSET RdvRelays \ {RdvRelays} :
                     /\ Fails /\ rdvLeft' = Spend("fails")
                     /\ inviterLeg' = [r \in RdvRelays |->
                                         IF r \in ok THEN inviterLeg[r] \cup {o} ELSE inviterLeg[r]]
    /\ UNCHANGED <<joinerLeg, invite, savedInvite, attempt>>

ServiceDone ==
    /\ service.pc = "take" /\ service.left = {} /\ service.openers = {}
    /\ service' = [service EXCEPT !.pc = "done"]
    /\ UNCHANGED <<joinerLeg, inviterLeg, invite, savedInvite, attempt, answeredEver, rdvLeft>>

\* apply_invite_service: an invite that vanished meanwhile is left alone.
ApplyService ==
    /\ service.pc = "done"
    /\ invite' = IF ~invite.hosted \/ service.retire THEN NoInvite ELSE Hosting(service.seen)
    /\ service' = NoService
    /\ UNCHANGED <<joinerLeg, inviterLeg, savedInvite, attempt, answeredEver, rdvLeft>>

\* The debounced save (export_pending_invites).
SaveInvite ==
    /\ savedInvite # invite /\ savedInvite' = invite
    /\ UNCHANGED <<joinerLeg, inviterLeg, invite, service, attempt, answeredEver, rdvLeft>>

\* The inviter's process dies, whatever it was doing, and comes back up
\* (import_pending_invites).
KillInviter ==
    /\ rdvLeft.kills > 0 /\ rdvLeft' = Spend("kills")
    /\ invite' = savedInvite /\ service' = NoService
    /\ UNCHANGED <<joinerLeg, inviterLeg, savedInvite, attempt, answeredEver>>

\* The code's ten minutes are up.
ExpireInvite ==
    /\ rdvLeft.expires /\ invite.hosted
    /\ service.pc = "off" \* dropped by the next plan
    /\ invite' = NoInvite
    /\ UNCHANGED <<joinerLeg, inviterLeg, savedInvite, service, attempt, answeredEver, rdvLeft>>

----------------------------------------------------------------------------
SetAttempt(a, s) == attempt' = [attempt EXCEPT ![a] = s]

\* join_via_short_code; one attempt at a time on a device, and every guess is
\* somebody else's.
StartJoin(a) ==
    /\ attempt[a] = "no" /\ a \in rdvLeft.joins
    /\ a \in WrongCode \/ \A b \in Attempts \ WrongCode : attempt[b] \notin {"posting", "waiting", "joined"}
    /\ SetAttempt(a, "posting")
    /\ UNCHANGED <<joinerLeg, inviterLeg, invite, savedInvite, service, answeredEver, rdvLeft>>

\* The opener is posted until one relay has it, and again while it waits.
PostOpener(a) ==
    /\ attempt[a] \in {"posting", "waiting"}
    /\ \E ok \in SUBSET RdvRelays :
          /\ ok # RdvRelays => Fails
          /\ rdvLeft' = IF ok = RdvRelays THEN rdvLeft ELSE Spend("fails")
          /\ joinerLeg' = [r \in RdvRelays |->
                             IF r \in ok THEN joinerLeg[r] \cup {a} ELSE joinerLeg[r]]
          /\ SetAttempt(a, IF ok # {} THEN "waiting" ELSE attempt[a])
    /\ UNCHANGED <<inviterLeg, invite, savedInvite, service, answeredEver>>

\* What an answer does to the attempt that took it.
Opened(a, o) == IF o = a /\ a \notin WrongCode THEN "joined" ELSE "refused"

\* Every relay's answers are taken, and the first well-formed one decides.
PollAnswer(a) ==
    /\ attempt[a] = "waiting"
    /\ \E ok \in SUBSET RdvRelays :
          LET found == UNION {inviterLeg[r] : r \in ok} IN
          /\ ok # RdvRelays => Fails
          /\ rdvLeft' = IF ok = RdvRelays THEN rdvLeft ELSE Spend("fails")
          /\ found # {}
          /\ inviterLeg' = [r \in RdvRelays |-> IF r \in ok THEN {} ELSE inviterLeg[r]]
          /\ \E o \in found : SetAttempt(a, Opened(a, o))
    /\ UNCHANGED <<joinerLeg, invite, savedInvite, service, answeredEver>>

\* POST_ESTABLISH_TIMEOUT or SHORT_CODE_JOIN_TIMEOUT.
GiveUp(a) ==
    /\ attempt[a] \in {"posting", "waiting"} /\ rdvLeft.timeouts > 0
    /\ rdvLeft' = Spend("timeouts") /\ SetAttempt(a, "gaveUp")
    /\ UNCHANGED <<joinerLeg, inviterLeg, invite, savedInvite, service, answeredEver>>

----------------------------------------------------------------------------
\* create_short_code_invite staged the invite and saved.
RdvInit ==
    /\ joinerLeg = [r \in RdvRelays |-> {}] /\ inviterLeg = [r \in RdvRelays |-> {}]
    /\ invite = Hosting({}) /\ savedInvite = Hosting({}) /\ service = NoService
    /\ attempt = [a \in Attempts |-> "no"] /\ answeredEver = {}
    /\ rdvLeft \in RdvFaults

RdvNext ==
    \/ PlanService \/ ServiceDone \/ ApplyService \/ SaveInvite \/ KillInviter \/ ExpireInvite
    \/ \E r \in RdvRelays : ServiceTake(r)
    \/ \E o \in Attempts : ServiceAnswer(o)
    \/ \E a \in Attempts : StartJoin(a) \/ PostOpener(a) \/ PollAnswer(a) \/ GiveUp(a)

\* The poller runs while a code is shown, and the joiner loops until its
\* deadline.
RdvFairness ==
    /\ WF_rdvVars(PlanService) /\ WF_rdvVars(ServiceDone) /\ WF_rdvVars(ApplyService)
    /\ WF_rdvVars(\E r \in RdvRelays : ServiceTake(r))
    /\ WF_rdvVars(\E o \in Attempts : ServiceAnswer(o))
    /\ \A a \in Attempts : WF_rdvVars(StartJoin(a)) /\ WF_rdvVars(PostOpener(a)) /\ WF_rdvVars(PollAnswer(a))
RdvSpec == RdvInit /\ [][RdvNext]_rdvVars
RdvFairSpec == RdvSpec /\ RdvFairness

----------------------------------------------------------------------------
\* However the calls of service_invites are cut and repeated, one code gives
\* answers to at most MAX_OPENERS_PER_INVITE different openers: each is one
\* guess at its words.
GuessBound == Cardinality(answeredEver) <= MaxOpeners

\* Openers and answers that were taken and lost, relays that did not answer and
\* an inviter killed between taking an opener and answering it do not stop a
\* joiner with the right code that keeps waiting while the code is hosted.
AllJoined ==
    \A a \in Attempts \ WrongCode :
        invite.hosted => attempt[a] \notin {"posting", "waiting", "refused"}

\* GuessBound: one code is answered to no more openers than the cap.
InvitesHold == RdvTypeOK /\ GuessBound
=============================================================================
