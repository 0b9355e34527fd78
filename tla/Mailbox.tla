------------------------------ MODULE Mailbox ------------------------------
(***************************************************************************)
(* The agreement of a pair's mailbox secret (node/mailbox.rs) between the  *)
(* two devices of a chat.                                                  *)
(*                                                                         *)
(* Each side contributes a random value in a MailboxKey frame; the secret  *)
(* is derived from both.  A side posts mail under handles of the secret    *)
(* only once the other has confirmed it, and polls every secret it can     *)
(* compute.  Sends run off the lock; a send may fail, a device may restart *)
(* with what it had saved, or be restored from an older backup.            *)
(***************************************************************************)
EXTENDS Integers, Sequences, FiniteSets, SequencesExt

CONSTANTS
    MaxContributions, \* fresh random contributions
    MailboxFaults     \* the numbers of lost sends, restarts and restores to try

ASSUME MailboxAssumption ==
    /\ MaxContributions \in Nat \ {0}
    /\ MailboxFaults \subseteq [lost : Nat, restarts : Nat, restores : Nat]

Sides == {"a", "b"}
Other(s) == IF s = "a" THEN "b" ELSE "a"

\* 0 stands for a contribution that is not known.
Contribution == 0 .. MaxContributions
NoPair == [own |-> 0, peer |-> 0, confirmed |-> FALSE, sent |-> FALSE]
Pair == [own : Contribution, peer : Contribution, confirmed : BOOLEAN, sent : BOOLEAN]

\* pair_secret is symmetric in the contributions; {} stands for no secret.
Secret(p) == IF p.own = 0 \/ p.peer = 0 THEN {} ELSE {p.own, p.peer}

\* A MailboxKey frame: the contribution, and the secret it confirms.  via is
\* the handle of a relay copy, {} for a direct frame.
Key == [own : Contribution, confirm : SUBSET Contribution, via : SUBSET Contribution]

VARIABLES
    pair,       \* each side's MailboxPair
    announced,  \* each side's mailbox_announced flag for the other
    mbOut,      \* each side's queued MailboxKey sends
    mbNet,      \* frames on their way to a side
    backup,     \* each side's backup file
    fresh,      \* contributions drawn so far
    restored,   \* whether a device was restored from its backup
    gone,       \* sides whose last MailboxKey was lost, or forgotten by the other's restore
    mbLeft      \* the faults that may still happen
mbVars == <<pair, announced, mbOut, mbNet, backup, fresh, restored, gone, mbLeft>>

MbTypeOK ==
    /\ pair \in [Sides -> Pair] /\ backup \in [Sides -> Pair]
    /\ announced \in [Sides -> BOOLEAN]
    /\ mbOut \in [Sides -> Seq(Key)] /\ mbNet \in [Sides -> Seq(Key)]
    /\ fresh \in Contribution
    /\ restored \in BOOLEAN /\ gone \subseteq Sides
    /\ mbLeft \in [lost : Nat, restarts : Nat, restores : Nat]

----------------------------------------------------------------------------
\* MailboxPair::fresh, where the chat has no pair yet.
WithOwn(p) == IF p.own = 0 THEN [p EXCEPT !.own = fresh + 1] ELSE p
Drawn(p) == IF p.own = 0 THEN fresh + 1 ELSE fresh

\* post_handle: the secret mail goes out under, {} without a confirmed one.
PostHandle(p) == IF p.confirmed THEN Secret(p) ELSE {}

\* send_mailbox_key: our contribution, with our confirmation once the secret
\* can be computed.  The relay handle is the one of the moment it is queued.
KeyOf(p) == [own |-> p.own, confirm |-> Secret(p), via |-> PostHandle(p)]
Sealed(p) == [p EXCEPT !.sent = @ \/ Secret(p) # {}]

\* announce_mailbox: every tick, for a chat that is not confirmed, unless
\* it was announced in this run.
AnnounceMailbox(s) ==
    /\ ~pair[s].confirmed /\ ~announced[s]
    /\ Drawn(pair[s]) \in Contribution
    /\ LET p == WithOwn(pair[s])
       IN  /\ pair' = [pair EXCEPT ![s] = Sealed(p)]
           /\ mbOut' = [mbOut EXCEPT ![s] = Append(@, KeyOf(p))]
    /\ fresh' = Drawn(pair[s])
    /\ announced' = [announced EXCEPT ![s] = TRUE]
    /\ UNCHANGED <<mbNet, backup, restored, gone, mbLeft>>

\* Mutant: a send that was not delivered leaves the flag.
DeliverKeyFlagged(s) ==
    /\ mbOut[s] # <<>>
    /\ LET k == Head(mbOut[s]) IN
       \E how \in {"direct", "relay", "lost"} :
          /\ how = "relay" => k.via # {}
          /\ how = "lost" => mbLeft.lost > 0
          /\ mbNet' = [mbNet EXCEPT ![Other(s)] =
                          IF how = "lost" THEN @ ELSE Append(@, IF how = "relay" THEN k ELSE [k EXCEPT !.via = {}])]
          /\ mbLeft' = [mbLeft EXCEPT !.lost = IF how = "lost" THEN @ - 1 ELSE @]
          /\ gone' = IF how = "lost" THEN gone \cup {s} ELSE gone \ {s}
    /\ mbOut' = [mbOut EXCEPT ![s] = Tail(@)]
    /\ UNCHANGED <<pair, announced, backup, fresh, restored>>

\* The send and apply_announced: handed over directly, taken by a relay under
\* the handle, or not delivered, which lowers the flag.
DeliverKey(s) ==
    /\ mbOut[s] # <<>>
    /\ LET k == Head(mbOut[s]) IN
       \E how \in {"direct", "relay", "lost"} :
          /\ how = "relay" => k.via # {}
          /\ how = "lost" => mbLeft.lost > 0
          /\ mbNet' = [mbNet EXCEPT ![Other(s)] =
                          CASE how = "direct" -> Append(@, [k EXCEPT !.via = {}])
                            [] how = "relay" -> Append(@, k)
                            [] how = "lost" -> @]
          /\ announced' = [announced EXCEPT ![s] = @ /\ how # "lost"]
          /\ mbLeft' = [mbLeft EXCEPT !.lost = IF how = "lost" THEN @ - 1 ELSE @]
          /\ gone' = IF how = "lost" THEN gone \cup {s} ELSE gone \ {s}
    /\ mbOut' = [mbOut EXCEPT ![s] = Tail(@)]
    /\ UNCHANGED <<pair, backup, fresh, restored>>

\* Frames a side can read now: the oldest direct one, and every relay copy
\* under a handle it polls (poll_fragments_at: the secret it can compute).
Readable(s) ==
    {i \in DOMAIN mbNet[s] :
        IF mbNet[s][i].via = {} THEN \A j \in 1 .. (i - 1) : mbNet[s][j].via # {}
        ELSE mbNet[s][i].via = Secret(pair[s])}

\* Mutant: a confirmation is believed whichever secret it is of.
ReceivedUnchecked(p, k) ==
    LET q == IF p.peer = k.own THEN p
             ELSE [p EXCEPT !.peer = k.own, !.confirmed = FALSE, !.sent = FALSE]
    IN  [q EXCEPT !.confirmed = @ \/ (k.confirm # {} /\ Secret(q) # {})]

\* on_mailbox_key, the state: a changed contribution ends the agreement, a
\* matching confirmation makes it.
Received(p, k) ==
    LET q == IF p.peer = k.own THEN p
             ELSE [p EXCEPT !.peer = k.own, !.confirmed = FALSE, !.sent = FALSE]
    IN  [q EXCEPT !.confirmed = @ \/ (k.confirm # {} /\ k.confirm = Secret(q))]

\* Mutant: every frame is answered.
RepliesAlways(q, k) == TRUE

\* Reply when they have no confirmation of ours: they sent none themselves, or
\* we have not sent it.
Replies(q, k) == k.confirm = {} \/ ~q.sent

OnMailboxKey(s) ==
    \E i \in Readable(s) :
        LET k == mbNet[s][i]
            q == Received(WithOwn(pair[s]), k)
        IN  /\ Drawn(pair[s]) \in Contribution
            /\ pair' = [pair EXCEPT ![s] = IF Replies(q, k) THEN Sealed(q) ELSE q]
            /\ mbOut' = [mbOut EXCEPT ![s] = IF Replies(q, k) THEN Append(@, KeyOf(q)) ELSE @]
            /\ mbNet' = [mbNet EXCEPT ![s] = RemoveAt(@, i)]
            /\ fresh' = Drawn(pair[s])
            /\ UNCHANGED <<announced, backup, restored, gone, mbLeft>>

\* A restored ratchet may not open what the peer sealed: the frame is ignored.
IgnoreKey(s) ==
    /\ restored
    /\ \E i \in Readable(s) : mbNet' = [mbNet EXCEPT ![s] = RemoveAt(@, i)]
    /\ gone' = gone \cup {Other(s)}
    /\ UNCHANGED <<pair, announced, mbOut, backup, fresh, restored, mbLeft>>

----------------------------------------------------------------------------
Queued(s) == IF mbOut[s] = <<>> THEN {} ELSE {s}

\* The app restarts: what was queued and the flags are gone, the pair is kept.
RestartApp(s) ==
    /\ mbLeft.restarts > 0
    /\ mbOut' = [mbOut EXCEPT ![s] = <<>>]
    /\ announced' = [announced EXCEPT ![s] = FALSE]
    /\ mbLeft' = [mbLeft EXCEPT !.restarts = @ - 1]
    /\ gone' = gone \cup Queued(s)
    /\ UNCHANGED <<pair, mbNet, backup, fresh, restored>>

MakeBackup(s) ==
    /\ mbLeft.restores > 0 /\ backup[s] # pair[s]
    /\ backup' = [backup EXCEPT ![s] = pair[s]]
    /\ UNCHANGED <<pair, announced, mbOut, mbNet, fresh, restored, gone, mbLeft>>

\* from_persisted, of a backup made earlier.
RestoreBackup(s) ==
    /\ mbLeft.restores > 0
    /\ pair' = [pair EXCEPT ![s] = backup[s]]
    /\ mbOut' = [mbOut EXCEPT ![s] = <<>>]
    /\ announced' = [announced EXCEPT ![s] = FALSE]
    /\ restored' = TRUE /\ gone' = gone \cup Queued(s) \cup {Other(s)}
    /\ mbLeft' = [mbLeft EXCEPT !.restores = @ - 1]
    /\ UNCHANGED <<mbNet, backup, fresh>>

----------------------------------------------------------------------------
\* A pair from before 0.2 has nothing agreed; one made by 0.2 has its secret
\* from the seed in the joiner's Hello, and backups from before the upgrade.
Seeded == [own |-> 1, peer |-> 1, confirmed |-> TRUE, sent |-> TRUE]

MbInit ==
    /\ pair \in {[s \in Sides |-> NoPair], [s \in Sides |-> Seeded]}
    /\ fresh = pair["a"].own
    /\ announced = [s \in Sides |-> FALSE]
    /\ mbOut = [s \in Sides |-> <<>>] /\ mbNet = [s \in Sides |-> <<>>]
    /\ backup = [s \in Sides |-> NoPair]
    /\ restored = FALSE /\ gone = {} /\ mbLeft \in MailboxFaults

MbNext ==
    \E s \in Sides :
        \/ AnnounceMailbox(s) \/ DeliverKey(s) \/ OnMailboxKey(s) \/ IgnoreKey(s)
        \/ RestartApp(s) \/ MakeBackup(s) \/ RestoreBackup(s)

MbSpec == MbInit /\ [][MbNext]_mbVars

\* Both pollers run: they announce, send what is queued and read what arrives.
MbFairness ==
    \A s \in Sides :
        WF_mbVars(AnnounceMailbox(s)) /\ WF_mbVars(DeliverKey(s)) /\ WF_mbVars(OnMailboxKey(s))
MbFairSpec == MbSpec /\ MbFairness

----------------------------------------------------------------------------
\* After a restore the sides may disagree, but then one of them knows that
\* nothing is agreed and announces itself: a disagreement both sides take for
\* an agreement would lose every message for good.
DisagreementIsNoticed ==
    Secret(pair["a"]) # Secret(pair["b"]) => \E s \in Sides : ~pair[s].confirmed

\* Both sides post under the same secret, and have stopped sending.
Agreed ==
    /\ \A s \in Sides : pair[s].confirmed /\ mbOut[s] = <<>> /\ Readable(s) = {}
    /\ Secret(pair["a"]) = Secret(pair["b"])

\* A copy at a relay that the side it is for does not poll.
Stranded(s) == \E k \in ToSet(mbNet[s]) : k.via # {} /\ k.via # Secret(pair[s])

\* The other did not get the last MailboxKey of s, and s sends no other: it is
\* confirmed and has sent its confirmation, or a restore came in between after it
\* had announced itself in this run.
Unheard(s) ==
    /\ s \in gone \/ Stranded(Other(s))
    /\ \/ pair[s].confirmed /\ pair[s].sent /\ ~pair[Other(s)].confirmed
       \/ restored /\ ~pair[s].confirmed /\ announced[s]

\* DisagreementIsNoticed: the ends of a chat never both take different mailbox
\* secrets for agreed.
MailboxHolds == MbTypeOK /\ DisagreementIsNoticed
=============================================================================
