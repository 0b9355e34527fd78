------------------------------ MODULE Control -------------------------------
(***************************************************************************)
(* Control frames to one contact that are not standing announcements       *)
(* (module Announce), from the tap that raises them to the contact's       *)
(* screen:                                                                 *)
(*                                                                         *)
(*   notice    a capture notice, which the user was told had been sent: it *)
(*             waits in pending_control, saved, until a copy lands         *)
(*   name, verified   one-off frames: sent once, held only for a contact   *)
(*             with no relay route or too old an app                       *)
(*   address   our onion after it changed; the contact answers with its    *)
(*             client key for it, without which it cannot dial us          *)
(*   upgrade   the one frame an app on 0.1 can read                        *)
(*                                                                         *)
(* Every frame is sealed under the next key of the session, which opens    *)
(* once.  A kill takes the node back to what was saved.                    *)
(***************************************************************************)
EXTENDS Integers, Sequences, SequencesExt, FiniteSets

CONSTANTS
    CtlCases,   \* the situations explored, see CtlCase
    HeldCap     \* the cap of the doubling wait, in units of the first wait

OneOffs == {"name", "verified"}

\* relayed: the pair has relays and an agreed mailbox; online: the contact may
\* be reached directly; old: it starts on 0.1.  Bounds: notices, settings (of
\* each one-off), moves of our onion, fails of a send to reach anybody, keyfails
\* of the contact's answer, kills, and refusals over the contact's allowance.
CtlCase == [relayed : BOOLEAN, online : BOOLEAN, old : BOOLEAN, notices : Nat, settings : Nat,
            moves : Nat, fails : Nat, keyfails : Nat, kills : Nat, refusals : Nat]

ASSUME ControlAssumption ==
    /\ CtlCases \subseteq CtlCase
    /\ HeldCap \in Nat \ {0}

NoAddress == 0

VARIABLES
    ccase,    \* the situation of this behaviour
    cnode,    \* our node: what it saves, and its volatile records
    cdisk,    \* the saved part of cnode
    cout,     \* the outbox
    cround,   \* the running round: sends still to run, and their outcomes
    cdirect,  \* frames the contact took over a direct connection
    crelay,   \* frames in the mailbox the contact polls
    cpeer,    \* the contact's record of us
    cback,    \* frames of the contact on their way to us
    cauth,    \* the contact's key our onion admits (a file of its own)
    cleft     \* what is left of each bound
ctlVars == <<ccase, cnode, cdisk, cout, cround, cdirect, crelay, cpeer, cback, cauth, cleft>>

CtlNoRound == [todo |-> <<>>, done |-> <<>>]

----------------------------------------------------------------------------
(* Sealing and queueing.  An operation takes and returns                  *)
(* [n |-> node, out |-> outbox].                                          *)

\* authed_control: the frame is sealed under the session's next key.
SealedFrame(n, what, v) == [key |-> n.seal, what |-> what, val |-> v]
AfterSeal(n) == [n EXCEPT !.seal = @ + 1]

Send(f, done) == [frame |-> f, done |-> done]

\* queue_pending_control: held, and sent at once whatever the contact runs.
QueuePending(s, f) ==
    [n |-> [s.n EXCEPT !.pend = Append(@, [frame |-> f, busy |-> TRUE])],
     out |-> Append(s.out, Send(f, "pending"))]

\* deliver: a contact on 0.1 would discard the frame, so it is held.
Deliver(s, f) ==
    IF s.n.outdated THEN [s EXCEPT !.n.held = Append(@, [frame |-> f, busy |-> FALSE])]
    ELSE [s EXCEPT !.out = Append(@, Send(f, "nothing"))]

HasRelayRoute == ccase.relayed
RetryDue(n) == HasRelayRoute \/ ~n.waiting
MayRetry(n) == ~n.outdated /\ RetryDue(n)

\* send_address_to: flagged while in flight, with what went out.  To a contact on
\* 0.1 it fails at once (deliver_with), and the key it was sealed under is spent.
SendAddress(s) ==
    IF s.n.outdated THEN [s EXCEPT !.n = [AfterSeal(s.n) EXCEPT !.flag = NoAddress]]
    ELSE [n |-> [AfterSeal(s.n) EXCEPT !.flag = s.n.addr],
          out |-> Append(s.out, Send(SealedFrame(s.n, "address", s.n.addr), "address"))]

\* announce_address_if_changed: compared with the address saved last.
AnnounceIfChanged(s) ==
    LET changed == s.n.restored \notin {NoAddress, s.n.addr}
        a == IF changed THEN SendAddress(s) ELSE s
    IN [a EXCEPT !.n.restored = s.n.addr]

\* Mutant: compared with the address saved last.
ReannounceIfSaved(s) ==
    IF s.n.flag = NoAddress /\ s.n.restored # s.n.addr /\ MayRetry(s.n) THEN SendAddress(s) ELSE s

\* reannounce_address: compared with what the contact confirmed.
ReannounceAddress(s) ==
    IF s.n.flag = NoAddress /\ s.n.told # s.n.addr /\ MayRetry(s.n) THEN SendAddress(s) ELSE s

\* send_upgrade_notices: once, in the old format.
UpgradeNotice(s) ==
    IF s.n.outdated /\ ~s.n.toldUpgrade /\ ~s.n.upgrading /\ RetryDue(s.n)
    THEN [n |-> [AfterSeal(s.n) EXCEPT !.upgrading = TRUE],
          out |-> Append(s.out, Send(SealedFrame(s.n, "upgrade", 0), "upgrade"))]
    ELSE s

\* The elements of q that pass the test, in their order (SelectSeq, which the
\* provers do not know).
Chosen(q, Passes(_)) ==
    LET upTo[i \in 0 .. Len(q)] ==
            IF i = 0 THEN <<>>
            ELSE IF Passes(q[i]) THEN Append(upTo[i - 1], q[i]) ELSE upTo[i - 1]
    IN  upTo[Len(q)]

Marked(q, due(_)) == [i \in DOMAIN q |-> [q[i] EXCEPT !.busy = @ \/ due(q[i])]]
Sends(q, due(_), done) ==
    LET d == Chosen(q, due) IN [i \in DOMAIN d |-> Send(d[i].frame, done)]

\* flush_pending_control_for: one copy of each at a time.  An entry with a relay
\* route of its own does not ask whether the contact is outdated.
FlushPending(s) ==
    LET due(p) == ~p.busy /\ (HasRelayRoute \/ MayRetry(s.n))
    IN [n |-> [s.n EXCEPT !.pend = Marked(@, due)],
        out |-> s.out \o Sends(s.n.pend, due, "pending")]

\* flush_held_for, for the frames that are not messages (module Delivery has
\* those): all of them to the mailbox, or to the device itself when it was just
\* heard from; without a relay in order, the next when the one before came back.
FlushHeld(s, directFirst) ==
    LET due(p) == /\ ~p.busy /\ MayRetry(s.n)
                  /\ HasRelayRoute \/ p = s.n.held[1]
    IN [n |-> [s.n EXCEPT !.held = Marked(@, due)],
        out |-> s.out \o Sends(s.n.held, due, IF HasRelayRoute /\ ~directFirst THEN "held by relay"
                                              ELSE "held")]

\* heard_from: the contact is online, so what waits for it goes now.
HeardFrom(s) ==
    LET awake == [s EXCEPT !.n = [@ EXCEPT !.waiting = FALSE, !.delay = 0]]
    IN IF s.n.delay > 0 \/ s.n.held # <<>> \/ s.n.pend # <<>>
       THEN FlushPending(FlushHeld(awake, TRUE)) ELSE awake

----------------------------------------------------------------------------
(* What a round brought *)

\* Mutant: a one-off frame is not held.
HoldNothing(n, x) == n

\* A one-off frame to a contact with no relay route has no other retry.
HoldOneOff(n, x) ==
    IF x.done = "nothing" /\ x.got = "failed" /\ ~HasRelayRoute
    THEN [n EXCEPT !.held = Append(@, [frame |-> x.frame, busy |-> FALSE])] ELSE n

\* held_retry_failed, and its reset by a direct delivery.
Backoff(n, x) ==
    IF x.got = "direct" THEN [n EXCEPT !.waiting = FALSE, !.delay = 0]
    ELSE IF x.got = "failed" /\ ~HasRelayRoute
    THEN [n EXCEPT !.waiting = TRUE,
                   !.delay = IF @ = 0 THEN 1 ELSE IF @ * 2 > HeldCap THEN HeldCap ELSE @ * 2]
    ELSE n

Without(q, f) == Chosen(q, LAMBDA p : p.frame # f)
Released(q, f) == [i \in DOMAIN q |-> IF q[i].frame = f THEN [q[i] EXCEPT !.busy = FALSE] ELSE q[i]]

\* Mutant: a failed entry stays marked as in flight.
SettleKeepsBusy(n, x) ==
    [n EXCEPT !.pend = IF x.got = "failed" THEN @ ELSE Without(@, x.frame)]

SettlePending(n, x) ==
    [n EXCEPT !.pend = IF x.got = "failed" THEN Released(@, x.frame) ELSE Without(@, x.frame)]

SettleHeld(n, x) ==
    [n EXCEPT !.held = IF x.got = "failed" THEN Released(@, x.frame) ELSE Without(@, x.frame)]

\* apply_announced: told is what the flag holds now, and the flag stays up until
\* the next launch.
SettleAddress(n, x) ==
    IF x.got = "failed" THEN [n EXCEPT !.flag = NoAddress]
    ELSE IF n.flag # NoAddress THEN [n EXCEPT !.told = n.flag] ELSE n

SettleUpgrade(n, x) ==
    IF x.got = "failed" THEN [n EXCEPT !.upgrading = FALSE]
    ELSE IF n.outdated THEN [n EXCEPT !.toldUpgrade = TRUE] ELSE n

ApplyOutbound(node, x) ==
    LET n == HoldOneOff(Backoff(node, x), x)
    IN CASE x.done = "pending" -> SettlePending(n, x)
         [] x.done \in {"held", "held by relay"} -> SettleHeld(n, x)
         [] x.done = "address" -> SettleAddress(n, x)
         [] x.done = "upgrade" -> SettleUpgrade(n, x)
         [] OTHER -> n

----------------------------------------------------------------------------
(* The contact *)

\* Mutant: a copy opens again.
OpensAgain(p, f) == TRUE

\* A ratchet decrypt spends the message key: a copy does not open again.
Opens(p, f) == f.key \notin p.opened

\* process_frame.  refused: the chat is over its daily allowance.
Takes(p, f, refused) ==
    LET q == [p EXCEPT !.opened = @ \cup {f.key}]
    IN CASE f.what = "upgrade" -> [q EXCEPT !.warned = TRUE]
         [] f.what = "notice" -> IF refused THEN q ELSE [q EXCEPT !.notes = @ + 1]
         [] f.what = "name" -> [q EXCEPT !.shown["name"] = f.val]
         [] f.what = "verified" -> IF refused THEN q ELSE [q EXCEPT !.shown["verified"] = f.val]
         [] f.what = "address" -> IF refused \/ f.val = p.addr THEN q
                                  ELSE [q EXCEPT !.addr = f.val, !.key = f.val]

\* Its app on 0.1 reads the old format and discards the rest undecoded.
Reads(p, f) == Opens(p, f) /\ (p.old => f.what = "upgrade")

\* What counts against the allowance: not a repeated state, not a name.
Counts(p, f) ==
    \/ f.what = "notice"
    \/ f.what = "verified" /\ p.shown["verified"] # f.val
    \/ f.what = "address" /\ p.addr # f.val

----------------------------------------------------------------------------
(* Actions *)

Saved(n) == [n EXCEPT !.flag = NoAddress, !.upgrading = FALSE, !.waiting = FALSE, !.delay = 0,
                      !.pend = [i \in DOMAIN @ |-> [@[i] EXCEPT !.busy = FALSE]],
                      !.held = [i \in DOMAIN @ |-> [@[i] EXCEPT !.busy = FALSE]]]

Now == [n |-> cnode, out |-> cout]
Becomes(s) == cnode' = s.n /\ cout' = s.out

UnchangedNet == UNCHANGED <<cdirect, crelay, cpeer, cback, cauth>>

\* report_screenshot, report_screen_recording, set_capture_override: the note in
\* our own chat says the contact was told; one save covers it and the queue.
ReportCapture ==
    /\ cleft.notices > 0
    /\ LET s == QueuePending([Now EXCEPT !.n = [AfterSeal(cnode) EXCEPT !.said = @ + 1]],
                             SealedFrame(cnode, "notice", cnode.said))
       IN Becomes(s) /\ cdisk' = Saved(s.n)
    /\ cleft' = [cleft EXCEPT !.notices = @ - 1]
    /\ UNCHANGED <<ccase, cround>> /\ UnchangedNet

\* set_my_name, set_verified
SetOneOff(k) ==
    /\ cleft.settings[k] > 0
    /\ LET v == cnode.my[k] + 1
           s == Deliver([Now EXCEPT !.n = [AfterSeal(cnode) EXCEPT !.my[k] = v]],
                        SealedFrame(cnode, k, v))
       IN Becomes(s) /\ cdisk' = Saved(s.n)
    /\ cleft' = [cleft EXCEPT !.settings[k] = @ - 1]
    /\ UNCHANGED <<ccase, cround>> /\ UnchangedNet

\* The poller's tick.
Tick ==
    /\ LET s == FlushPending(FlushHeld(UpgradeNotice(ReannounceAddress(Now)), FALSE))
       IN s # Now /\ Becomes(s)
    /\ UNCHANGED <<ccase, cdisk, cround, cleft>> /\ UnchangedNet

\* save_soon and maybe_flush: what the background changed is saved later.
SaveLater ==
    /\ cdisk # Saved(cnode)
    /\ cdisk' = Saved(cnode)
    /\ UNCHANGED <<ccase, cnode, cout, cround, cleft>> /\ UnchangedNet

BackoffEnds ==
    /\ cnode.waiting
    /\ cnode' = [cnode EXCEPT !.waiting = FALSE]
    /\ UNCHANGED <<ccase, cdisk, cout, cround, cleft>> /\ UnchangedNet

\* The app dies and is started again; moved: its onion is a new one.  The onion's
\* key is not part of the saved state (module OnionKey).
Restart(moved) ==
    /\ IF moved THEN cleft.moves > 0 ELSE cleft.kills > 0
    /\ Becomes(AnnounceIfChanged([n |-> [cdisk EXCEPT !.addr = IF moved THEN cnode.addr + 1 ELSE cnode.addr],
                                  out |-> <<>>]))
    /\ cround' = CtlNoRound
    /\ cleft' = IF moved THEN [cleft EXCEPT !.moves = @ - 1] ELSE [cleft EXCEPT !.kills = @ - 1]
    /\ UNCHANGED <<ccase, cdisk>> /\ UnchangedNet

\* take_outbox: the poller runs a round without the lock.
TakeControlRound ==
    /\ cround = CtlNoRound /\ cout # <<>>
    /\ cround' = [todo |-> cout, done |-> <<>>]
    /\ cout' = <<>>
    /\ UNCHANGED <<ccase, cnode, cdisk, cleft>> /\ UnchangedNet

\* Outbound::run: the device itself, or the mailbox, or nobody.
RunControlSend ==
    /\ cround.todo # <<>>
    /\ \E got \in {"direct", "relay", "failed"} :
          LET x == Head(cround.todo) IN
          /\ got = "direct" => ccase.online /\ x.done # "held by relay"
          /\ got = "relay" => ccase.relayed
          /\ got = "failed" => cleft.fails > 0
          /\ cround' = [todo |-> Tail(cround.todo),
                        done |-> Append(cround.done, [frame |-> x.frame, done |-> x.done, got |-> got])]
          /\ cdirect' = IF got = "direct" THEN Append(cdirect, x.frame) ELSE cdirect
          /\ crelay' = IF got = "relay" THEN Append(crelay, x.frame) ELSE crelay
          /\ cleft' = IF got = "failed" THEN [cleft EXCEPT !.fails = @ - 1] ELSE cleft
    /\ UNCHANGED <<ccase, cnode, cdisk, cout, cpeer, cback, cauth>>

ApplyRoundDone ==
    /\ cround.todo = <<>> /\ cround.done # <<>>
    /\ cnode' = FoldLeft(ApplyOutbound, cnode, cround.done)
    /\ cround' = CtlNoRound
    /\ UNCHANGED <<ccase, cdisk, cout, cleft>> /\ UnchangedNet

\* announce_client_key: a key for the new onion goes to it directly, which works
\* only where that onion already admits the contact, or by the mailbox, or is lost
\* (held, where there is no relay).
AnswerWithKey(p) ==
    \E lost \in BOOLEAN :
        /\ lost => ~ccase.relayed \/ cleft.keyfails > 0
        /\ ~lost => ccase.relayed \/ cauth = p.key
        /\ cback' = IF lost THEN cback
                    ELSE Append(cback, [what |-> "key", val |-> p.key,
                                        via |-> IF cauth = p.key THEN "direct" ELSE "relay"])
        /\ cleft' = IF lost /\ ccase.relayed THEN [cleft EXCEPT !.keyfails = @ - 1] ELSE cleft

\* process_frame for one frame f.
PeerTakes(f) ==
    IF ~Reads(cpeer, f) THEN UNCHANGED <<cpeer, cback, cleft>>
    ELSE \E refused \in BOOLEAN :
            /\ refused => cleft.refusals > 0 /\ Counts(cpeer, f)
            /\ cpeer' = Takes(cpeer, f, refused)
            /\ IF cpeer'.key # cpeer.key THEN AnswerWithKey(cpeer') /\ ~refused
               ELSE /\ cback' = cback
                    /\ cleft' = IF refused THEN [cleft EXCEPT !.refusals = @ - 1] ELSE cleft

PeerReadsDirect ==
    /\ cdirect # <<>> /\ PeerTakes(Head(cdirect))
    /\ cdirect' = Tail(cdirect)
    /\ UNCHANGED <<ccase, cnode, cdisk, cout, cround, crelay, cauth>>

PeerPolls ==
    /\ crelay # <<>> /\ PeerTakes(Head(crelay))
    /\ crelay' = Tail(crelay)
    /\ UNCHANGED <<ccase, cnode, cdisk, cout, cround, cdirect, cauth>>

\* The contact updates its app and announces the version.
ContactUpdates ==
    /\ cpeer.old
    /\ cpeer' = [cpeer EXCEPT !.old = FALSE]
    /\ cback' = Append(cback, [what |-> "version", val |-> 0, via |-> "direct"])
    /\ UNCHANGED <<ccase, cnode, cdisk, cout, cround, cdirect, crelay, cauth, cleft>>

\* ClientKeySealed: authorized at once.  A version ends the notice.
ReceiveBack ==
    /\ cback # <<>>
    /\ LET b == Head(cback)
           n == IF b.what = "version" THEN [cnode EXCEPT !.outdated = FALSE, !.toldUpgrade = FALSE]
                ELSE cnode
           s == [Now EXCEPT !.n = n]
       IN /\ cauth' = IF b.what = "key" THEN b.val ELSE cauth
          /\ Becomes(IF b.via = "direct" THEN HeardFrom(s) ELSE s)
    /\ cback' = Tail(cback)
    /\ UNCHANGED <<ccase, cdisk, cround, cdirect, crelay, cpeer, cleft>>

FirstAddress == 1
FirstNode(c) ==
    [seal |-> 0, said |-> 0, my |-> [k \in OneOffs |-> 0], addr |-> FirstAddress,
     restored |-> FirstAddress, told |-> FirstAddress, flag |-> NoAddress, pend |-> <<>>,
     held |-> <<>>, outdated |-> c.old, toldUpgrade |-> FALSE, upgrading |-> FALSE,
     waiting |-> FALSE, delay |-> 0]

CtlInit ==
    /\ ccase \in CtlCases
    /\ cnode = FirstNode(ccase) /\ cdisk = FirstNode(ccase)
    /\ cout = <<>> /\ cround = CtlNoRound /\ cdirect = <<>> /\ crelay = <<>> /\ cback = <<>>
    /\ cpeer = [opened |-> {}, notes |-> 0, shown |-> [k \in OneOffs |-> 0], addr |-> FirstAddress,
                key |-> FirstAddress, warned |-> FALSE, old |-> ccase.old]
    /\ cauth = FirstAddress
    /\ cleft = [notices |-> ccase.notices, settings |-> [k \in OneOffs |-> ccase.settings],
                moves |-> ccase.moves, fails |-> ccase.fails, keyfails |-> ccase.keyfails,
                kills |-> ccase.kills, refusals |-> ccase.refusals]

CtlNext ==
    \/ ReportCapture
    \/ \E k \in OneOffs : SetOneOff(k)
    \/ Tick \/ SaveLater \/ BackoffEnds
    \/ \E moved \in BOOLEAN : Restart(moved)
    \/ TakeControlRound \/ RunControlSend \/ ApplyRoundDone
    \/ PeerReadsDirect \/ PeerPolls \/ ContactUpdates \/ ReceiveBack

CtlSpec == CtlInit /\ [][CtlNext]_ctlVars

\* The poller ticks and sends for as long as the app runs, time passes, and the
\* contact's own poller reads what reached it and updates some day.
CtlFairness ==
    /\ WF_ctlVars(Tick) /\ WF_ctlVars(BackoffEnds)
    /\ WF_ctlVars(TakeControlRound) /\ WF_ctlVars(RunControlSend) /\ WF_ctlVars(ApplyRoundDone)
    /\ WF_ctlVars(PeerReadsDirect) /\ WF_ctlVars(PeerPolls)
    /\ WF_ctlVars(ContactUpdates) /\ WF_ctlVars(ReceiveBack)
CtlFairSpec == CtlSpec /\ CtlFairness

----------------------------------------------------------------------------
(* Properties *)

CtlTypeOK ==
    /\ ccase \in CtlCases
    /\ {cnode.said, cnode.seal, cpeer.notes} \subseteq Nat
    /\ cnode.delay \in 0..HeldCap /\ (cnode.waiting => cnode.delay > 0)
    /\ \A i, j \in DOMAIN cnode.pend : i # j => cnode.pend[i].frame # cnode.pend[j].frame
    /\ cauth \in FirstAddress..cnode.addr

\* A capture the contact reads of was one, counted once: what a retry after a
\* failure or a kill sends again does not open again.
NoticedOnce == cpeer.notes <= cnode.said

\* What holds of control frames at every step: the above, one queue entry per frame,
\* and a key of the contact that is for an onion of ours (apply_send_outcomes,
\* flush_pending_control_for, ClientKeySealed).
ControlHolds == CtlTypeOK /\ NoticedOnce

Refused == cleft.refusals < ccase.refusals
KeyLost == cleft.keyfails < ccase.keyfails

\* "The other person was told": every capture noted in our own chat is noted in
\* theirs (send_capture_notice), unless their daily allowance for us was used up.
NoticesArrived == Refused \/ cpeer.notes = cnode.said

\* A setting sent once shows as we last set it (set_my_name, set_verified), though
\* it was held while the contact's app was too old, or out of reach without a relay.
SettingsArrived == Refused \/ cpeer.shown = cnode.my

\* After our onion moves, the contact writes to the new one and its key for it is
\* admitted, so it can still dial us (reannounce_address, announce_client_key),
\* unless the one frame with that key was lost, which nothing sends again.
StillReachable ==
    Refused \/ (cpeer.addr = cnode.addr /\ (KeyLost \/ cauth = cnode.addr))

=============================================================================
