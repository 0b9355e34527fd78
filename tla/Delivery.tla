----------------------------- MODULE Delivery -----------------------------
(***************************************************************************)
(* One conversation, from a sender to a receiver: how a text message gets  *)
(* from the sender's history to the receiver's, and how it is edited and   *)
(* unsent on the way (core/src/node.rs, core/src/node/messaging.rs,        *)
(* core/src/node/frames.rs, core/src/api.rs).                              *)
(*                                                                         *)
(* The sender has three kinds of threads around one core lock: the poller  *)
(* (plan the deferred sends, dial without the lock, fold the outcomes back *)
(* in with the tick), its outbox job (retries and relay copies, run        *)
(* without the lock), and the API calls of the user (send, edit, unsend).  *)
(* Every action below is one section under that lock, or one network       *)
(* round without it.  The receiver pumps its direct connections and drains *)
(* its relay mailboxes destructively, saves, and only then sends receipts. *)
(*                                                                         *)
(* A frame is sealed under a ratchet key: its seal number.  A key is spent *)
(* by the frame the receiver opens with it, and opens nothing again.       *)
(***************************************************************************)
EXTENDS Naturals, Sequences, FiniteSets

CONSTANTS
    Ids,            \* message ids the sender may draw (random_msg_id)
    Relays,         \* relays of the receiver's set; {} = no relay route
    Handed,         \* in place of a relay: QueuedReceipt::handed_directly
    RemoteStorage,  \* opt-in server storage: a relay copy behind every send
    Faults,         \* the kinds of failure a run lets happen
    MaxFaults,      \* bound: failures in one behaviour
    MaxText,        \* bound: versions of a message's text
    MaxSeal,        \* bound: frames sealed by the sender
    MaxCalls,       \* bound: edit and unsend calls in progress at once
    Unsending       \* whether this run's user unsends messages

FaultKinds == {"wire", "post", "postreply", "recall", "recallreply",
               "receipt", "reply", "sender", "receiver", "allowance", "window"}

ASSUME DeliveryAssumption ==
    /\ Ids \subseteq Nat /\ IsFiniteSet(Ids)
    /\ IsFiniteSet(Relays) /\ Handed \notin Relays
    /\ RemoteStorage \in BOOLEAN /\ Unsending \in BOOLEAN
    /\ Faults \subseteq FaultKinds
    /\ MaxFaults \in Nat /\ MaxText \in Nat \ {0}
    /\ MaxSeal \in Nat /\ MaxCalls \in Nat

VARIABLES
    a,         \* the sender's node, in memory
    aDisk,     \* what its last save wrote
    planned,   \* the SendPlan items the poller has still to execute
    outcomes,  \* the SendOutcomes it has gathered for its next tick
    round,     \* the outbox round: entries to run, entries run
    calls,     \* edit and unsend calls in progress
    wire,      \* frames written to a connection the receiver has not read
    mailbox,   \* the receiver's mailbox on each relay
    b,         \* the receiver's node, in memory
    bDisk,     \* what its last save wrote
    drained,   \* blobs its drain took off the relays, not yet processed
    applying,  \* its tick is part-way through those blobs
    owed,      \* receipt_sends: receipts sealed and not yet sent
    full,      \* the sender's daily allowance at the receiver is used up
    closed,    \* ids the receiver has had for longer than EDIT_WINDOW
    acks,      \* receipts on their way to the sender
    faults,    \* failures so far
    retired,   \* history: <<id, text>> taken back before anyone had it
    refused,   \* history: ids whose edit or unsend returned an error
    early,     \* history: ids edited or unsent before a receipt named them
    dropped,   \* history: ids receipted and not kept, over the allowance
    late       \* history: ids whose Unsend came after the window and was ignored

senderVars == <<a, aDisk, planned, outcomes, round, calls>>
receiverVars == <<b, bDisk, drained, applying, owed, full, closed, dropped, late>>
netVars == <<wire, mailbox, acks, faults>>
histVars == <<retired, refused, early>>
vars == <<senderVars, receiverVars, netVars, histVars>>

-----------------------------------------------------------------------------
(* Data *)

Blank == 0                       \* the text of a tombstone
Texts == Blank .. MaxText
Seals == 0 .. MaxSeal
Frame == [kind : {"Message", "Edit", "Unsend"}, id : Ids, text : Texts, seal : Seals]
Message(id, text, seal) == [kind |-> "Message", id |-> id, text |-> text, seal |-> seal]
Edit(id, text, seal) == [kind |-> "Edit", id |-> id, text |-> text, seal |-> seal]
\* A bug: the frame is sealed under the key of the frame before it.
UnsendReusesKey(id, seal) ==
    [kind |-> "Unsend", id |-> id, text |-> Blank, seal |-> seal - 1]
Unsend(id, seal) == [kind |-> "Unsend", id |-> id, text |-> Blank, seal |-> seal]

\* ChatMessage on the sender's side: "none" is not yet composed, "gone" is
\* removed from the history, "deleted" is a tombstone.
Badges == {"", "queued", "sent", "delivered", "waiting"}
Sent == [kind : {"none", "text", "deleted", "gone"}, text : Texts, delivery : Badges]
Shown == [kind : {"none", "text", "deleted"}, text : Texts]
NotComposed == [kind |-> "none", text |-> Blank, delivery |-> ""]
Gone == [kind |-> "gone", text |-> Blank, delivery |-> ""]
NotShown == [kind |-> "none", text |-> Blank]
Present(m) == m.kind \in {"text", "deleted"}

\* make_tombstone: the id and the place stay, the text and the badge go.
make_tombstone(m) == [kind |-> "deleted", text |-> Blank, delivery |-> ""]

Copy == [relay : Relays \cup {Handed}, frame : Frame]
HeldSend == [frame : Frame, at : Nat, in_flight : BOOLEAN]
Routes == {"RelayOnly", "DirectThenRelay"}
Done == {"Held", "Unconfirmed", "Caller", "CallerRecords"}
Outbound == [frame : Frame, route : Routes, done : Done]
Delivery == [via : {"Direct", "Relay", "Failed"}, copies : SUBSET Copy]
Finished == [out : Outbound, delivery : Delivery]
Outcome == [frame : Frame, delivered : BOOLEAN, copies : SUBSET Copy]
Round == [todo : SUBSET Outbound, finished : SUBSET Finished, applying : BOOLEAN]
NoRound == [todo |-> {}, finished |-> {}, applying |-> FALSE]
NotSent == [via |-> "Failed", copies |-> {}]
Call == [op : {"edit", "unsend"}, id : Ids, text : Texts,
         phase : {"recall", "finish", "send", "apply"},
         copies : SUBSET Copy, recalled : {"none", "yes", "no"},
         out : SUBSET Outbound, delivery : Delivery]

Node == [hist : [Ids -> Sent], pending_sends : SUBSET Frame, held : SUBSET HeldSend,
         awaiting_receipt : SUBSET Ids, relay_receipts : [Ids -> SUBSET Copy],
         outbox : SUBSET Outbound, seal : Seals]
Persisted == [hist : [Ids -> Sent], held : SUBSET HeldSend,
              relay_receipts : [Ids -> SUBSET Copy], seal : Seals]
Receiver == [inbox : [Ids -> Shown], spent : SUBSET Seals]

\* What export writes: the queues that only live in memory are left out, and
\* a held frame comes back not in flight.
Export(n) == [hist |-> n.hist, held |-> {[h EXCEPT !.in_flight = FALSE] : h \in n.held},
              relay_receipts |-> n.relay_receipts, seal |-> n.seal]
Import(d) == [hist |-> d.hist, pending_sends |-> {}, held |-> d.held,
              awaiting_receipt |-> {}, relay_receipts |-> d.relay_receipts,
              outbox |-> {}, seal |-> d.seal]

-----------------------------------------------------------------------------
(* The sender's node: what one section under the lock computes *)

HasRelayRoute == Relays # {}

\* held_unsent: the held copies of a message that are not on their way.
HeldUnsent(n, id) ==
    {h \in n.held : h.frame.kind = "Message" /\ h.frame.id = id /\ ~h.in_flight}

Newest(held) == IF held = {} THEN 0 ELSE CHOOSE k \in {h.at : h \in held} :
                                            \A h \in held : h.at <= k
Oldest(held) == {h \in held : \A g \in held : h.at <= g.at}

\* Frames pushed on the held queue together, in sealing order.
Hold(held, frames) ==
    held \cup {[frame |-> f, in_flight |-> FALSE,
                at |-> Newest(held) + Cardinality({g \in frames : g.seal <= f.seal})] :
               f \in frames}

\* flush_held_for: with a relay route every idle entry goes, without one the
\* oldest only, when its backoff allows.
FlushHeld(n, direct_first, may_retry) ==
    LET idle == {h \in n.held : ~h.in_flight}
        go == IF HasRelayRoute THEN idle
              ELSE IF may_retry THEN Oldest(n.held) \cap idle ELSE {}
        route == IF HasRelayRoute /\ ~direct_first THEN "RelayOnly" ELSE "DirectThenRelay"
    IN  [n EXCEPT !.held = (@ \ go) \cup {[h EXCEPT !.in_flight = TRUE] : h \in go},
                  !.outbox = @ \cup {[frame |-> h.frame, route |-> route, done |-> "Held"] :
                                     h \in go}]

\* The Delivered handler, then heard_from for receipts read off a connection.
Receipted(n, ids, direct) ==
    LET m == [n EXCEPT !.hist = [id \in Ids |-> IF id \in ids /\ Present(@[id])
                                                THEN [@[id] EXCEPT !.delivery = "delivered"]
                                                ELSE @[id]],
                       !.awaiting_receipt = @ \ ids]
    IN  IF direct /\ ids # {} THEN FlushHeld(m, TRUE, TRUE) ELSE m

\* apply_send_outcomes, hold_message included.
ApplySendOutcomes(n, outs) ==
    LET Of(id) == {o \in outs : o.frame.id = id}
        failed == {o \in outs : ~o.delivered /\ o.copies = {}}
        badge(o) == IF o.delivered THEN "sent"
                    ELSE IF o \in failed /\ ~HasRelayRoute THEN "waiting" ELSE "queued"
    IN  [n EXCEPT
          !.hist = [id \in Ids |-> IF Of(id) # {} /\ Present(@[id])
                                   THEN [@[id] EXCEPT !.delivery =
                                           badge(CHOOSE o \in Of(id) : TRUE)]
                                   ELSE @[id]],
          !.relay_receipts = [id \in Ids |->
              IF \E o \in Of(id) : ~o.delivered /\ o.copies # {}
              THEN UNION {o.copies : o \in Of(id)} ELSE @[id]],
          !.awaiting_receipt = @ \cup {o.frame.id : o \in {p \in outs : p.delivered}},
          !.held = Hold(@, {o.frame : o \in failed})]

\* sweep_unconfirmed for the entries whose RECEIPT_TIMEOUT has passed: those
\* still "sent" are sealed again, the others are dropped.
Unconfirmed(n, ids) == {id \in ids : Present(n.hist[id]) /\ n.hist[id].delivery = "sent"}
\* A bug: sealing starts one key too far.
SweepUnconfirmedSkipsKey(n, ids) ==
    LET again == Unconfirmed(n, ids)
        seal(id) == n.seal + 1 + Cardinality({j \in again : j <= id})
    IN  [n EXCEPT !.awaiting_receipt = @ \ ids,
                  !.seal = @ + Cardinality(again),
                  !.outbox = @ \cup {[frame |-> Message(id, n.hist[id].text, seal(id)),
                                      route |-> "RelayOnly", done |-> "Unconfirmed"] :
                                     id \in again}]
\* A bug: an overdue entry leaves the clock and nothing is queued for it.
SweepUnconfirmedForgets(n, ids) == [n EXCEPT !.awaiting_receipt = @ \ ids]
SweepUnconfirmed(n, ids) ==
    LET again == Unconfirmed(n, ids)
        seal(id) == n.seal + Cardinality({j \in again : j <= id})
        route == IF HasRelayRoute THEN "RelayOnly" ELSE "DirectThenRelay"
    IN  [n EXCEPT !.awaiting_receipt = @ \ ids,
                  !.seal = @ + Cardinality(again),
                  !.outbox = @ \cup {[frame |-> Message(id, n.hist[id].text, seal(id)),
                                      route |-> route, done |-> "Unconfirmed"] : id \in again}]

-----------------------------------------------------------------------------
(* The network: dials, posts and what goes wrong with them *)

Pay(kinds) ==
    /\ kinds \subseteq Faults
    /\ faults + Cardinality(kinds) <= MaxFaults
    /\ faults' = faults + Cardinality(kinds)

\* queue_on_relays: relays in `took` answered, those in `stray` stored a copy
\* whose answer was lost, the rest took nothing.
Copies(f, took) == {[relay |-> r, frame |-> f] : r \in took}
Deliveries(f) ==
    {NotSent, [via |-> "Direct", copies |-> {}]}
        \cup {[via |-> "Relay", copies |-> Copies(f, took)] : took \in SUBSET Relays \ {{}}}
PostFaults(took, stray) ==
    (IF stray # {} THEN {"postreply"} ELSE {})
        \cup (IF took \cup stray # Relays THEN {"post"} ELSE {})
Post(f, took, stray) ==
    /\ mailbox' = [r \in Relays |-> IF r \in took \cup stray THEN Append(mailbox[r], f)
                                    ELSE mailbox[r]]
    /\ Pay(PostFaults(took, stray))

\* DetachedSend::run: a direct hand-over, a relay copy, or neither.
RunDirect(f, route, result) ==
    /\ route = "DirectThenRelay"
    /\ wire' = wire \cup {f}
    /\ result = [via |-> "Direct", copies |-> {}]
    /\ UNCHANGED <<mailbox, faults>>
RunRelay(f, took, stray, result) ==
    /\ Post(f, took, stray)
    /\ result = IF took = {} THEN NotSent ELSE [via |-> "Relay", copies |-> Copies(f, took)]
    /\ UNCHANGED wire
Run(f, route, result) ==
    \/ RunDirect(f, route, result)
    \/ \E took \in SUBSET Relays, stray \in SUBSET Relays :
         took \cap stray = {} /\ RunRelay(f, took, stray, result)

-----------------------------------------------------------------------------
(* The sender: the user's calls *)

\* The lock is taken, so no round is part-way through being applied.
Locked == ~round.applying /\ UNCHANGED <<receiverVars, netVars>>
Save == aDisk' = Export(a')
\* The debounced save happens now or with a later one; without restarts
\* nothing reads the file and the choice is not tracked.
SaveSoon == aDisk' \in IF "sender" \in Faults THEN {aDisk, Export(a')} ELSE {Export(a')}

\* api send_message, Node::send_inner: seal, store as "queued", defer, save.
SendMessage(id) ==
    /\ a.hist[id].kind = "none"
    /\ a.seal < MaxSeal
    /\ a' = [a EXCEPT !.hist[id] = [kind |-> "text", text |-> 1, delivery |-> "queued"],
                      !.seal = @ + 1,
                      !.pending_sends = @ \cup {Message(id, 1, a.seal + 1)}]
    /\ Save
    /\ Locked /\ UNCHANGED <<planned, outcomes, round, calls, histVars>>

NewCall(op, id, text) ==
    LET queued == a.hist[id].delivery = "queued"
        copies == IF queued THEN a.relay_receipts[id] ELSE {}
    IN  [op |-> op, id |-> id, text |-> text, copies |-> copies,
         phase |-> IF queued THEN "recall" ELSE "finish",
         recalled |-> IF ~queued THEN "none" ELSE IF copies = {} THEN "no" ELSE "yes",
         out |-> {}, delivery |-> NotSent]

\* begin_edit: the local text changes at once; a queued message also gives
\* up its relay receipts for the recall.
BeginEdit(id) ==
    /\ Cardinality(calls) < MaxCalls
    /\ a.hist[id].kind = "text" /\ a.hist[id].text < MaxText
    /\ calls' = calls \cup {NewCall("edit", id, a.hist[id].text + 1)}
    /\ a' = [a EXCEPT !.hist[id].text = @ + 1,
                      !.relay_receipts[id] = IF a.hist[id].delivery = "queued" THEN {} ELSE @]
    /\ early' = IF a.hist[id].delivery = "delivered" THEN early ELSE early \cup {id}
    /\ Locked /\ UNCHANGED <<aDisk, planned, outcomes, round, retired, refused>>

\* begin_unsend: the same, with nothing changed locally yet.
BeginUnsend(id) ==
    /\ Unsending
    /\ Cardinality(calls) < MaxCalls
    /\ a.hist[id].kind = "text"
    /\ calls' = calls \cup {NewCall("unsend", id, Blank)}
    /\ a' = [a EXCEPT !.relay_receipts[id] = IF a.hist[id].delivery = "queued" THEN {} ELSE @]
    /\ early' = IF a.hist[id].delivery = "delivered" THEN early ELSE early \cup {id}
    /\ Locked /\ UNCHANGED <<aDisk, planned, outcomes, round, retired, refused>>

\* recall_receipts, one copy: recalled only if the relay still has it and
\* says so.  A hand-over marker has no handle and is never recalled.
Places(c) == {i \in DOMAIN mailbox[c.relay] : mailbox[c.relay][i] = c.frame}
RecallOk(c) == c.relay \in Relays /\ Places(c) # {}
Recalled(c) ==
    LET last == CHOOSE i \in Places(c) : \A j \in Places(c) : j <= i
    IN  [j \in 1 .. (Len(mailbox[c.relay]) - 1) |->
            mailbox[c.relay][IF j < last THEN j ELSE j + 1]]
\* Texts nobody has and that are no longer the message's: taken back for good.
TakenBack(id, texts) == retired \cup {<<id, t>> : t \in texts \ {a.hist[id].text}}
Withdraws(k, c, ok) ==
    retired' = IF ok /\ k.recalled = "yes" /\ k.copies = {c}
               THEN TakenBack(k.id, {c.frame.text}) ELSE retired
\* A bug: one copy recalled is taken for all of them.
RecallCopyAny(k, c) ==
    /\ k.phase = "recall" /\ c \in k.copies
    /\ \/ RecallOk(c) /\ mailbox' = [mailbox EXCEPT ![c.relay] = Recalled(c)]
       \/ ~RecallOk(c) /\ UNCHANGED mailbox
    /\ calls' = (calls \ {k}) \cup {[k EXCEPT !.copies = @ \ {c}]}
    /\ Withdraws(k, c, TRUE)
    /\ UNCHANGED <<a, aDisk, planned, outcomes, round, receiverVars, wire, acks, faults>>
    /\ UNCHANGED <<refused, early>>
RecallCopy(k, c) ==
    LET Answered(ok) ==
            /\ calls' = (calls \ {k}) \cup
                 {[k EXCEPT !.copies = @ \ {c}, !.recalled = IF ok THEN @ ELSE "no"]}
            /\ Withdraws(k, c, ok)
        Removed == mailbox' = [mailbox EXCEPT ![c.relay] = Recalled(c)]
    IN  /\ k.phase = "recall" /\ c \in k.copies
        /\ \/ RecallOk(c) /\ Removed /\ Answered(TRUE) /\ UNCHANGED faults
           \/ RecallOk(c) /\ Removed /\ Answered(FALSE) /\ Pay({"recallreply"})
           \/ ~RecallOk(c) /\ Answered(FALSE) /\ UNCHANGED <<mailbox, faults>>
           \/ RecallOk(c) /\ Answered(FALSE) /\ Pay({"recall"}) /\ UNCHANGED mailbox
        /\ UNCHANGED <<a, aDisk, planned, outcomes, round, receiverVars, wire, acks>>
        /\ UNCHANGED <<refused, early>>

RecallDone(k) == k.phase \in {"recall", "finish"} /\ k.copies = {}
CallEnds(k) == calls' = calls \ {k}
CallSends(k, f, route, done) ==
    calls' = (calls \ {k}) \cup
        {[k EXCEPT !.phase = "send", !.out = {[frame |-> f, route |-> route, done |-> done]}]}

\* finish_edit: re-seal a copy still held here; post the new text in place of
\* a message recalled in full; otherwise send an Edit frame.
FinishEdit(k) ==
    LET s == a.seal + 1
        mine == HeldUnsent(a, k.id)
    IN  /\ k.op = "edit" /\ RecallDone(k) /\ a.seal < MaxSeal
        /\ \/ /\ mine # {}
              /\ a' = [a EXCEPT !.seal = s,
                                !.held = (@ \ mine) \cup
                                   {[h EXCEPT !.frame = Message(k.id, k.text, s)] : h \in mine}]
              /\ CallEnds(k)
              /\ retired' = TakenBack(k.id, {h.frame.text : h \in mine})
           \/ /\ mine = {} /\ k.recalled = "yes"
              /\ a' = [a EXCEPT !.seal = s]
              /\ CallSends(k, Message(k.id, k.text, s), "RelayOnly", "CallerRecords")
              /\ UNCHANGED retired
           \/ /\ mine = {} /\ k.recalled # "yes"
              /\ a' = [a EXCEPT !.seal = s]
              /\ CallSends(k, Edit(k.id, k.text, s), "DirectThenRelay", "Caller")
              /\ UNCHANGED retired
        /\ Save
        /\ Locked /\ UNCHANGED <<planned, outcomes, round, refused, early>>

\* finish_unsend: drop a copy still held here, remove a message recalled in
\* full, otherwise leave a tombstone and send an Unsend frame.
FinishUnsend(k) ==
    LET mine == HeldUnsent(a, k.id)
        Withdrawn == retired' = retired \cup {<<k.id, t>> : t \in Texts}
    IN  /\ k.op = "unsend" /\ RecallDone(k)
        /\ \/ /\ mine # {}
              /\ a' = [a EXCEPT !.held = @ \ mine, !.hist[k.id] = Gone]
              /\ CallEnds(k) /\ Withdrawn
           \/ /\ mine = {} /\ ~Present(a.hist[k.id])
              /\ CallEnds(k) /\ UNCHANGED <<a, retired>>
           \/ /\ mine = {} /\ Present(a.hist[k.id]) /\ k.recalled = "yes"
              /\ a' = [a EXCEPT !.hist[k.id] = Gone]
              /\ CallEnds(k) /\ Withdrawn
           \/ /\ mine = {} /\ Present(a.hist[k.id]) /\ k.recalled # "yes"
              /\ a.seal < MaxSeal
              /\ a' = [a EXCEPT !.hist[k.id] = make_tombstone(@), !.seal = @ + 1]
              /\ CallSends(k, Unsend(k.id, a.seal + 1), "DirectThenRelay", "Caller")
              /\ UNCHANGED retired
        /\ Save
        /\ Locked /\ UNCHANGED <<planned, outcomes, round, refused, early>>

\* send_for_caller, without the lock.
RunCall(k, o) ==
    /\ k.phase = "send" /\ o \in k.out
    /\ \E d \in Deliveries(o.frame) :
         /\ Run(o.frame, o.route, d)
         /\ calls' = (calls \ {k}) \cup {[k EXCEPT !.phase = "apply", !.delivery = d]}
    /\ UNCHANGED <<a, aDisk, planned, outcomes, round, receiverVars, acks, histVars>>

\* apply_outbound for a caller's frame: hold it if there is no relay route,
\* record the copies of a re-posted message, or report the error.
ApplyCall(k, o) ==
    LET failed == k.delivery.via = "Failed"
    IN  /\ k.phase = "apply" /\ o \in k.out
        /\ a' = [a EXCEPT
                  !.held = IF failed /\ ~HasRelayRoute THEN Hold(@, {o.frame}) ELSE @,
                  !.relay_receipts[k.id] =
                     IF o.done = "CallerRecords" /\ ~failed THEN k.delivery.copies ELSE @]
        /\ CallEnds(k)
        /\ refused' = IF failed /\ HasRelayRoute THEN refused \cup {k.id} ELSE refused
        /\ SaveSoon
        /\ Locked /\ UNCHANGED <<planned, outcomes, round, retired, early>>

-----------------------------------------------------------------------------
(* The sender: the poller *)

\* plan_pending_sends: everything composed so far, in one batch.
PlanPendingSends ==
    /\ planned = {} /\ outcomes = {} /\ a.pending_sends # {}
    /\ planned' = a.pending_sends
    /\ a' = [a EXCEPT !.pending_sends = {}]
    /\ Locked /\ UNCHANGED <<aDisk, outcomes, round, calls, histVars>>

\* execute_sends, one item, without the lock: the dial, then the relays when
\* it failed or when the chat keeps server copies.
ExecuteSend(f) ==
    /\ f \in planned
    /\ planned' = planned \ {f}
    /\ \E delivered \in BOOLEAN :
         /\ wire' = IF delivered THEN wire \cup {f} ELSE wire
         /\ \/ /\ ~delivered \/ RemoteStorage
               /\ \E took \in SUBSET Relays, stray \in SUBSET Relays :
                    /\ took \cap stray = {}
                    /\ Post(f, took, stray)
                    /\ outcomes' = outcomes \cup
                         {[frame |-> f, delivered |-> delivered, copies |-> Copies(f, took)]}
            \/ /\ delivered /\ ~RemoteStorage
               /\ outcomes' = outcomes \cup
                    {[frame |-> f, delivered |-> TRUE, copies |-> {}]}
               /\ UNCHANGED <<mailbox, faults>>
    /\ UNCHANGED <<a, aDisk, round, calls, receiverVars, acks, histVars>>

\* apply_tick: receipts from the direct pump, receipts from the relay
\* harvest, the outcomes of the sends, and on the relay cadence the held
\* queue and the receipt sweep.
TickNode(direct, relayed, due, timed, may_retry) ==
    LET pumped == Receipted(a, direct, TRUE)
        harvested == Receipted(pumped, relayed, FALSE)
        applied == ApplySendOutcomes(harvested, outcomes)
    IN  IF due THEN SweepUnconfirmed(FlushHeld(applied, FALSE, may_retry), timed) ELSE applied
Tick(direct, relayed, due, timed, may_retry) ==
    /\ planned = {} /\ ~round.applying
    /\ a.seal + Cardinality(timed) <= MaxSeal
    /\ a' = TickNode(direct, relayed, due, timed, may_retry)
    /\ acks' = acks \ (direct \cup relayed)
    /\ outcomes' = {}
    /\ IF outcomes # {} THEN Save ELSE SaveSoon
    /\ UNCHANGED <<planned, round, calls, receiverVars, wire, mailbox, faults, histVars>>

\* take_outbox: the poller starts the next round once the last is applied.
TakeOutbox ==
    /\ round.todo = {} /\ round.finished = {} /\ a.outbox # {}
    /\ round' = [todo |-> a.outbox, finished |-> {}, applying |-> FALSE]
    /\ a' = [a EXCEPT !.outbox = {}]
    /\ Locked /\ UNCHANGED <<aDisk, planned, outcomes, calls, histVars>>

\* run_outbox, one entry, without the lock.
RunOutbox(o) ==
    /\ o \in round.todo
    /\ \E d \in Deliveries(o.frame) :
         /\ Run(o.frame, o.route, d)
         /\ round' = [round EXCEPT !.todo = @ \ {o},
                                   !.finished = @ \cup {[out |-> o, delivery |-> d]}]
    /\ UNCHANGED <<a, aDisk, planned, outcomes, calls, receiverVars, acks, histVars>>

\* apply_outbound for a held frame.
ApplyHeld(n, x) ==
    LET f == x.out.frame
        entry == {h \in n.held : h.frame = f}
        direct == x.delivery.via = "Direct"
        named == f.kind = "Message"
        landed == [n EXCEPT
            !.held = @ \ entry,
            !.hist[f.id] = IF named /\ Present(@)
                           THEN [@ EXCEPT !.delivery = IF direct THEN "sent" ELSE "queued"]
                           ELSE @,
            !.relay_receipts[f.id] = IF named /\ ~direct THEN x.delivery.copies ELSE @,
            !.awaiting_receipt = IF named /\ direct THEN @ \cup {f.id} ELSE @]
    IN  IF entry = {} THEN n
        ELSE IF x.delivery.via = "Failed"
             THEN [n EXCEPT !.held = (@ \ entry) \cup
                                     {[h EXCEPT !.in_flight = FALSE] : h \in entry}]
        ELSE IF direct THEN FlushHeld(landed, TRUE, TRUE) ELSE landed

\* A bug: a relay copy that no relay took is not put back on the clock.
ApplyUnconfirmedOnce(n, x) ==
    IF x.delivery.via = "Relay"
    THEN [n EXCEPT !.hist[x.out.frame.id] = [@ EXCEPT !.delivery = "queued"]] ELSE n

\* apply_outbound for a relay copy behind an unconfirmed message: the direct
\* copy went first, so the receipts name it too.
ApplyUnconfirmed(n, x) ==
    LET id == x.out.frame.id
    IN  IF x.delivery.via = "Relay"
        THEN [n EXCEPT
               !.relay_receipts[id] = x.delivery.copies \cup {[relay |-> Handed, frame |-> x.out.frame]},
               !.hist[id] = IF Present(@) /\ @.delivery = "sent"
                            THEN [@ EXCEPT !.delivery = "queued"] ELSE @]
        ELSE [n EXCEPT !.awaiting_receipt = @ \cup {id}]

\* apply_outbox_round: one entry of a finished round.  The lock is held until
\* the last one is applied.
ApplyOutbound(x) ==
    /\ round.todo = {} /\ x \in round.finished
    /\ round' = [round EXCEPT !.finished = @ \ {x}, !.applying = (round.finished # {x})]
    /\ a' = IF x.out.done = "Held" THEN ApplyHeld(a, x) ELSE ApplyUnconfirmed(a, x)
    /\ IF round'.applying THEN UNCHANGED aDisk ELSE SaveSoon
    /\ UNCHANGED <<planned, outcomes, calls, receiverVars, netVars, histVars>>

-----------------------------------------------------------------------------
(* The receiver *)

\* A bug: a copy of a message is a duplicate only while its text is shown.
ProcessFrameRevives(n, f) ==
    LET m == n.inbox[f.id]
        open == m.kind = "text" /\ f.id \notin closed
        shown == CASE f.kind = "Message" /\ m.kind # "text" /\ ~full ->
                          [kind |-> "text", text |-> f.text]
                   [] f.kind = "Edit" /\ open -> [kind |-> "text", text |-> f.text]
                   [] f.kind = "Unsend" /\ open -> [kind |-> "deleted", text |-> Blank]
                   [] OTHER -> m
    IN  IF f.seal \in n.spent THEN n
        ELSE [inbox |-> [n.inbox EXCEPT ![f.id] = shown], spent |-> n.spent \cup {f.seal}]

\* process_frame for the frames of this conversation, on node n: a first copy
\* is kept within the daily allowance, an Edit or Unsend is obeyed within the
\* edit window of the receiver's own clock.  A frame whose key is spent (a
\* replay, or bytes seen before) changes nothing.
ProcessFrame(n, f) ==
    LET m == n.inbox[f.id]
        open == m.kind = "text" /\ f.id \notin closed
        shown == CASE f.kind = "Message" /\ m.kind = "none" /\ ~full ->
                          [kind |-> "text", text |-> f.text]
                   [] f.kind = "Edit" /\ open -> [kind |-> "text", text |-> f.text]
                   [] f.kind = "Unsend" /\ open -> [kind |-> "deleted", text |-> Blank]
                   [] OTHER -> m
    IN  IF f.seal \in n.spent THEN n
        ELSE [inbox |-> [n.inbox EXCEPT ![f.id] = shown], spent |-> n.spent \cup {f.seal}]

\* Every Message that opens is receipted: one that is kept, a duplicate, and
\* one the allowance drops ("or the sender re-queues it for ever").
Receipt(n, f) == IF f.kind = "Message" /\ f.seal \notin n.spent THEN {f.id} ELSE {}

\* The frames a node opens and does not obey.
OverAllowance(n, f) ==
    full /\ f.kind = "Message" /\ f.seal \notin n.spent /\ n.inbox[f.id].kind = "none"
TooLate(n, f) ==
    /\ f.id \in closed /\ f.kind = "Unsend" /\ f.seal \notin n.spent
    /\ n.inbox[f.id].kind = "text"

\* One frame given to the receiver's process_frame, with the receipt it owes.
Processes(f) ==
    /\ b' = ProcessFrame(b, f)
    /\ owed' = owed \cup Receipt(b, f)
    /\ dropped' = IF OverAllowance(b, f) THEN dropped \cup {f.id} ELSE dropped
    /\ late' = IF TooLate(b, f) THEN late \cup {f.id} ELSE late
    /\ UNCHANGED <<full, closed>>

\* A bug: an arriving message is saved with the debounced rest.
ReceiverSavesLater(n) == bDisk' \in {bDisk, n}
\* The save of its tick: at once if a chat changed, debounced otherwise.
ReceiverSaves(n) ==
    IF n.inbox # bDisk.inbox \/ "receiver" \notin Faults THEN bDisk' = n
    ELSE bDisk' \in {bDisk, n}

\* One tick that pumps a frame off a connection and saves; its receipts go
\* out after it and before the next tick.
Pump(f) ==
    /\ f \in wire /\ owed = {} /\ ~applying
    /\ wire' = wire \ {f}
    /\ Processes(f)
    /\ ReceiverSaves(b')
    /\ UNCHANGED <<senderVars, drained, applying, mailbox, acks, faults, histVars>>

\* drain_relay_mailboxes, one relay: the take removes what it returns.
TakeMailbox(r) ==
    /\ ~applying /\ mailbox[r] # <<>>
    /\ drained' = drained \o mailbox[r]
    /\ mailbox' = [mailbox EXCEPT ![r] = <<>>]
    /\ UNCHANGED <<senderVars, b, bDisk, applying, owed, full, closed, dropped, late>>
    /\ UNCHANGED <<wire, acks, faults, histVars>>

\* apply_relay_harvest, one blob; the tick saves once it has been through all
\* of them.
ApplyHarvest ==
    /\ drained # <<>> /\ (owed = {} \/ applying)
    /\ drained' = Tail(drained)
    /\ applying' = (Tail(drained) # <<>>)
    /\ Processes(Head(drained))
    /\ IF applying' THEN UNCHANGED bDisk ELSE ReceiverSaves(b')
    /\ UNCHANGED <<senderVars, netVars, histVars>>

\* The poller sends the receipts of the tick, after its save.
SendReceipts ==
    /\ owed # {} /\ ~applying
    /\ owed' = {}
    /\ acks' = acks \cup owed
    /\ UNCHANGED <<senderVars, b, bDisk, drained, applying, full, closed, dropped, late>>
    /\ UNCHANGED <<wire, mailbox, faults, histVars>>

\* Allowance::admit: what else the contact sent today fills the allowance; a
\* day later (or with the clock set back) it starts afresh.
AllowanceFills ==
    /\ ~full /\ full' = TRUE
    /\ Pay({"allowance"})
    /\ UNCHANGED <<senderVars, b, bDisk, drained, applying, owed, closed, dropped, late>>
    /\ UNCHANGED <<wire, mailbox, acks, histVars>>
DayTurns ==
    /\ full /\ full' = FALSE
    /\ UNCHANGED <<senderVars, b, bDisk, drained, applying, owed, closed, dropped, late>>
    /\ UNCHANGED <<netVars, histVars>>

\* EDIT_WINDOW passes at the receiver, counted from the arrival it recorded.
WindowPasses(id) ==
    /\ b.inbox[id].kind = "text" /\ id \notin closed
    /\ closed' = closed \cup {id}
    /\ Pay({"window"})
    /\ UNCHANGED <<senderVars, b, bDisk, drained, applying, owed, full, dropped, late>>
    /\ UNCHANGED <<wire, mailbox, acks, histVars>>

-----------------------------------------------------------------------------
(* Failures *)

\* A frame written to a connection nobody reads again.
LoseFrame(f) ==
    /\ f \in wire /\ wire' = wire \ {f}
    /\ Pay({"wire"})
    /\ UNCHANGED <<senderVars, receiverVars, mailbox, acks, histVars>>

LoseReceipt(id) ==
    /\ id \in acks /\ acks' = acks \ {id}
    /\ Pay({"receipt"})
    /\ UNCHANGED <<senderVars, receiverVars, wire, mailbox, histVars>>

\* A take the relay carried out and whose answer never came back.
LoseTake(r) ==
    /\ mailbox[r] # <<>>
    /\ mailbox' = [mailbox EXCEPT ![r] = <<>>]
    /\ Pay({"reply"})
    /\ UNCHANGED <<senderVars, receiverVars, wire, acks, histVars>>

\* The sender's app dies and starts again from its last save.
SenderRestarts ==
    /\ Pay({"sender"})
    /\ a' = Import(aDisk)
    /\ planned' = {} /\ outcomes' = {} /\ calls' = {}
    /\ round' = NoRound
    /\ UNCHANGED <<aDisk, receiverVars, wire, mailbox, acks, histVars>>

\* The receiver's app dies: its memory, the drain in hand and the unsent
\* receipts go with it.  The count of the allowance is not saved; the arrival
\* times are, with their messages.
ReceiverRestarts ==
    /\ Pay({"receiver"})
    /\ b' = bDisk
    /\ drained' = <<>> /\ applying' = FALSE /\ owed' = {}
    /\ full' = FALSE
    /\ closed' = {id \in closed : bDisk.inbox[id].kind # "none"}
    /\ UNCHANGED <<senderVars, bDisk, dropped, late, wire, mailbox, acks, histVars>>

-----------------------------------------------------------------------------

Init ==
    /\ a = [hist |-> [id \in Ids |-> NotComposed], pending_sends |-> {}, held |-> {},
            awaiting_receipt |-> {}, relay_receipts |-> [id \in Ids |-> {}],
            outbox |-> {}, seal |-> 0]
    /\ aDisk = Export(a)
    /\ planned = {} /\ outcomes = {} /\ round = NoRound /\ calls = {}
    /\ wire = {} /\ mailbox = [r \in Relays |-> <<>>] /\ acks = {} /\ faults = 0
    /\ b = [inbox |-> [id \in Ids |-> NotShown], spent |-> {}]
    /\ bDisk = b /\ drained = <<>> /\ applying = FALSE /\ owed = {}
    /\ full = FALSE /\ closed = {}
    /\ retired = {} /\ refused = {} /\ early = {} /\ dropped = {} /\ late = {}

UserStep == \E id \in Ids : SendMessage(id) \/ BeginEdit(id) \/ BeginUnsend(id)
CallStep ==
    \E k \in calls :
        \/ \E c \in k.copies : RecallCopy(k, c)
        \/ FinishEdit(k) \/ FinishUnsend(k)
        \/ \E o \in k.out : RunCall(k, o) \/ ApplyCall(k, o)
TickStep ==
    \E direct \in SUBSET acks, due \in BOOLEAN, may_retry \in BOOLEAN :
        \E relayed \in SUBSET (acks \ direct) :
            \E timed \in SUBSET (a.awaiting_receipt \ (direct \cup relayed)) :
                /\ ~due => timed = {} /\ ~may_retry
                /\ Tick(direct, relayed, due, timed, may_retry)
PollerStep ==
    \/ PlanPendingSends \/ \E f \in planned : ExecuteSend(f)
    \/ TickStep
    \/ TakeOutbox \/ \E o \in round.todo : RunOutbox(o)
    \/ \E x \in round.finished : ApplyOutbound(x)
ReceiverStep ==
    \/ \E f \in wire : Pump(f)
    \/ \E r \in Relays : TakeMailbox(r)
    \/ ApplyHarvest \/ SendReceipts
ClockStep == AllowanceFills \/ DayTurns \/ \E id \in Ids : WindowPasses(id)
Failure ==
    \/ \E f \in wire : LoseFrame(f)
    \/ \E id \in acks : LoseReceipt(id)
    \/ \E r \in Relays : LoseTake(r)
    \/ SenderRestarts \/ ReceiverRestarts

Next == UserStep \/ CallStep \/ PollerStep \/ ReceiverStep \/ ClockStep \/ Failure
Spec == Init /\ [][Next]_vars

\* The poller loops of both ends keep running, the retry clocks run out, and
\* a call in progress is carried through.
DueTick ==
    LET ids == a.awaiting_receipt \ acks IN Tick(acks, {}, TRUE, ids, TRUE)
FairSpec ==
    /\ Spec
    /\ WF_vars(CallStep) /\ WF_vars(ReceiverStep)
    /\ WF_vars(PlanPendingSends) /\ WF_vars(\E f \in planned : ExecuteSend(f))
    /\ WF_vars(DueTick)
    /\ WF_vars(TakeOutbox \/ (\E o \in round.todo : RunOutbox(o))
                           \/ (\E x \in round.finished : ApplyOutbound(x)))

-----------------------------------------------------------------------------
(* Properties *)

\* Every variable keeps to its type: the queues hold sealed frames of known
\* messages, the badges are the ones the app draws.
TypeOK ==
    /\ a \in Node /\ aDisk \in Persisted
    /\ planned \subseteq Frame /\ outcomes \subseteq Outcome
    /\ round \in Round /\ calls \subseteq Call
    /\ wire \subseteq Frame /\ mailbox \in [Relays -> Seq(Frame)]
    /\ b \in Receiver /\ bDisk \in Receiver /\ drained \in Seq(Frame)
    /\ applying \in BOOLEAN /\ owed \subseteq Ids /\ acks \subseteq Ids
    /\ faults \in 0 .. MaxFaults
    /\ full \in BOOLEAN /\ closed \subseteq Ids
    /\ retired \subseteq Ids \X Texts /\ refused \subseteq Ids /\ early \subseteq Ids
    /\ dropped \subseteq Ids /\ late \subseteq Ids

\* A "delivered" badge means the receiver's saved state holds the message (or
\* its tombstone), whatever restarts and late copies there were: it is what
\* the order save, then receipts, of apply_tick is for.  The one exception is
\* the code's own: a message over the daily allowance is receipted and dropped.
ReceiptMeansDurable ==
    \A id \in Ids : a.hist[id].delivery = "delivered" =>
                       bDisk.inbox[id].kind # "none" \/ id \in dropped

\* What a full recall (or an edit of a copy still held) withdrew, the
\* receiver never shows: finish_edit and finish_unsend take the quiet path
\* only when no copy of the old text can still land.
RetiredNeverShown ==
    \A id \in Ids : b.inbox[id].kind = "text" => <<id, b.inbox[id].text>> \notin retired

\* A message the receiver has replaced by a tombstone stays one: a relay
\* retry of it that lands later is a duplicate, not a new message.
TombstoneFinal ==
    [][\A id \in Ids : bDisk.inbox[id].kind = "deleted" => bDisk'.inbox[id].kind = "deleted"]_vars

Frames(S) == {o.frame : o \in S}
FramesOf(q) == {q[i] : i \in DOMAIN q}
InTransit == wire \cup FramesOf(drained) \cup UNION {FramesOf(mailbox[r]) : r \in Relays}
AtWork == a.pending_sends \cup planned \cup Frames(outcomes) \cup Frames(a.held)
              \cup Frames(a.outbox) \cup Frames(round.todo)
              \cup {x.out.frame : x \in round.finished}
              \cup UNION {Frames(k.out) : k \in calls}
Mine(id, S) == \E f \in S : f.kind = "Message" /\ f.id = id
InCustody(id) ==
    \/ b.inbox[id].kind # "none" \/ id \in dropped
    \/ Mine(id, InTransit) \/ Mine(id, AtWork)
    \/ id \in a.awaiting_receipt
    \/ \E k \in calls : k.id = id

\* No message is mislaid between the queues and the threads: one that is in
\* the sender's history has arrived (and may have been dropped there, over the
\* allowance), is on its way, or has work queued for it
\* (ARCHITECTURE.md: an unconfirmed message is never simply abandoned).
NeverAbandoned == \A id \in Ids : a.hist[id].kind = "text" => InCustody(id)

Quiet ==
    /\ InTransit = {} /\ AtWork = {} /\ calls = {}
    /\ a.awaiting_receipt = {} /\ owed = {} /\ acks = {}

\* Once everything has settled, a message unsent after its receipt is a
\* tombstone on both sides, whatever order its Edit and Unsend frames and
\* its late copies arrived in.  It is on one side only if the receiver opened
\* the Unsend after its edit window had passed, or never kept the message.
UnsendConverges ==
    Quiet => \A id \in Ids \ (early \cup refused \cup late \cup dropped) :
                a.hist[id].kind = "deleted" => b.inbox[id].kind = "deleted"

\* A message reaches the receiver unless it is unsent first: a direct copy
\* that was lost is put on the relay, a frame no relay took is held and
\* retried.  There it is kept, unless the day's allowance is used up.
Arrives ==
    \A id \in Ids : (a.hist[id].kind = "text") ~>
        (b.inbox[id].kind # "none" \/ id \in dropped \/ a.hist[id].kind # "text")

-----------------------------------------------------------------------------
(* What the documentation says and the code does not do *)

\* ARCHITECTURE.md: a queued message that is unsent never reaches the peer, a
\* delivered one is replaced on both sides.  Either way the peer is not left
\* showing it.
UnsentNotKept ==
    Quiet => \A id \in Ids \ refused :
                a.hist[id].kind \in {"deleted", "gone"} => b.inbox[id].kind # "text"
=============================================================================
