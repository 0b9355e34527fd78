---------------------------- MODULE DeliveryProofs ----------------------------
(***************************************************************************)
(* Proofs about Delivery, for every set of messages and relays and every   *)
(* bound on failures, texts, seals and calls.                              *)
(***************************************************************************)
EXTENDS Delivery, FiniteSetTheorems, WellFoundedInduction, TLAPS

\* A node has the fields of Node and a history of messages, a receiver an
\* entry for every id; what else they hold does not matter to these proofs.
Fields == {"hist", "pending_sends", "held", "awaiting_receipt", "relay_receipts",
           "outbox", "seal"}
Shape(n) == DOMAIN n = Fields /\ n.hist \in [Ids -> Sent]
ReceiverShape(n) == DOMAIN n.inbox = Ids

Received(n, id) == n.inbox[id].kind # "none"
Deleted(n, id) == n.inbox[id].kind = "deleted"
MarkedIn(hist, id) == hist[id].delivery = "delivered"

\* Every id the receiver has or has deleted in m, it has or has deleted in n.
Ahead(m, n) ==
    \A id \in Ids : /\ Received(m, id) => Received(n, id)
                    /\ Deleted(m, id) => Deleted(n, id)

\* The inductive invariant behind ReceiptMeansDurable and TombstoneFinal.
\* Every place from which a "delivered" badge can still come (a receipt on
\* its way, the sender's disk) names messages on the receiver's disk, or ones
\* it dropped over the allowance; a receipt still owed names a message in its
\* memory, or such a one, and memory and disk differ only while a tick is
\* part-way through its blobs.
DurableInv ==
    /\ Shape(a) /\ aDisk.hist \in [Ids -> Sent]
    /\ ReceiverShape(b) /\ ReceiverShape(bDisk)
    /\ Ahead(bDisk, b)
    /\ ~applying => b.inbox = bDisk.inbox
    /\ \A id \in Ids :
         /\ MarkedIn(a.hist, id) \/ MarkedIn(aDisk.hist, id) \/ id \in acks
              => Received(bDisk, id) \/ id \in dropped
         /\ id \in owed => Received(b, id) \/ id \in dropped

-----------------------------------------------------------------------------
(* What the helpers do to the sender's history *)

\* hist[i] = m, for one of the message values the code writes.
LEMMA SetMessage ==
    ASSUME NEW hist \in [Ids -> Sent], NEW i, NEW m, i \in Ids => m \in Sent
    PROVE  [hist EXCEPT ![i] = m] \in [Ids -> Sent]
OBVIOUS

\* A badge is written on a message and its kind and text stay.
LEMMA SetBadge ==
    ASSUME NEW m \in Sent, NEW d \in Badges
    PROVE  [m EXCEPT !.delivery = d] \in Sent
BY DEF Sent

\* flush_held_for changes the queues only.
LEMMA FlushKeepsHist ==
    ASSUME NEW n, Shape(n), NEW d, NEW r
    PROVE  Shape(FlushHeld(n, d, r)) /\ FlushHeld(n, d, r).hist = n.hist
BY DEF Shape, FlushHeld, Fields

\* sweep_unconfirmed changes the queues only.
LEMMA SweepKeepsHist ==
    ASSUME NEW n, Shape(n), NEW ids
    PROVE  Shape(SweepUnconfirmed(n, ids)) /\ SweepUnconfirmed(n, ids).hist = n.hist
BY DEF Shape, SweepUnconfirmed, Fields

\* A receipt marks the messages it names and no others.
LEMMA ReceiptedMarks ==
    ASSUME NEW n, Shape(n), NEW ids, NEW d
    PROVE  /\ Shape(Receipted(n, ids, d))
           /\ \A id \in Ids : MarkedIn(Receipted(n, ids, d).hist, id)
                                => MarkedIn(n.hist, id) \/ id \in ids
<1> DEFINE h == [id \in Ids |-> IF id \in ids /\ Present(n.hist[id])
                                THEN [n.hist[id] EXCEPT !.delivery = "delivered"]
                                ELSE n.hist[id]]
           m == [n EXCEPT !.hist = h, !.awaiting_receipt = @ \ ids]
<1>1. h \in [Ids -> Sent]
  BY SetBadge DEF Shape, Badges
<1>2. Shape(m) /\ m.hist = h
  <2> HIDE DEF h
  <2>1. QED BY <1>1 DEF Shape, Fields
<1>3. Shape(FlushHeld(m, TRUE, TRUE)) /\ FlushHeld(m, TRUE, TRUE).hist = h
  <2> HIDE DEF m
  <2>1. QED BY <1>2, FlushKeepsHist
<1>4. Receipted(n, ids, d) = IF d /\ ids # {} THEN FlushHeld(m, TRUE, TRUE) ELSE m
  BY DEF Receipted
<1>5. Shape(Receipted(n, ids, d)) /\ Receipted(n, ids, d).hist = h
  <2> HIDE DEF m, h
  <2>1. QED BY <1>2, <1>3, <1>4
<1>6. \A id \in Ids : MarkedIn(h, id) => MarkedIn(n.hist, id) \/ id \in ids
  BY DEF MarkedIn
<1>7. QED
  <2> HIDE DEF m, h
  <2>1. QED BY <1>5, <1>6

\* The outcomes of the sends mark nothing as delivered.
LEMMA OutcomesMarkNothing ==
    ASSUME NEW n, Shape(n), NEW outs
    PROVE  /\ Shape(ApplySendOutcomes(n, outs))
           /\ \A id \in Ids : MarkedIn(ApplySendOutcomes(n, outs).hist, id) => MarkedIn(n.hist, id)
<1> DEFINE Of(id) == {o \in outs : o.frame.id = id}
           failed == {o \in outs : ~o.delivered /\ o.copies = {}}
           badge(o) == IF o.delivered THEN "sent"
                       ELSE IF o \in failed /\ ~HasRelayRoute THEN "waiting" ELSE "queued"
           h == [id \in Ids |-> IF Of(id) # {} /\ Present(n.hist[id])
                                THEN [n.hist[id] EXCEPT !.delivery =
                                        badge(CHOOSE o \in Of(id) : TRUE)]
                                ELSE n.hist[id]]
<1>1. \A o : badge(o) \in Badges /\ badge(o) # "delivered"
  BY DEF Badges
<1>2. h \in [Ids -> Sent] /\ \A id \in Ids : MarkedIn(h, id) => MarkedIn(n.hist, id)
  <2> HIDE DEF badge, Of
  <2>1. \A id \in Ids : [n.hist[id] EXCEPT !.delivery = badge(CHOOSE o \in Of(id) : TRUE)] \in Sent
    BY <1>1, SetBadge DEF Shape
  <2>2. \A id \in Ids : n.hist[id] \in Sent
    BY DEF Shape
  <2>3. QED BY <1>1, <2>1, <2>2 DEF MarkedIn, Sent
<1>3. ApplySendOutcomes(n, outs).hist = h /\ DOMAIN ApplySendOutcomes(n, outs) = Fields
  BY DEF ApplySendOutcomes, Shape, Fields
<1>4. QED
  <2> HIDE DEF h
  <2>1. QED BY <1>2, <1>3 DEF Shape

\* The whole tick marks what the receipts it read name.
LEMMA TickMarks ==
    ASSUME Shape(a), NEW direct, NEW relayed, NEW due, NEW timed, NEW may_retry
    PROVE  LET n == TickNode(direct, relayed, due, timed, may_retry)
           IN  /\ Shape(n)
               /\ \A id \in Ids : MarkedIn(n.hist, id)
                                    => MarkedIn(a.hist, id) \/ id \in direct \cup relayed
<1> DEFINE pumped == Receipted(a, direct, TRUE)
           harvested == Receipted(pumped, relayed, FALSE)
           applied == ApplySendOutcomes(harvested, outcomes)
           flushed == FlushHeld(applied, FALSE, may_retry)
           swept == SweepUnconfirmed(flushed, timed)
<1>1. TickNode(direct, relayed, due, timed, may_retry) = IF due THEN swept ELSE applied
  BY DEF TickNode
<1>2. /\ Shape(pumped)
      /\ \A id \in Ids : MarkedIn(pumped.hist, id) => MarkedIn(a.hist, id) \/ id \in direct
  BY ReceiptedMarks
<1> HIDE DEF pumped
<1>3. /\ Shape(harvested)
      /\ \A id \in Ids : MarkedIn(harvested.hist, id) => MarkedIn(pumped.hist, id) \/ id \in relayed
  BY <1>2, ReceiptedMarks
<1> HIDE DEF harvested
<1>4. /\ Shape(applied)
      /\ \A id \in Ids : MarkedIn(applied.hist, id) => MarkedIn(harvested.hist, id)
  BY <1>3, OutcomesMarkNothing
<1> HIDE DEF applied
<1>5. Shape(flushed) /\ flushed.hist = applied.hist
  BY <1>4, FlushKeepsHist
<1> HIDE DEF flushed
<1>6. Shape(swept) /\ swept.hist = applied.hist
  BY <1>5, SweepKeepsHist
<1> HIDE DEF swept
<1>7. QED
  BY <1>1, <1>2, <1>3, <1>4, <1>6

\* The outcome of a held frame marks nothing as delivered.
LEMMA HeldMarksNothing ==
    ASSUME NEW n, Shape(n), NEW x
    PROVE  /\ Shape(ApplyHeld(n, x))
           /\ \A id \in Ids : MarkedIn(ApplyHeld(n, x).hist, id) => MarkedIn(n.hist, id)
<1> DEFINE f == x.out.frame
           entry == {h \in n.held : h.frame = f}
           direct == x.delivery.via = "Direct"
           named == f.kind = "Message"
           badge == IF direct THEN "sent" ELSE "queued"
           h2 == [n.hist EXCEPT ![f.id] = IF named /\ Present(@)
                                          THEN [@ EXCEPT !.delivery = badge] ELSE @]
           landed == [n EXCEPT
            !.held = @ \ entry,
            !.hist[f.id] = IF named /\ Present(@)
                           THEN [@ EXCEPT !.delivery = badge]
                           ELSE @,
            !.relay_receipts[f.id] = IF named /\ ~direct THEN x.delivery.copies ELSE @,
            !.awaiting_receipt = IF named /\ direct THEN @ \cup {f.id} ELSE @]
           back == [n EXCEPT !.held = (@ \ entry) \cup
                                      {[h EXCEPT !.in_flight = FALSE] : h \in entry}]
<1>1. ApplyHeld(n, x) = IF entry = {} THEN n
                        ELSE IF x.delivery.via = "Failed" THEN back
                        ELSE IF direct THEN FlushHeld(landed, TRUE, TRUE) ELSE landed
  BY DEF ApplyHeld
<1>2. badge \in Badges /\ badge # "delivered"
  BY DEF Badges
<1>3. h2 \in [Ids -> Sent] /\ \A id \in Ids : MarkedIn(h2, id) => MarkedIn(n.hist, id)
  <2> HIDE DEF badge, f
  <2>1. \A id \in Ids : n.hist[id] \in Sent /\ [n.hist[id] EXCEPT !.delivery = badge] \in Sent
    BY <1>2, SetBadge DEF Shape
  <2>2. QED BY <1>2, <2>1 DEF MarkedIn, Sent, Shape
<1>4. landed.hist = h2 /\ DOMAIN landed = Fields
  BY DEF Shape, Fields
<1>5. Shape(back) /\ back.hist = n.hist
  BY DEF Shape, Fields
<1> HIDE DEF landed, back, h2
<1>6. Shape(landed)
  BY <1>3, <1>4 DEF Shape
<1>7. Shape(FlushHeld(landed, TRUE, TRUE)) /\ FlushHeld(landed, TRUE, TRUE).hist = h2
  BY <1>4, <1>6, FlushKeepsHist
<1>8. QED
  BY <1>1, <1>3, <1>4, <1>5, <1>6, <1>7

\* Nor does the outcome of a relay copy behind an unconfirmed message.
LEMMA UnconfirmedMarksNothing ==
    ASSUME NEW n, Shape(n), NEW x
    PROVE  /\ Shape(ApplyUnconfirmed(n, x))
           /\ \A id \in Ids : MarkedIn(ApplyUnconfirmed(n, x).hist, id) => MarkedIn(n.hist, id)
<1> DEFINE i == x.out.frame.id
           h2 == [n.hist EXCEPT ![i] = IF Present(@) /\ @.delivery = "sent"
                                       THEN [@ EXCEPT !.delivery = "queued"] ELSE @]
           copied == [n EXCEPT
               !.relay_receipts[i] = x.delivery.copies \cup {[relay |-> Handed, frame |-> x.out.frame]},
               !.hist[i] = IF Present(@) /\ @.delivery = "sent"
                           THEN [@ EXCEPT !.delivery = "queued"] ELSE @]
           again == [n EXCEPT !.awaiting_receipt = @ \cup {i}]
<1>1. ApplyUnconfirmed(n, x) = IF x.delivery.via = "Relay" THEN copied ELSE again
  BY DEF ApplyUnconfirmed
<1>2. h2 \in [Ids -> Sent] /\ \A id \in Ids : MarkedIn(h2, id) => MarkedIn(n.hist, id)
  <2> HIDE DEF i
  <2>1. \A id \in Ids : n.hist[id] \in Sent /\ [n.hist[id] EXCEPT !.delivery = "queued"] \in Sent
    BY SetBadge DEF Shape, Badges
  <2>2. QED BY <2>1 DEF MarkedIn, Sent, Shape
<1>3. copied.hist = h2 /\ DOMAIN copied = Fields
  BY DEF Shape, Fields
<1>4. Shape(again) /\ again.hist = n.hist
  BY DEF Shape, Fields
<1> HIDE DEF copied, again, h2
<1>5. QED
  BY <1>1, <1>2, <1>3, <1>4 DEF Shape

-----------------------------------------------------------------------------
(* What a frame does to the receiver *)

\* process_frame never takes a message away nor revives a deleted one, and
\* the message it receipts is there afterwards, or was over the allowance.
LEMMA ProcessFrameAhead ==
    ASSUME NEW n, ReceiverShape(n), NEW f
    PROVE  /\ ReceiverShape(ProcessFrame(n, f))
           /\ Ahead(n, ProcessFrame(n, f))
           /\ \A id \in Ids : id \in Receipt(n, f) =>
                 id = f.id /\ (Received(ProcessFrame(n, f), id) \/ OverAllowance(n, f))
<1> DEFINE m == n.inbox[f.id]
           open == m.kind = "text" /\ f.id \notin closed
           shown == CASE f.kind = "Message" /\ m.kind = "none" /\ ~full ->
                            [kind |-> "text", text |-> f.text]
                      [] f.kind = "Edit" /\ open -> [kind |-> "text", text |-> f.text]
                      [] f.kind = "Unsend" /\ open -> [kind |-> "deleted", text |-> Blank]
                      [] OTHER -> m
           next == [inbox |-> [n.inbox EXCEPT ![f.id] = shown], spent |-> n.spent \cup {f.seal}]
<1>1. ProcessFrame(n, f) = IF f.seal \in n.spent THEN n ELSE next
  BY DEF ProcessFrame
<1>2. /\ m.kind # "none" => shown.kind # "none"
      /\ m.kind = "deleted" => shown.kind = "deleted"
      /\ f.kind = "Message" => shown.kind # "none" \/ (m.kind = "none" /\ full)
  OBVIOUS
<1>3. /\ DOMAIN next.inbox = Ids
      /\ \A id \in Ids : next.inbox[id] = IF id = f.id THEN shown ELSE n.inbox[id]
  <2> HIDE DEF shown
  <2>1. QED BY DEF ReceiverShape
<1> HIDE DEF next, shown
<1>4. QED
  BY <1>1, <1>2, <1>3 DEF ReceiverShape, Ahead, Received, Deleted, Receipt, OverAllowance

\* A frame given to process_frame: nothing is lost, and what is owed a receipt
\* is there or was dropped.
LEMMA ProcessesAhead ==
    ASSUME ReceiverShape(b), NEW f, Processes(f)
    PROVE  /\ ReceiverShape(b') /\ Ahead(b, b') /\ dropped \subseteq dropped'
           /\ \A id \in Ids : id \in owed' =>
                 id \in owed \/ Received(b', id) \/ id \in dropped'
<1>1. b' = ProcessFrame(b, f) /\ owed' = owed \cup Receipt(b, f)
  BY DEF Processes
<1>2. /\ dropped \subseteq dropped'
      /\ OverAllowance(b, f) => f.id \in dropped'
  BY DEF Processes
<1>3. QED
  BY <1>1, <1>2, ProcessFrameAhead

-----------------------------------------------------------------------------
(* The inductive step *)

\* A step of the sender that marks only messages a receipt on its way names,
\* and that saves its own state or nothing.
LEMMA SenderStepKeeps ==
    ASSUME DurableInv, Shape(a'),
           \A id \in Ids : MarkedIn(a'.hist, id) => MarkedIn(a.hist, id) \/ id \in acks,
           aDisk' = aDisk \/ aDisk' = Export(a'),
           acks' \subseteq acks, UNCHANGED receiverVars
    PROVE  DurableInv'
<1>1. Export(a').hist = a'.hist
  BY DEF Export
<1>2. aDisk'.hist = aDisk.hist \/ aDisk'.hist = a'.hist
  BY <1>1
<1>3. /\ (aDisk.hist \in [Ids -> Sent])'
      /\ \A id \in Ids : MarkedIn(aDisk'.hist, id)
                           => MarkedIn(aDisk.hist, id) \/ MarkedIn(a'.hist, id)
  BY <1>2 DEF DurableInv, Shape
<1>4. QED
  BY <1>3 DEF DurableInv, receiverVars, Shape, ReceiverShape, Ahead, Received, Deleted, MarkedIn

\* The save of the receiver's tick writes every message it holds.
LEMMA SavedInbox ==
    ASSUME NEW n, ReceiverSaves(n) PROVE bDisk'.inbox = n.inbox
BY DEF ReceiverSaves

\* A debounced save writes the node as it is, or nothing.
LEMMA SaveSoonWrites == SaveSoon => aDisk' = aDisk \/ aDisk' = Export(a')
BY DEF SaveSoon

\* Every step of Delivery keeps DurableInv.
LEMMA DurableStep == DurableInv /\ [Next]_vars => DurableInv'
<1> SUFFICES ASSUME DurableInv, [Next]_vars PROVE DurableInv'
  OBVIOUS
<1>a. Shape(a) /\ DOMAIN a = Fields /\ \A id \in Ids : a.hist[id] \in Sent
  BY DEF DurableInv, Shape
<1>1. ASSUME NEW id \in Ids, SendMessage(id) PROVE DurableInv'
  <2> DEFINE msg == [kind |-> "text", text |-> 1, delivery |-> "queued"]
  <2>1. msg \in Sent
    BY DeliveryAssumption DEF Sent, Texts, Blank, Badges
  <2>2. DOMAIN a' = Fields /\ a'.hist = [a.hist EXCEPT ![id] = msg]
    BY <1>1, <1>a DEF SendMessage, Fields
  <2>3. Shape(a') /\ \A i \in Ids : MarkedIn(a'.hist, i) => MarkedIn(a.hist, i)
    BY <2>1, <2>2, <1>a DEF Shape, MarkedIn
  <2>4. QED
    BY <1>1, <2>3, SenderStepKeeps DEF SendMessage, Save, Locked, netVars
<1>2. ASSUME NEW id \in Ids, BeginEdit(id) PROVE DurableInv'
  <2> DEFINE msg == [a.hist[id] EXCEPT !.text = @ + 1]
  <2>1. msg \in Sent /\ msg.delivery = a.hist[id].delivery
    BY <1>2, <1>a, DeliveryAssumption DEF BeginEdit, Sent, Texts, Blank
  <2>2. DOMAIN a' = Fields /\ a'.hist = [a.hist EXCEPT ![id] = msg]
    BY <1>2, <1>a DEF BeginEdit, Fields, Sent
  <2>3. Shape(a') /\ \A i \in Ids : MarkedIn(a'.hist, i) => MarkedIn(a.hist, i)
    BY <2>1, <2>2, <1>a DEF Shape, MarkedIn
  <2>4. QED
    BY <1>2, <2>3, SenderStepKeeps DEF BeginEdit, Locked, netVars
<1>3. ASSUME NEW id \in Ids, BeginUnsend(id) PROVE DurableInv'
  <2>1. Shape(a') /\ a'.hist = a.hist
    BY <1>3, <1>a DEF BeginUnsend, Shape, Fields
  <2>2. QED
    BY <1>3, <2>1, SenderStepKeeps DEF BeginUnsend, Locked, netVars, MarkedIn
<1>4. ASSUME NEW k \in calls, NEW c \in k.copies, RecallCopy(k, c) PROVE DurableInv'
  BY <1>4, <1>a, SenderStepKeeps DEF RecallCopy
<1>5. ASSUME NEW k \in calls, FinishEdit(k) PROVE DurableInv'
  <2>1. Shape(a') /\ a'.hist = a.hist
    BY <1>5, <1>a DEF FinishEdit, Shape, Fields
  <2>2. QED
    BY <1>5, <2>1, SenderStepKeeps DEF FinishEdit, Save, Locked, netVars
<1>6. ASSUME NEW k \in calls, FinishUnsend(k) PROVE DurableInv'
  <2>1. Gone \in Sent /\ make_tombstone(a.hist[k.id]) \in Sent
    BY DeliveryAssumption DEF Gone, make_tombstone, Sent, Texts, Blank, Badges
  <2>2. Gone.delivery # "delivered" /\ make_tombstone(a.hist[k.id]).delivery # "delivered"
    BY DEF Gone, make_tombstone
  <2>3. DOMAIN a' = Fields /\ (\/ a'.hist = a.hist
                               \/ a'.hist = [a.hist EXCEPT ![k.id] = Gone]
                               \/ a'.hist = [a.hist EXCEPT ![k.id] = make_tombstone(a.hist[k.id])])
    BY <1>6, <1>a DEF FinishUnsend, Fields
  <2>4. Shape(a') /\ \A i \in Ids : MarkedIn(a'.hist, i) => MarkedIn(a.hist, i)
    BY <2>1, <2>2, <2>3, <1>a DEF Shape, MarkedIn
  <2>5. QED
    BY <1>6, <2>4, SenderStepKeeps DEF FinishUnsend, Save, Locked, netVars
<1>7. ASSUME NEW k \in calls, NEW o \in k.out, RunCall(k, o) PROVE DurableInv'
  BY <1>7, <1>a, SenderStepKeeps DEF RunCall
<1>8. ASSUME NEW k \in calls, NEW o \in k.out, ApplyCall(k, o) PROVE DurableInv'
  <2>1. Shape(a') /\ a'.hist = a.hist
    BY <1>8, <1>a DEF ApplyCall, Shape, Fields
  <2>2. QED
    BY <1>8, <2>1, SenderStepKeeps, SaveSoonWrites DEF ApplyCall, Locked, netVars
<1>9. CASE PlanPendingSends
  <2>1. Shape(a') /\ a'.hist = a.hist
    BY <1>9, <1>a DEF PlanPendingSends, Shape, Fields
  <2>2. QED
    BY <1>9, <2>1, SenderStepKeeps DEF PlanPendingSends, Locked, netVars
<1>10. ASSUME NEW f \in planned, ExecuteSend(f) PROVE DurableInv'
  BY <1>10, <1>a, SenderStepKeeps DEF ExecuteSend
<1>11. ASSUME NEW direct \in SUBSET acks, NEW relayed \in SUBSET (acks \ direct),
              NEW due, NEW timed, NEW may_retry, Tick(direct, relayed, due, timed, may_retry)
       PROVE  DurableInv'
  <2>1. /\ Shape(a')
        /\ \A id \in Ids : MarkedIn(a'.hist, id) => MarkedIn(a.hist, id) \/ id \in acks
    BY <1>11, <1>a, TickMarks DEF Tick
  <2>2. aDisk' = aDisk \/ aDisk' = Export(a')
    BY <1>11, SaveSoonWrites DEF Tick, Save
  <2>3. acks' \subseteq acks /\ UNCHANGED receiverVars
    BY <1>11 DEF Tick
  <2>4. QED
    BY <2>1, <2>2, <2>3, SenderStepKeeps
<1>12. CASE TakeOutbox
  <2>1. Shape(a') /\ a'.hist = a.hist
    BY <1>12, <1>a DEF TakeOutbox, Shape, Fields
  <2>2. QED
    BY <1>12, <2>1, SenderStepKeeps DEF TakeOutbox, Locked, netVars
<1>13. ASSUME NEW o \in round.todo, RunOutbox(o) PROVE DurableInv'
  BY <1>13, <1>a, SenderStepKeeps DEF RunOutbox
<1>14. ASSUME NEW x \in round.finished, ApplyOutbound(x) PROVE DurableInv'
  <2>1. Shape(a') /\ \A id \in Ids : MarkedIn(a'.hist, id) => MarkedIn(a.hist, id)
    BY <1>14, <1>a, HeldMarksNothing, UnconfirmedMarksNothing DEF ApplyOutbound
  <2>2. aDisk' = aDisk \/ aDisk' = Export(a')
    BY <1>14, SaveSoonWrites DEF ApplyOutbound
  <2>3. QED
    BY <1>14, <2>1, <2>2, SenderStepKeeps DEF ApplyOutbound, netVars
<1>15. ASSUME NEW f \in wire, Pump(f) PROVE DurableInv'
  <2>1. /\ ReceiverShape(b') /\ Ahead(b, b') /\ dropped \subseteq dropped'
        /\ \A id \in Ids : id \in owed' => Received(b', id) \/ id \in dropped'
    BY <1>15, ProcessesAhead DEF Pump, DurableInv, Ahead
  <2>2. bDisk'.inbox = b'.inbox
    BY <1>15, SavedInbox DEF Pump
  <2>3. QED
    BY <1>15, <2>1, <2>2 DEF Pump, senderVars, DurableInv, ReceiverShape, Ahead, Received, Deleted
<1>16. ASSUME NEW r \in Relays, TakeMailbox(r) PROVE DurableInv'
  BY <1>16 DEF TakeMailbox, senderVars, DurableInv, Shape, ReceiverShape, Ahead, Received, Deleted
<1>17. CASE ApplyHarvest
  <2>1. /\ ReceiverShape(b') /\ Ahead(b, b') /\ dropped \subseteq dropped'
        /\ \A id \in Ids : id \in owed' => Received(b', id) \/ id \in dropped'
    BY <1>17, ProcessesAhead DEF ApplyHarvest, DurableInv, Ahead
  <2>2. bDisk'.inbox = b'.inbox \/ (bDisk' = bDisk /\ applying')
    BY <1>17, SavedInbox DEF ApplyHarvest
  <2>3. QED
    BY <1>17, <2>1, <2>2
       DEF ApplyHarvest, senderVars, netVars, DurableInv, ReceiverShape, Ahead, Received, Deleted
<1>18. CASE SendReceipts
  BY <1>18 DEF SendReceipts, senderVars, DurableInv, Shape, ReceiverShape, Ahead, Received, Deleted
<1>19. ASSUME NEW f \in wire, LoseFrame(f) PROVE DurableInv'
  BY <1>19 DEF LoseFrame, senderVars, receiverVars, DurableInv, Shape, ReceiverShape, Ahead, Received, Deleted
<1>20. ASSUME NEW id \in acks, LoseReceipt(id) PROVE DurableInv'
  BY <1>20 DEF LoseReceipt, senderVars, receiverVars, DurableInv, Shape, ReceiverShape, Ahead, Received, Deleted
<1>21. ASSUME NEW r \in Relays, LoseTake(r) PROVE DurableInv'
  BY <1>21 DEF LoseTake, senderVars, receiverVars, DurableInv, Shape, ReceiverShape, Ahead, Received, Deleted
<1>22. CASE SenderRestarts
  <2>1. DOMAIN a' = Fields /\ a'.hist = aDisk.hist
    BY <1>22 DEF SenderRestarts, Import, Fields
  <2>2. QED
    BY <1>22, <2>1
       DEF SenderRestarts, receiverVars, DurableInv, Shape, ReceiverShape, Ahead, Received, Deleted
<1>23. CASE ReceiverRestarts
  BY <1>23 DEF ReceiverRestarts, senderVars, DurableInv, Shape, ReceiverShape, Ahead, Received, Deleted
<1>24. CASE UNCHANGED vars
  BY <1>24 DEF vars, senderVars, receiverVars, netVars, DurableInv, Shape, ReceiverShape,
               Ahead, Received, Deleted
<1>26. CASE ClockStep
  <2>1. UNCHANGED <<a, aDisk, b, bDisk, applying, owed, dropped, acks>>
    BY <1>26 DEF ClockStep, AllowanceFills, DayTurns, WindowPasses, senderVars, netVars
  <2>2. QED
    BY <2>1 DEF DurableInv, Shape, ReceiverShape, Ahead, Received, Deleted
<1>25. QED
  <2>1. UserStep => DurableInv'
    BY <1>1, <1>2, <1>3 DEF UserStep
  <2>2. CallStep => DurableInv'
    BY <1>4, <1>5, <1>6, <1>7, <1>8 DEF CallStep
  <2>3. PollerStep => DurableInv'
    BY <1>9, <1>10, <1>11, <1>12, <1>13, <1>14 DEF PollerStep, TickStep
  <2>4. ReceiverStep => DurableInv'
    BY <1>15, <1>16, <1>17, <1>18 DEF ReceiverStep
  <2>5. Failure => DurableInv'
    BY <1>19, <1>20, <1>21, <1>22, <1>23 DEF Failure
  <2>6. QED
    BY <1>24, <1>26, <2>1, <2>2, <2>3, <2>4, <2>5 DEF Next

\* Nothing is delivered yet at the start.
LEMMA DurableInit == Init => DurableInv
<1> SUFFICES ASSUME Init PROVE DurableInv
  OBVIOUS
<1>1. NotComposed \in Sent /\ NotComposed.delivery # "delivered"
  BY DeliveryAssumption DEF NotComposed, Sent, Texts, Blank, Badges
<1>2. Shape(a) /\ a.hist = [id \in Ids |-> NotComposed]
  BY <1>1 DEF Init, Shape, Fields
<1>3. aDisk.hist = a.hist
  BY DEF Init, Export
<1>4. QED
  BY <1>1, <1>2, <1>3 DEF Init, DurableInv, Shape, ReceiverShape, Ahead, Received, Deleted, MarkedIn

-----------------------------------------------------------------------------

\* In every behaviour, with any failures, a "delivered" badge means that the
\* receiver's saved state holds the message (save before receipts, apply_tick
\* and spawn_poller), or that the message was over its daily allowance
\* (within_allowance, and the receipt sent all the same).
THEOREM DeliveredIsDurable == Spec => []ReceiptMeansDurable
<1>1. DurableInv => ReceiptMeansDurable
  BY DEF DurableInv, ReceiptMeansDurable, MarkedIn, Received
<1>2. QED
  BY <1>1, DurableInit, DurableStep, PTL DEF Spec

\* No copy, edit or restart brings back a message the receiver has saved as
\* deleted (the Message handler's duplicate check, frames.rs).
THEOREM TombstonesStay == Spec => TombstoneFinal
<1> DEFINE Stays == \A id \in Ids : bDisk.inbox[id].kind = "deleted"
                                       => bDisk'.inbox[id].kind = "deleted"
<1>1. DurableInv /\ [Next]_vars => [Stays]_vars
  <2> SUFFICES ASSUME DurableInv, [Next]_vars PROVE Stays
    OBVIOUS
  <2>1. CASE bDisk' = bDisk
    BY <2>1
  <2>2. ASSUME NEW f, Processes(f), bDisk'.inbox = b'.inbox PROVE Stays
    BY <2>2, ProcessesAhead DEF DurableInv, Ahead, Deleted
  <2>3. ASSUME NEW f \in wire, Pump(f) PROVE Stays
    BY <2>2, <2>3, SavedInbox DEF Pump
  <2>4. CASE ApplyHarvest
    BY <2>1, <2>2, <2>4, SavedInbox DEF ApplyHarvest
  <2>5. UserStep \/ CallStep \/ PollerStep => bDisk' = bDisk
    BY ZenonT(30) DEF UserStep, CallStep, PollerStep, TickStep, SendMessage, BeginEdit, BeginUnsend,
           RecallCopy, FinishEdit, FinishUnsend, RunCall, ApplyCall, PlanPendingSends,
           ExecuteSend, Tick, TakeOutbox, RunOutbox, ApplyOutbound, Locked, receiverVars
  <2>6. ClockStep \/ Failure \/ UNCHANGED vars => bDisk' = bDisk
    BY DEF ClockStep, AllowanceFills, DayTurns, WindowPasses, Failure, LoseFrame, LoseReceipt,
           LoseTake, SenderRestarts, ReceiverRestarts, receiverVars, vars
  <2>7. ReceiverStep => Stays
    BY <2>1, <2>3, <2>4 DEF ReceiverStep, TakeMailbox, SendReceipts
  <2>8. QED
    BY <2>1, <2>5, <2>6, <2>7 DEF Next
<1>2. QED
  BY <1>1, DurableInit, DurableStep, PTL DEF Spec, TombstoneFinal

-----------------------------------------------------------------------------
(* Types *)

\* A finite set of naturals has a smallest member, and a largest one.
LEMMA SmallestOf ==
    ASSUME NEW T \in SUBSET Nat, T # {}
    PROVE  \E m \in T : \A n \in T : m <= n
<1>1. \E m \in T : \A n \in T : ~ (<<n, m>> \in OpToRel(<, Nat))
  BY NatLessThanWellFounded, WFMin
<1>2. PICK m \in T : \A n \in T : ~ (<<n, m>> \in OpToRel(<, Nat))
  BY <1>1
<1>3. \A n \in T : ~ (n < m)
  BY <1>2 DEF OpToRel
<1>4. QED
  BY <1>3

\* A finite set of numbers has a largest one.
LEMMA LargestOf ==
    ASSUME NEW S \in SUBSET Nat, IsFiniteSet(S), S # {}
    PROVE  \E m \in S : \A n \in S : n <= m
<1> DEFINE Above(x) == {y \in S : x <= y}
           T == {Cardinality(Above(x)) : x \in S}
<1>1. \A x \in S : IsFiniteSet(Above(x)) /\ Cardinality(Above(x)) \in Nat
  BY FS_Subset, FS_CardinalityType
<1>2. T \in SUBSET Nat /\ T # {}
  BY <1>1
<1>3. PICK c \in T : \A n \in T : c <= n
  <2> HIDE DEF T
  <2>1. QED BY <1>2, SmallestOf
<1>4. PICK m \in S : c = Cardinality(Above(m))
  OBVIOUS
<1>5. ASSUME NEW n \in S, ~(n <= m) PROVE FALSE
  <2>n. n \in Nat /\ m \in Nat /\ (\A y \in S : y \in Nat) /\ m < n
    BY <1>5
  <2>1. Above(n) \in SUBSET Above(m) /\ m \in Above(m) /\ m \notin Above(n)
    <3>1. m <= m /\ ~(n <= m)
      BY <2>n
    <3>2. \A y \in S : n <= y => m <= y
      BY <2>n
    <3>3. QED BY <3>1, <3>2
  <2>2. Cardinality(Above(n)) <= Cardinality(Above(m)) /\ Cardinality(Above(m)) # Cardinality(Above(n))
    BY <1>1, <2>1, FS_Subset
  <2>3. c <= Cardinality(Above(n))
    BY <1>3
  <2>4. Cardinality(Above(n)) \in Nat /\ Cardinality(Above(m)) \in Nat
    BY <1>1
  <2>5. QED
    BY <1>4, <2>2, <2>3, <2>4
<1>6. QED
  BY <1>5

\* The values of a function with a finite domain are finitely many.
LEMMA ImageIsFinite ==
    ASSUME NEW S, IsFiniteSet(S), NEW f, DOMAIN f = S
    PROVE  IsFiniteSet({f[x] : x \in S})
<1> DEFINE g == [x \in S |-> f[x]]
           T == {f[x] : x \in S}
<1>1. g \in Surjection(S, T)
  BY DEF Surjection
<1>2. QED
  BY <1>1, FS_Surjection

\* The queues the code keeps are finite, so a frame that is held has a place
\* behind the others.
Finite ==
    /\ IsFiniteSet(a.pending_sends) /\ IsFiniteSet(a.held) /\ IsFiniteSet(aDisk.held)
    /\ IsFiniteSet(planned) /\ IsFiniteSet(outcomes)
TypeInv == TypeOK /\ Finite

\* Newest is the age of an entry of the queue.
LEMMA NewestTyped ==
    ASSUME NEW held \in SUBSET HeldSend, IsFiniteSet(held)
    PROVE  Newest(held) \in Nat
<1>1. CASE held = {}
  BY <1>1 DEF Newest
<1>2. CASE held # {}
  <2> DEFINE S == {h.at : h \in held}
  <2>1. S \in SUBSET Nat /\ S # {}
    BY <1>2 DEF HeldSend
  <2>2. IsFiniteSet(S)
    <3> DEFINE g == [h \in held |-> h.at]
    <3>1. S = {g[h] : h \in held} /\ DOMAIN g = held
      OBVIOUS
    <3> HIDE DEF g, S
    <3>2. QED BY <3>1, ImageIsFinite
  <2>3. PICK m \in S : \A n \in S : n <= m
    <3> HIDE DEF S
    <3>1. QED BY <2>1, <2>2, LargestOf
  <2>4. m \in S /\ \A h \in held : h.at <= m
    BY <2>3
  <2>5. QED
    BY <1>2, <2>1, <2>4 DEF Newest
<1>3. QED
  BY <1>1, <1>2

\* Pushing frames on the held queue keeps it a finite set of entries.
LEMMA HoldTyped ==
    ASSUME NEW held \in SUBSET HeldSend, IsFiniteSet(held),
           NEW frames \in SUBSET Frame, IsFiniteSet(frames)
    PROVE  Hold(held, frames) \in SUBSET HeldSend /\ IsFiniteSet(Hold(held, frames))
<1> DEFINE at(f) == Newest(held) + Cardinality({g \in frames : g.seal <= f.seal})
           New == {[frame |-> f, in_flight |-> FALSE, at |-> at(f)] : f \in frames}
<1>1. \A f \in frames : at(f) \in Nat
  <2>1. Newest(held) \in Nat
    BY NewestTyped
  <2>2. \A f \in frames : Cardinality({g \in frames : g.seal <= f.seal}) \in Nat
    BY FS_Subset, FS_CardinalityType
  <2>3. QED BY <2>1, <2>2
<1>2. Hold(held, frames) = held \cup New
  BY DEF Hold
<1>3. New \in SUBSET HeldSend
  <2> HIDE DEF at
  <2>1. ASSUME NEW f \in frames
        PROVE  [frame |-> f, in_flight |-> FALSE, at |-> at(f)] \in HeldSend
    BY <1>1 DEF HeldSend
  <2>2. QED BY <2>1
<1>4. IsFiniteSet(New)
  <2> DEFINE g == [f \in frames |-> [frame |-> f, in_flight |-> FALSE, at |-> at(f)]]
  <2>1. New = {g[f] : f \in frames} /\ DOMAIN g = frames
    OBVIOUS
  <2> HIDE DEF g, New
  <2>2. QED BY <2>1, ImageIsFinite
<1>5. QED
  <2> HIDE DEF New
  <2>1. QED BY <1>2, <1>3, <1>4, FS_Union

NodeOK(n) == n \in Node /\ IsFiniteSet(n.held) /\ IsFiniteSet(n.pending_sends)
SavedOK(d) == d \in Persisted /\ IsFiniteSet(d.held)

\* What a typed node is made of, field by field.
LEMMA NodeParts ==
    ASSUME NEW n, NodeOK(n)
    PROVE  /\ n = [hist |-> n.hist, pending_sends |-> n.pending_sends, held |-> n.held,
                   awaiting_receipt |-> n.awaiting_receipt, relay_receipts |-> n.relay_receipts,
                   outbox |-> n.outbox, seal |-> n.seal]
           /\ n.hist \in [Ids -> Sent] /\ n.pending_sends \in SUBSET Frame
           /\ n.held \in SUBSET HeldSend /\ n.awaiting_receipt \in SUBSET Ids
           /\ n.relay_receipts \in [Ids -> SUBSET Copy] /\ n.outbox \in SUBSET Outbound
           /\ n.seal \in Seals
           /\ IsFiniteSet(n.held) /\ IsFiniteSet(n.pending_sends)
BY DEF NodeOK, Node

\* A node is one by its fields.
LEMMA NodeMade ==
    ASSUME NEW hist \in [Ids -> Sent], NEW pending_sends \in SUBSET Frame, NEW held \in SUBSET HeldSend,
           NEW awaiting_receipt \in SUBSET Ids, NEW relay_receipts \in [Ids -> SUBSET Copy],
           NEW outbox \in SUBSET Outbound, NEW seal \in Seals,
           IsFiniteSet(held), IsFiniteSet(pending_sends)
    PROVE  NodeOK([hist |-> hist, pending_sends |-> pending_sends, held |-> held,
                   awaiting_receipt |-> awaiting_receipt, relay_receipts |-> relay_receipts,
                   outbox |-> outbox, seal |-> seal])
BY DEF NodeOK, Node

\* The node functions of the tick keep a node typed.
LEMMA FlushTyped ==
    ASSUME NEW n, NodeOK(n), NEW d, NEW r
    PROVE  NodeOK(FlushHeld(n, d, r)) /\ FlushHeld(n, d, r).seal = n.seal
<1> DEFINE idle == {h \in n.held : ~h.in_flight}
           go == IF HasRelayRoute THEN idle ELSE IF r THEN Oldest(n.held) \cap idle ELSE {}
           route == IF HasRelayRoute /\ ~d THEN "RelayOnly" ELSE "DirectThenRelay"
           up == {[h EXCEPT !.in_flight = TRUE] : h \in go}
           held == (n.held \ go) \cup up
           out == n.outbox \cup {[frame |-> h.frame, route |-> route, done |-> "Held"] : h \in go}
<1>1. FlushHeld(n, d, r) = [n EXCEPT !.held = held, !.outbox = out]
  BY DEF FlushHeld
<1>2. go \in SUBSET n.held
  OBVIOUS
<1>3. route \in Routes
  BY DEF Routes
<1> HIDE DEF go, route
<1>4. up \in SUBSET HeldSend /\ out \in SUBSET Outbound
  <2>1. \A h \in go : h \in HeldSend /\ h.frame \in Frame
    BY <1>2, NodeParts DEF HeldSend
  <2>2. \A h \in go : [h EXCEPT !.in_flight = TRUE] \in HeldSend
    BY <2>1 DEF HeldSend
  <2>3. \A h \in go : [frame |-> h.frame, route |-> route, done |-> "Held"] \in Outbound
    BY <1>3, <2>1 DEF Outbound, Done
  <2>4. n.outbox \in SUBSET Outbound
    BY NodeParts
  <2>5. QED BY <2>2, <2>3, <2>4
<1>5. IsFiniteSet(up)
  <2> DEFINE g == [h \in go |-> [h EXCEPT !.in_flight = TRUE]]
  <2>1. up = {g[h] : h \in go} /\ DOMAIN g = go
    OBVIOUS
  <2>2. IsFiniteSet(go)
    BY <1>2, NodeParts, FS_Subset
  <2> HIDE DEF g, up
  <2>3. QED BY <2>1, <2>2, ImageIsFinite
<1> HIDE DEF up, out
<1>6. held \in SUBSET HeldSend /\ IsFiniteSet(held)
  <2>1. IsFiniteSet(n.held \ go) /\ n.held \ go \in SUBSET HeldSend
    BY NodeParts, FS_Difference
  <2>2. QED BY <1>4, <1>5, <2>1, FS_Union
<1> HIDE DEF held
<1>7. FlushHeld(n, d, r) = [hist |-> n.hist, pending_sends |-> n.pending_sends, held |-> held,
                   awaiting_receipt |-> n.awaiting_receipt, relay_receipts |-> n.relay_receipts,
                   outbox |-> out, seal |-> n.seal]
  BY ZenonT(30), <1>1, NodeParts
<1>8. QED
  BY <1>4, <1>6, <1>7, NodeParts, NodeMade

\* ... the receipts,
LEMMA ReceiptedTyped ==
    ASSUME NEW n, NodeOK(n), NEW ids, NEW d
    PROVE  NodeOK(Receipted(n, ids, d)) /\ Receipted(n, ids, d).seal = n.seal
<1> DEFINE h == [id \in Ids |-> IF id \in ids /\ Present(n.hist[id])
                                THEN [n.hist[id] EXCEPT !.delivery = "delivered"]
                                ELSE n.hist[id]]
           m == [n EXCEPT !.hist = h, !.awaiting_receipt = @ \ ids]
<1>1. h \in [Ids -> Sent]
  BY SetBadge, NodeParts DEF Badges
<1>2. Receipted(n, ids, d) = IF d /\ ids # {} THEN FlushHeld(m, TRUE, TRUE) ELSE m
  BY DEF Receipted
<1> HIDE DEF h
<1>3. n.awaiting_receipt \ ids \in SUBSET Ids
  BY NodeParts
<1>4. NodeOK(m) /\ m.seal = n.seal
  BY <1>1, <1>3 DEF NodeOK, Node
<1> HIDE DEF m
<1>5. QED
  BY ZenonT(30), <1>2, <1>4, FlushTyped

\* ... the frames and messages of outcomes,
LEMMA FramesTyped ==
    ASSUME NEW S \in SUBSET Outcome, IsFiniteSet(S)
    PROVE  {o.frame : o \in S} \in SUBSET Frame /\ IsFiniteSet({o.frame : o \in S})
<1> DEFINE g == [o \in S |-> o.frame]
           T == {o.frame : o \in S}
<1>1. T = {g[o] : o \in S} /\ DOMAIN g = S
  OBVIOUS
<1>2. T \in SUBSET Frame
  BY DEF Outcome
<1> HIDE DEF g, T
<1>3. IsFiniteSet(T)
  BY <1>1, ImageIsFinite
<1>4. QED
  BY <1>2, <1>3 DEF T

\* ... the outcomes of sends,
LEMMA OutcomesTyped ==
    ASSUME NEW n, NodeOK(n), NEW outs \in SUBSET Outcome, IsFiniteSet(outs)
    PROVE  NodeOK(ApplySendOutcomes(n, outs)) /\ ApplySendOutcomes(n, outs).seal = n.seal
<1> DEFINE Of(id) == {o \in outs : o.frame.id = id}
           failed == {o \in outs : ~o.delivered /\ o.copies = {}}
           badge(o) == IF o.delivered THEN "sent"
                       ELSE IF o \in failed /\ ~HasRelayRoute THEN "waiting" ELSE "queued"
           h == [id \in Ids |-> IF Of(id) # {} /\ Present(n.hist[id])
                                THEN [n.hist[id] EXCEPT !.delivery =
                                        badge(CHOOSE o \in Of(id) : TRUE)]
                                ELSE n.hist[id]]
           r == [id \in Ids |-> IF \E o \in Of(id) : ~o.delivered /\ o.copies # {}
                                THEN UNION {o.copies : o \in Of(id)} ELSE n.relay_receipts[id]]
           w == n.awaiting_receipt \cup {o.frame.id : o \in {p \in outs : p.delivered}}
           q == Hold(n.held, {o.frame : o \in failed})
<1>1. ApplySendOutcomes(n, outs)
        = [n EXCEPT !.hist = h, !.relay_receipts = r, !.awaiting_receipt = w, !.held = q]
  BY DEF ApplySendOutcomes
<1>2. \A o : badge(o) \in Badges
  BY DEF Badges
<1>3. h \in [Ids -> Sent]
  <2> HIDE DEF badge, Of
  <2>1. \A id \in Ids : [n.hist[id] EXCEPT !.delivery = badge(CHOOSE o \in Of(id) : TRUE)] \in Sent
    BY <1>2, SetBadge, NodeParts
  <2>2. QED BY <2>1, NodeParts
<1>4. r \in [Ids -> SUBSET Copy]
  <2>1. ASSUME NEW id \in Ids PROVE UNION {o.copies : o \in Of(id)} \in SUBSET Copy
    BY DEF Outcome
  <2> HIDE DEF Of
  <2>2. QED BY <2>1, NodeParts
<1>5. w \in SUBSET Ids
  BY NodeParts DEF Outcome, Frame
<1>6. q \in SUBSET HeldSend /\ IsFiniteSet(q)
  <2>1. failed \in SUBSET outs /\ failed \in SUBSET Outcome
    OBVIOUS
  <2>2. IsFiniteSet(failed)
    BY <2>1, FS_Subset
  <2> HIDE DEF failed
  <2>3. QED BY <2>1, <2>2, FramesTyped, HoldTyped, NodeParts
<1> HIDE DEF h, r, w, q
<1>7. QED
  BY <1>1, <1>3, <1>4, <1>5, <1>6 DEF NodeOK, Node

\* ... and the receipt sweep, whose seals stay within the bound.
LEMMA SweepTyped ==
    ASSUME NEW n, NodeOK(n), NEW ids \in SUBSET Ids, n.seal + Cardinality(ids) <= MaxSeal
    PROVE  NodeOK(SweepUnconfirmed(n, ids))
<1> DEFINE again == Unconfirmed(n, ids)
           seal(id) == n.seal + Cardinality({j \in again : j <= id})
           route == IF HasRelayRoute THEN "RelayOnly" ELSE "DirectThenRelay"
           out == n.outbox \cup {[frame |-> Message(id, n.hist[id].text, seal(id)),
                                  route |-> route, done |-> "Unconfirmed"] : id \in again}
           top == n.seal + Cardinality(again)
<1>1. SweepUnconfirmed(n, ids) = [n EXCEPT !.awaiting_receipt = @ \ ids, !.seal = top, !.outbox = out]
  BY DEF SweepUnconfirmed
<1>2. /\ again \in SUBSET ids /\ IsFiniteSet(again) /\ again \in SUBSET Ids
      /\ Cardinality(again) \in Nat /\ Cardinality(again) <= Cardinality(ids) /\ Cardinality(ids) \in Nat
  <2>1. again \in SUBSET ids
    BY DEF Unconfirmed
  <2>2. IsFiniteSet(ids)
    BY DeliveryAssumption, FS_Subset
  <2>3. QED
    BY <2>1, <2>2, FS_Subset, FS_CardinalityType
<1>3. n.seal \in Nat /\ MaxSeal \in Nat
  BY NodeParts, DeliveryAssumption DEF Seals
<1>4. top \in Seals
  BY <1>2, <1>3 DEF Seals
<1>5. \A id \in again : seal(id) \in Seals
  <2> HIDE DEF again
  <2>1. ASSUME NEW id \in again PROVE seal(id) \in Seals
    <3> DEFINE upto == {j \in again : j <= id}
    <3>1. upto \in SUBSET again
      OBVIOUS
    <3>2. Cardinality(upto) \in Nat /\ Cardinality(upto) <= Cardinality(again)
      BY <1>2, <3>1, FS_Subset, FS_CardinalityType
    <3>3. QED
      BY <1>2, <1>3, <3>2 DEF Seals
  <2>2. QED BY <2>1
<1>6. route \in Routes
  BY DEF Routes
<1> HIDE DEF again, seal, route, top
<1>7. out \in SUBSET Outbound
  <2>1. ASSUME NEW id \in again
        PROVE  [frame |-> Message(id, n.hist[id].text, seal(id)), route |-> route,
                done |-> "Unconfirmed"] \in Outbound
    <3>1. n.hist[id].text \in Texts /\ seal(id) \in Seals /\ id \in Ids
      BY <1>2, <1>5, NodeParts DEF Sent
    <3>2. Message(id, n.hist[id].text, seal(id)) \in Frame
      BY <3>1 DEF Message, Frame
    <3>3. QED BY <1>6, <3>2 DEF Outbound, Done
  <2>2. QED BY <2>1, NodeParts
<1> HIDE DEF out
<1>8. n.awaiting_receipt \ ids \in SUBSET Ids
  BY NodeParts
<1>9. QED
  BY <1>1, <1>4, <1>7, <1>8 DEF NodeOK, Node

\* The outcomes of an outbox round keep a node typed.
LEMMA ApplyHeldTyped ==
    ASSUME NEW n, NodeOK(n), NEW x \in Finished
    PROVE  NodeOK(ApplyHeld(n, x))
<1> DEFINE f == x.out.frame
           entry == {h \in n.held : h.frame = f}
           direct == x.delivery.via = "Direct"
           named == f.kind = "Message"
           rest == n.held \ entry
           h2 == [n.hist EXCEPT ![f.id] = IF named /\ Present(@)
                                          THEN [@ EXCEPT !.delivery = IF direct THEN "sent" ELSE "queued"] ELSE @]
           r2 == [n.relay_receipts EXCEPT ![f.id] = IF named /\ ~direct THEN x.delivery.copies ELSE @]
           w2 == IF named /\ direct THEN n.awaiting_receipt \cup {f.id} ELSE n.awaiting_receipt
           landed == [n EXCEPT
            !.held = @ \ entry,
            !.hist[f.id] = IF named /\ Present(@)
                           THEN [@ EXCEPT !.delivery = IF direct THEN "sent" ELSE "queued"]
                           ELSE @,
            !.relay_receipts[f.id] = IF named /\ ~direct THEN x.delivery.copies ELSE @,
            !.awaiting_receipt = IF named /\ direct THEN @ \cup {f.id} ELSE @]
           again == {[h EXCEPT !.in_flight = FALSE] : h \in entry}
           back == [n EXCEPT !.held = (@ \ entry) \cup again]
<1>1. ApplyHeld(n, x) = IF entry = {} THEN n
                        ELSE IF x.delivery.via = "Failed" THEN back
                        ELSE IF direct THEN FlushHeld(landed, TRUE, TRUE) ELSE landed
  BY DEF ApplyHeld
<1>2. f \in Frame /\ f.id \in Ids /\ x.delivery.copies \in SUBSET Copy
  BY DEF Finished, Outbound, Delivery, Frame
<1>3. entry \in SUBSET n.held
  OBVIOUS
<1>4. rest \in SUBSET HeldSend /\ IsFiniteSet(rest)
  BY NodeParts, FS_Difference
<1>5. again \in SUBSET HeldSend /\ IsFiniteSet(again)
  <2>1. again \in SUBSET HeldSend
    <3>1. \A h \in entry : h \in HeldSend
      BY <1>3, NodeParts
    <3>2. \A h \in HeldSend : [h EXCEPT !.in_flight = FALSE] \in HeldSend
      BY DEF HeldSend
    <3> HIDE DEF entry
    <3>3. QED BY <3>1, <3>2
  <2> DEFINE g == [h \in entry |-> [h EXCEPT !.in_flight = FALSE]]
  <2>2. again = {g[h] : h \in entry} /\ DOMAIN g = entry
    OBVIOUS
  <2>3. IsFiniteSet(entry)
    BY <1>3, NodeParts, FS_Subset
  <2> HIDE DEF g, entry, again
  <2>4. IsFiniteSet(again)
    BY <2>2, <2>3, ImageIsFinite
  <2>5. QED BY <2>1, <2>4
<1>6. h2 \in [Ids -> Sent]
  <2> HIDE DEF f
  <2>1. \A d \in {"sent", "queued"} : \A id \in Ids : [n.hist[id] EXCEPT !.delivery = d] \in Sent
    BY SetBadge, NodeParts DEF Badges
  <2>2. QED BY <1>2, <2>1, NodeParts
<1>7. r2 \in [Ids -> SUBSET Copy] /\ w2 \in SUBSET Ids
  <2> HIDE DEF f
  <2>1. QED BY <1>2, NodeParts
<1>8. landed = [n EXCEPT !.held = rest, !.hist = h2, !.relay_receipts = r2, !.awaiting_receipt = w2]
  BY DEF NodeOK, Node
<1> HIDE DEF rest, h2, r2, w2, again, entry
<1>9. NodeOK(landed)
  <2> HIDE DEF landed
  <2>1. QED BY <1>4, <1>6, <1>7, <1>8 DEF NodeOK, Node
<1>10. NodeOK(back)
  <2>1. (n.held \ entry) \cup again \in SUBSET HeldSend /\ IsFiniteSet((n.held \ entry) \cup again)
    BY <1>4, <1>5, FS_Union DEF rest
  <2>2. QED BY <2>1 DEF NodeOK, Node
<1> HIDE DEF landed, back
<1>11. QED
  BY <1>1, <1>9, <1>10, FlushTyped

\* ... for an unconfirmed message.
LEMMA ApplyUnconfirmedTyped ==
    ASSUME NEW n, NodeOK(n), NEW x \in Finished
    PROVE  NodeOK(ApplyUnconfirmed(n, x))
<1> DEFINE id == x.out.frame.id
           marked == x.delivery.copies \cup {[relay |-> Handed, frame |-> x.out.frame]}
           h2 == [n.hist EXCEPT ![id] = IF Present(@) /\ @.delivery = "sent"
                                        THEN [@ EXCEPT !.delivery = "queued"] ELSE @]
           r2 == [n.relay_receipts EXCEPT ![id] = marked]
           w2 == n.awaiting_receipt \cup {id}
<1>1. ApplyUnconfirmed(n, x) = IF x.delivery.via = "Relay"
                               THEN [n EXCEPT !.relay_receipts = r2, !.hist = h2]
                               ELSE [n EXCEPT !.awaiting_receipt = w2]
  BY DEF ApplyUnconfirmed, NodeOK, Node
<1>2. id \in Ids /\ marked \in SUBSET Copy
  BY DEF Finished, Outbound, Delivery, Frame, Copy
<1>3. h2 \in [Ids -> Sent]
  <2> HIDE DEF id
  <2>1. \A i \in Ids : [n.hist[i] EXCEPT !.delivery = "queued"] \in Sent
    BY SetBadge, NodeParts DEF Badges
  <2>2. QED BY <1>2, <2>1, NodeParts
<1>4. r2 \in [Ids -> SUBSET Copy] /\ w2 \in SUBSET Ids
  <2> HIDE DEF id, marked
  <2>1. QED BY <1>2, NodeParts
<1> HIDE DEF h2, r2, w2
<1>5. QED
  BY <1>1, <1>3, <1>4 DEF NodeOK, Node

\* What export writes and import reads back is typed.
LEMMA ExportTyped ==
    ASSUME NEW n, NodeOK(n)
    PROVE  SavedOK(Export(n)) /\ Export(n).hist = n.hist
<1> DEFINE idle == {[h EXCEPT !.in_flight = FALSE] : h \in n.held}
           g == [h \in n.held |-> [h EXCEPT !.in_flight = FALSE]]
<1>1. idle \in SUBSET HeldSend
  <2>1. \A h \in HeldSend : [h EXCEPT !.in_flight = FALSE] \in HeldSend
    BY DEF HeldSend
  <2>2. QED BY <2>1, NodeParts
<1>2. idle = {g[h] : h \in n.held} /\ DOMAIN g = n.held
  OBVIOUS
<1>3. Export(n) = [hist |-> n.hist, held |-> idle, relay_receipts |-> n.relay_receipts, seal |-> n.seal]
  BY DEF Export
<1> HIDE DEF idle, g
<1>4. IsFiniteSet(idle)
  BY <1>2, NodeParts, ImageIsFinite
<1>5. QED
  BY <1>1, <1>3, <1>4, NodeParts DEF SavedOK, Persisted

\* A restart makes a node of what was saved.
LEMMA ImportTyped ==
    ASSUME NEW d, SavedOK(d)
    PROVE  NodeOK(Import(d))
BY FS_EmptySet DEF SavedOK, Persisted, Import, NodeOK, Node

\* apply_tick as a whole.
LEMMA TickTyped ==
    ASSUME TypeInv, NEW direct, NEW relayed, NEW due, NEW timed \in SUBSET Ids, NEW may_retry,
           a.seal + Cardinality(timed) <= MaxSeal
    PROVE  NodeOK(TickNode(direct, relayed, due, timed, may_retry))
<1> DEFINE pumped == Receipted(a, direct, TRUE)
           harvested == Receipted(pumped, relayed, FALSE)
           applied == ApplySendOutcomes(harvested, outcomes)
           flushed == FlushHeld(applied, FALSE, may_retry)
           swept == SweepUnconfirmed(flushed, timed)
<1>1. TickNode(direct, relayed, due, timed, may_retry) = IF due THEN swept ELSE applied
  BY DEF TickNode
<1>2. NodeOK(a) /\ outcomes \in SUBSET Outcome /\ IsFiniteSet(outcomes)
  BY DEF TypeInv, TypeOK, Finite, NodeOK
<1>3. NodeOK(pumped) /\ pumped.seal = a.seal
  BY <1>2, ReceiptedTyped
<1> HIDE DEF pumped
<1>4. NodeOK(harvested) /\ harvested.seal = a.seal
  BY <1>3, ReceiptedTyped
<1> HIDE DEF harvested
<1>5. NodeOK(applied) /\ applied.seal = a.seal
  BY <1>2, <1>4, OutcomesTyped
<1> HIDE DEF applied
<1>6. NodeOK(flushed) /\ flushed.seal = a.seal
  BY <1>5, FlushTyped
<1> HIDE DEF flushed
<1>7. NodeOK(swept)
  BY <1>6, SweepTyped
<1> HIDE DEF swept
<1>8. QED
  BY <1>1, <1>5, <1>7

\* A frame leaves the receiver typed, and owes receipts for known messages.
LEMMA ProcessFrameTyped ==
    ASSUME NEW n \in Receiver, NEW f \in Frame
    PROVE  ProcessFrame(n, f) \in Receiver /\ Receipt(n, f) \in SUBSET Ids
<1> DEFINE m == n.inbox[f.id]
           open == m.kind = "text" /\ f.id \notin closed
           shown == CASE f.kind = "Message" /\ m.kind = "none" /\ ~full ->
                            [kind |-> "text", text |-> f.text]
                      [] f.kind = "Edit" /\ open -> [kind |-> "text", text |-> f.text]
                      [] f.kind = "Unsend" /\ open -> [kind |-> "deleted", text |-> Blank]
                      [] OTHER -> m
           next == [inbox |-> [n.inbox EXCEPT ![f.id] = shown], spent |-> n.spent \cup {f.seal}]
<1>1. ProcessFrame(n, f) = IF f.seal \in n.spent THEN n ELSE next
  BY DEF ProcessFrame
<1>2. f.id \in Ids /\ f.text \in Texts /\ f.seal \in Seals /\ Blank \in Texts /\ m \in Shown
  <2>1. Blank \in Texts
    BY DeliveryAssumption DEF Texts, Blank
  <2>2. QED BY <2>1 DEF Frame, Receiver
<1>3. shown \in Shown
  BY <1>2 DEF Shown
<1> HIDE DEF m, shown
<1>4. next \in Receiver
  BY <1>2, <1>3 DEF Receiver
<1>5. Receipt(n, f) \in SUBSET Ids
  BY <1>2 DEF Receipt
<1>6. QED
  BY <1>1, <1>4, <1>5

SenderOK ==
    /\ NodeOK(a) /\ SavedOK(aDisk)
    /\ planned \subseteq Frame /\ IsFiniteSet(planned)
    /\ outcomes \subseteq Outcome /\ IsFiniteSet(outcomes)
    /\ round \in Round /\ calls \subseteq Call
ReceiverOK ==
    /\ b \in Receiver /\ bDisk \in Receiver /\ drained \in Seq(Frame)
    /\ applying \in BOOLEAN /\ owed \subseteq Ids
    /\ full \in BOOLEAN /\ closed \subseteq Ids /\ dropped \subseteq Ids /\ late \subseteq Ids
NetOK ==
    /\ wire \subseteq Frame /\ mailbox \in [Relays -> Seq(Frame)]
    /\ acks \subseteq Ids /\ faults \in 0 .. MaxFaults
HistOK == retired \subseteq Ids \X Texts /\ refused \subseteq Ids /\ early \subseteq Ids

\* The type invariant by the owner of the variables.
LEMMA TypeGroups == TypeInv <=> SenderOK /\ ReceiverOK /\ NetOK /\ HistOK
BY DEF TypeInv, TypeOK, Finite, SenderOK, NodeOK, SavedOK, ReceiverOK, NetOK, HistOK

\* Together again, after a step.
LEMMA TypeGroupsNext == TypeInv' <=> SenderOK' /\ ReceiverOK' /\ NetOK' /\ HistOK'
BY DEF TypeInv, TypeOK, Finite, SenderOK, NodeOK, SavedOK, ReceiverOK, NetOK, HistOK

\* A frame given to process_frame, with its receipt and the histories.
LEMMA ProcessesTyped ==
    ASSUME ReceiverOK, NEW f \in Frame, Processes(f)
    PROVE  b' \in Receiver /\ owed' \subseteq Ids /\ dropped' \subseteq Ids /\ late' \subseteq Ids
<1>1. b \in Receiver /\ f.id \in Ids
  BY DEF ReceiverOK, Frame
<1>2. b' \in Receiver /\ owed' \subseteq Ids
  BY <1>1, ProcessFrameTyped DEF Processes, ReceiverOK
<1>3. QED
  BY <1>1, <1>2 DEF Processes, ReceiverOK

\* A step that leaves the variables of an owner alone keeps its part.
LEMMA GroupsStay ==
    /\ UNCHANGED senderVars /\ SenderOK => SenderOK'
    /\ UNCHANGED receiverVars /\ ReceiverOK => ReceiverOK'
    /\ UNCHANGED netVars /\ NetOK => NetOK'
    /\ UNCHANGED histVars /\ HistOK => HistOK'
<1>1. UNCHANGED senderVars /\ SenderOK => SenderOK'
  BY DEF senderVars, SenderOK, NodeOK, SavedOK
<1>2. UNCHANGED receiverVars /\ ReceiverOK => ReceiverOK'
  BY DEF receiverVars, ReceiverOK
<1>3. UNCHANGED netVars /\ NetOK => NetOK'
  BY DEF netVars, NetOK
<1>4. UNCHANGED histVars /\ HistOK => HistOK'
  BY DEF histVars, HistOK
<1>5. QED BY <1>1, <1>2, <1>3, <1>4

\* A save writes the node as it is.
LEMMA SaveTyped ==
    ASSUME SavedOK(aDisk), NodeOK(a'), Save \/ SaveSoon \/ UNCHANGED aDisk
    PROVE  SavedOK(aDisk')
<1>1. aDisk' = aDisk \/ aDisk' = Export(a')
  BY SaveSoonWrites DEF Save
<1>2. \A n : NodeOK(n) => SavedOK(Export(n))
  BY ExportTyped
<1>3. QED BY <1>1, <1>2

\* Failures are finitely many kinds, so their count stays a bounded number.
LEMMA PaidIsBounded ==
    ASSUME faults \in 0 .. MaxFaults, NEW kinds, Pay(kinds)
    PROVE  faults' \in 0 .. MaxFaults
<1>1. FaultKinds = {"wire", "post", "postreply", "recall", "recallreply",
                    "receipt", "reply", "sender", "receiver", "allowance", "window"}
  BY DEF FaultKinds
<1>2. IsFiniteSet(FaultKinds)
  <2> DEFINE g == [i \in 1 .. 11 |-> CASE i = 1 -> "wire" [] i = 2 -> "post" [] i = 3 -> "postreply"
                                     [] i = 4 -> "recall" [] i = 5 -> "recallreply" [] i = 6 -> "receipt"
                                     [] i = 7 -> "reply" [] i = 8 -> "sender" [] i = 9 -> "receiver"
                                      [] i = 10 -> "allowance" [] OTHER -> "window"]
  <2>1. g \in [1 .. 11 -> FaultKinds]
    BY DEF FaultKinds
  <2>2. /\ g[1] = "wire" /\ g[2] = "post" /\ g[3] = "postreply" /\ g[4] = "recall"
        /\ g[5] = "recallreply" /\ g[6] = "receipt" /\ g[7] = "reply" /\ g[8] = "sender" /\ g[9] = "receiver"
        /\ g[10] = "allowance" /\ g[11] = "window"
    OBVIOUS
  <2> HIDE DEF g
  <2>3. \A k \in FaultKinds : \E i \in 1 .. 11 : g[i] = k
    BY <1>1, <2>2
  <2>4. g \in Surjection(1 .. 11, FaultKinds)
    BY <2>1, <2>3 DEF Surjection
  <2>5. IsFiniteSet(1 .. 11)
    <3>1. 1 \in Int /\ 11 \in Int
      OBVIOUS
    <3>2. QED BY <3>1, FS_Interval
  <2>6. QED BY <2>4, <2>5, FS_Surjection
<1>3. kinds \in SUBSET FaultKinds
  BY DeliveryAssumption DEF Pay
<1>4. Cardinality(kinds) \in Nat
  BY <1>2, <1>3, FS_Subset, FS_CardinalityType
<1>5. QED
  BY <1>4, DeliveryAssumption DEF Pay

\* A frame that goes out over a route changes the network as its delivery says.
LEMMA RunTyped ==
    ASSUME NetOK, NEW f \in Frame, NEW route, NEW d, Run(f, route, d), acks' = acks
    PROVE  NetOK' /\ d \in Delivery
<1>1. CASE RunDirect(f, route, d)
  BY <1>1 DEF RunDirect, NetOK, Delivery
<1>2. ASSUME NEW took \in SUBSET Relays, NEW stray \in SUBSET Relays, RunRelay(f, took, stray, d)
      PROVE  NetOK' /\ d \in Delivery
  <2>1. mailbox' \in [Relays -> Seq(Frame)]
    <3>1. mailbox' = [r \in Relays |-> IF r \in took \cup stray THEN Append(mailbox[r], f)
                                       ELSE mailbox[r]]
      BY <1>2 DEF RunRelay, Post
    <3>2. \A r \in Relays : mailbox[r] \in Seq(Frame) /\ Append(mailbox[r], f) \in Seq(Frame)
      BY DEF NetOK
    <3>3. QED BY <3>1, <3>2
  <2>2. faults' \in 0 .. MaxFaults
    BY <1>2, PaidIsBounded DEF RunRelay, Post, NetOK
  <2>3. Copies(f, took) \in SUBSET Copy
    BY DEF Copies, Copy
  <2>4. d \in Delivery
    BY <1>2, <2>3 DEF RunRelay, NotSent, Delivery
  <2>5. QED
    BY <1>2, <2>1, <2>2, <2>4 DEF RunRelay, NetOK
<1>3. QED
  BY <1>1, <1>2 DEF Run

\* The frames of the frame constructors.
LEMMA FramesMade ==
    ASSUME NEW id \in Ids, NEW text \in Texts, NEW seal \in Seals
    PROVE  /\ Message(id, text, seal) \in Frame /\ Edit(id, text, seal) \in Frame
           /\ Unsend(id, seal) \in Frame
BY DeliveryAssumption DEF Message, Edit, Unsend, Frame, Texts, Blank

\* What is taken back is a text of a known message.
LEMMA TakenBackTyped ==
    ASSUME retired \subseteq Ids \X Texts, NEW id \in Ids, NEW texts \in SUBSET Texts
    PROVE  TakenBack(id, texts) \subseteq Ids \X Texts
BY DEF TakenBack

\* Every step of Delivery keeps to the types.
LEMMA TypeStep == TypeInv /\ [Next]_vars => TypeInv'
<1> SUFFICES ASSUME TypeInv, [Next]_vars PROVE TypeInv'
  OBVIOUS
<1>s. SenderOK /\ ReceiverOK /\ NetOK /\ HistOK
  BY TypeGroups
<1>a. /\ NodeOK(a) /\ SavedOK(aDisk)
      /\ planned \subseteq Frame /\ IsFiniteSet(planned)
      /\ outcomes \subseteq Outcome /\ IsFiniteSet(outcomes)
      /\ round \in Round /\ calls \subseteq Call
  BY <1>s DEF SenderOK
<1>n. /\ MaxSeal \in Nat /\ MaxText \in Nat /\ 1 \in Texts /\ Blank \in Texts /\ 0 \in Seals
      /\ \A s \in Seals : s \in Nat /\ s <= MaxSeal
  BY DeliveryAssumption DEF Seals, Texts, Blank
<1>p. /\ a.hist \in [Ids -> Sent] /\ a.pending_sends \in SUBSET Frame
      /\ a.held \in SUBSET HeldSend /\ a.awaiting_receipt \in SUBSET Ids
      /\ a.relay_receipts \in [Ids -> SUBSET Copy] /\ a.outbox \in SUBSET Outbound
      /\ a.seal \in Seals
      /\ IsFiniteSet(a.held) /\ IsFiniteSet(a.pending_sends)
  BY <1>a, NodeParts
<1>u. ASSUME NodeOK(a'), SavedOK(aDisk'),
             planned' \subseteq Frame /\ IsFiniteSet(planned'),
             outcomes' \subseteq Outcome /\ IsFiniteSet(outcomes'),
             round' \in Round, calls' \subseteq Call, ReceiverOK', NetOK', HistOK'
      PROVE  TypeInv'
  <2>1. SenderOK'
    BY <1>u DEF SenderOK
  <2>2. QED
    BY <1>u, <2>1, TypeGroupsNext
<1>r. (UNCHANGED receiverVars => ReceiverOK') /\ (UNCHANGED netVars => NetOK') /\ (UNCHANGED histVars => HistOK')
  BY <1>s, GroupsStay
<1>1. ASSUME NEW id \in Ids, SendMessage(id) PROVE TypeInv'
  <2> DEFINE msg == [kind |-> "text", text |-> 1, delivery |-> "queued"]
             f == Message(id, 1, a.seal + 1)
  <2>1. msg \in Sent /\ a.seal + 1 \in Seals
    <3>1. a.seal \in Nat /\ a.seal < MaxSeal
      BY <1>1, <1>n, <1>p DEF SendMessage
    <3>2. a.seal + 1 \in Seals
      BY <1>n, <3>1 DEF Seals
    <3>3. msg \in Sent
      BY <1>n DEF Sent, Badges
    <3>4. QED BY <3>2, <3>3
  <2>2. f \in Frame
    BY <1>n, <2>1, FramesMade
  <2>3. a' = [a EXCEPT !.hist[id] = msg, !.seal = @ + 1, !.pending_sends = @ \cup {f}]
    BY <1>1 DEF SendMessage
  <2> HIDE DEF msg, f
  <2>4. IsFiniteSet(a.pending_sends \cup {f})
    BY <1>p, FS_AddElement
  <2>5. NodeOK(a')
    BY <1>a, <2>1, <2>2, <2>3, <2>4 DEF NodeOK, Node
  <2>6. SavedOK(aDisk')
    BY <1>1, <1>a, <2>5, SaveTyped DEF SendMessage
  <2>7. QED
    BY <1>1, <1>a, <1>r, <1>u, <2>5, <2>6 DEF SendMessage, Locked
<1>2. ASSUME NEW id \in Ids, NEW op \in {"edit", "unsend"}, NEW text \in Texts
      PROVE  NewCall(op, id, text) \in Call
  <2>1. (IF a.hist[id].delivery = "queued" THEN a.relay_receipts[id] ELSE {}) \in SUBSET Copy
    BY <1>p
  <2>2. NotSent \in Delivery
    BY DEF NotSent, Delivery
  <2>3. QED
    BY <2>1, <2>2 DEF NewCall, Call
<1>3. ASSUME NEW id \in Ids, BeginEdit(id) PROVE TypeInv'
  <2> DEFINE msg == [a.hist[id] EXCEPT !.text = @ + 1]
             rest == IF a.hist[id].delivery = "queued" THEN {} ELSE a.relay_receipts[id]
  <2>1. a.hist[id] \in Sent /\ a.hist[id].text + 1 \in Texts
    BY <1>3, <1>n, <1>p DEF BeginEdit, Sent, Texts, Blank
  <2>2. msg \in Sent /\ rest \in SUBSET Copy
    BY <1>p, <2>1 DEF Sent
  <2>3. a' = [a EXCEPT !.hist = [a.hist EXCEPT ![id] = msg],
                       !.relay_receipts = [a.relay_receipts EXCEPT ![id] = rest]]
    BY <1>3, <1>a DEF BeginEdit, NodeOK, Node, Sent
  <2> HIDE DEF msg, rest
  <2>4. NodeOK(a')
    BY <1>a, <1>p, <2>2, <2>3 DEF NodeOK, Node
  <2>5. calls' \subseteq Call /\ early' \subseteq Ids
    BY <1>2, <1>3, <1>a, <1>s, <2>1 DEF BeginEdit, HistOK
  <2>6. HistOK'
    BY <1>3, <1>s, <2>5 DEF BeginEdit, HistOK
  <2>7. QED
    BY <1>3, <1>a, <1>r, <1>u, <2>4, <2>5, <2>6 DEF BeginEdit, Locked
<1>4. ASSUME NEW id \in Ids, BeginUnsend(id) PROVE TypeInv'
  <2> DEFINE rest == IF a.hist[id].delivery = "queued" THEN {} ELSE a.relay_receipts[id]
  <2>1. rest \in SUBSET Copy
    BY <1>p
  <2>2. a' = [a EXCEPT !.relay_receipts = [a.relay_receipts EXCEPT ![id] = rest]]
    BY <1>4, <1>a DEF BeginUnsend, NodeOK, Node
  <2> HIDE DEF rest
  <2>3. NodeOK(a')
    BY <1>a, <1>p, <2>1, <2>2 DEF NodeOK, Node
  <2>4. calls' \subseteq Call /\ early' \subseteq Ids
    BY <1>2, <1>4, <1>a, <1>s, <1>n DEF BeginUnsend, HistOK
  <2>5. HistOK'
    BY <1>4, <1>s, <2>4 DEF BeginUnsend, HistOK
  <2>6. QED
    BY <1>4, <1>a, <1>r, <1>u, <2>3, <2>4, <2>5 DEF BeginUnsend, Locked
<1>5. ASSUME NEW c \in Copy, RecallOk(c)
      PROVE  c.relay \in Relays /\ Recalled(c) \in Seq(Frame)
  <2> DEFINE q == mailbox[c.relay]
             last == CHOOSE i \in Places(c) : \A j \in Places(c) : j <= i
  <2>1. c.relay \in Relays /\ q \in Seq(Frame) /\ Places(c) # {}
    BY <1>5, <1>s DEF RecallOk, NetOK
  <2>2. DOMAIN q = 1 .. Len(q) /\ Len(q) \in Nat /\ \A i \in 1 .. Len(q) : q[i] \in Frame
    BY <2>1
  <2>3. last \in 1 .. Len(q)
    <3>1. Places(c) \in SUBSET (1 .. Len(q))
      BY <2>2 DEF Places
    <3>2. IsFiniteSet(Places(c)) /\ Places(c) \in SUBSET Nat
      <4>1. 1 \in Int /\ Len(q) \in Int
        BY <2>2
      <4>2. IsFiniteSet(1 .. Len(q))
        BY <4>1, FS_Interval
      <4>3. QED BY <2>2, <3>1, <4>2, FS_Subset
    <3>3. \E i \in Places(c) : \A j \in Places(c) : j <= i
      BY <2>1, <3>2, LargestOf
    <3>4. last \in Places(c)
      BY <3>3
    <3>5. QED BY <3>1, <3>4
  <2>4. Recalled(c) = [j \in 1 .. (Len(q) - 1) |-> q[IF j < last THEN j ELSE j + 1]]
    BY DEF Recalled
  <2> HIDE DEF q, last
  <2>5. \A j \in 1 .. (Len(q) - 1) : (IF j < last THEN j ELSE j + 1) \in 1 .. Len(q)
    BY <2>2, <2>3
  <2>6. Len(q) - 1 \in Nat
    BY <2>2, <2>3
  <2>7. \A j \in 1 .. (Len(q) - 1) : q[IF j < last THEN j ELSE j + 1] \in Frame
    BY <2>2, <2>5
  <2>8. Recalled(c) \in [1 .. (Len(q) - 1) -> Frame]
    BY <2>4, <2>7
  <2>9. QED
    BY <2>1, <2>6, <2>8
<1>6. ASSUME NEW k \in calls, NEW c \in k.copies, RecallCopy(k, c) PROVE TypeInv'
  <2>1. k \in Call /\ c \in Copy
    BY <1>a DEF Call
  <2>2. \A ok \in BOOLEAN : [k EXCEPT !.copies = @ \ {c}, !.recalled = IF ok THEN @ ELSE "no"] \in Call
    BY <2>1 DEF Call
  <2>3. calls' \subseteq Call
    BY <1>6, <1>a, <2>2 DEF RecallCopy
  <2>4. mailbox' \in [Relays -> Seq(Frame)]
    BY <1>5, <1>6, <1>s, <2>1 DEF RecallCopy, NetOK
  <2>5. faults' \in 0 .. MaxFaults
    BY <1>6, <1>s, PaidIsBounded DEF RecallCopy, NetOK
  <2>6. NetOK'
    BY <1>6, <1>s, <2>4, <2>5 DEF RecallCopy, NetOK
  <2>7. UNCHANGED <<a, aDisk, planned, outcomes, round, receiverVars>>
    BY <1>6 DEF RecallCopy
  <2>8. HistOK'
    <3>1. k.id \in Ids /\ {c.frame.text} \subseteq Texts
      BY <1>a, <2>1 DEF Call, Copy, Frame
    <3>2. retired' = retired \/ retired' = TakenBack(k.id, {c.frame.text})
      BY <1>6 DEF RecallCopy, Withdraws
    <3>3. retired' \subseteq Ids \X Texts
      BY <1>s, <3>1, <3>2, TakenBackTyped DEF HistOK
    <3>4. QED BY <1>6, <1>s, <3>3 DEF RecallCopy, HistOK
  <2>9. QED
    BY <1>a, <1>r, <1>u, <2>3, <2>6, <2>7, <2>8
<1>7. ASSUME NEW k \in calls, NEW f \in Frame, NEW route \in Routes, NEW done \in Done, CallSends(k, f, route, done)
      PROVE  calls' \subseteq Call
  <2>1. k \in Call /\ {[frame |-> f, route |-> route, done |-> done]} \in SUBSET Outbound
    BY <1>a DEF Outbound
  <2>2. [k EXCEPT !.phase = "send", !.out = {[frame |-> f, route |-> route, done |-> done]}] \in Call
    BY <2>1 DEF Call
  <2>3. QED
    BY <1>7, <1>a, <2>2 DEF CallSends
<1>8. ASSUME NEW k \in calls, FinishEdit(k) PROVE TypeInv'
  <2> DEFINE s == a.seal + 1
             mine == HeldUnsent(a, k.id)
             f == Message(k.id, k.text, s)
             again == {[h EXCEPT !.frame = f] : h \in mine}
             held == (a.held \ mine) \cup again
  <2>1. k \in Call /\ k.id \in Ids /\ k.text \in Texts /\ s \in Seals
    BY <1>8, <1>a, <1>n, <1>p DEF Call, FinishEdit, Seals
  <2>2. f \in Frame /\ Edit(k.id, k.text, s) \in Frame
    BY <2>1, FramesMade
  <2>3. mine \in SUBSET a.held
    BY DEF HeldUnsent
  <2> HIDE DEF f, mine, s
  <2>4. again \in SUBSET HeldSend
    <3>1. \A h \in HeldSend : [h EXCEPT !.frame = f] \in HeldSend
      BY <2>2 DEF HeldSend
    <3>2. QED BY <1>p, <2>3, <3>1
  <2>5. IsFiniteSet(again)
    <3> DEFINE g == [h \in mine |-> [h EXCEPT !.frame = f]]
    <3>1. again = {g[h] : h \in mine} /\ DOMAIN g = mine
      OBVIOUS
    <3>2. IsFiniteSet(mine)
      BY <1>p, <2>3, FS_Subset
    <3> HIDE DEF g, again
    <3>3. QED BY <3>1, <3>2, ImageIsFinite
  <2> HIDE DEF again
  <2>6. held \in SUBSET HeldSend /\ IsFiniteSet(held)
    BY <1>p, <2>4, <2>5, FS_Difference, FS_Union
  <2> HIDE DEF held
  <2>7. a' = [a EXCEPT !.seal = s, !.held = held] \/ a' = [a EXCEPT !.seal = s]
    BY <1>8 DEF FinishEdit, s, held, again, mine, f
  <2>8. NodeOK(a')
    BY <1>a, <2>1, <2>6, <2>7 DEF NodeOK, Node
  <2>9. calls' \subseteq Call
    <3>1. \/ CallEnds(k)
          \/ CallSends(k, f, "RelayOnly", "CallerRecords")
          \/ CallSends(k, Edit(k.id, k.text, s), "DirectThenRelay", "Caller")
      BY <1>8 DEF FinishEdit, s, f
    <3>2. QED BY <1>7, <1>a, <2>2, <3>1 DEF CallEnds, Routes, Done
  <2>10. HistOK'
    <3>1. {h.frame.text : h \in mine} \subseteq Texts
      BY <1>p, <2>3 DEF HeldSend, Frame
    <3>2. retired' = retired \/ retired' = TakenBack(k.id, {h.frame.text : h \in mine})
      BY <1>8 DEF FinishEdit, mine
    <3>3. retired' \subseteq Ids \X Texts
      BY <1>s, <2>1, <3>1, <3>2, TakenBackTyped DEF HistOK
    <3>4. QED BY <1>8, <1>s, <3>3 DEF FinishEdit, HistOK
  <2>11. SavedOK(aDisk')
    BY <1>8, <1>a, <2>8, SaveTyped DEF FinishEdit
  <2>12. UNCHANGED <<planned, outcomes, round, receiverVars, netVars>>
    BY <1>8 DEF FinishEdit, Locked
  <2>13. QED
    BY <1>a, <1>r, <1>u, <2>8, <2>9, <2>10, <2>11, <2>12
<1>9. ASSUME NEW k \in calls, FinishUnsend(k) PROVE TypeInv'
  <2> DEFINE mine == HeldUnsent(a, k.id)
             s == a.seal + 1
             stone == make_tombstone(a.hist[k.id])
  <2>1. k \in Call /\ k.id \in Ids
    BY <1>a DEF Call
  <2>2. Gone \in Sent /\ stone \in Sent
    BY <1>n DEF Gone, make_tombstone, Sent, Badges
  <2>3. a.held \ mine \in SUBSET HeldSend /\ IsFiniteSet(a.held \ mine)
    BY <1>p, FS_Difference
  <2>4. /\ \/ a' = [a EXCEPT !.held = a.held \ mine, !.hist[k.id] = Gone]
           \/ a' = a
           \/ a' = [a EXCEPT !.hist[k.id] = Gone]
           \/ a' = [a EXCEPT !.hist[k.id] = stone, !.seal = s] /\ s \in Seals
        /\ \/ CallEnds(k)
           \/ CallSends(k, Unsend(k.id, s), "DirectThenRelay", "Caller") /\ s \in Seals
    <3>1. a.seal < MaxSeal => s \in Seals
      BY <1>n, <1>p DEF Seals
    <3> HIDE DEF mine, s, stone
    <3>2. QED BY <1>9, <3>1 DEF FinishUnsend, mine, s, stone
  <2> HIDE DEF mine, s, stone
  <2>5. NodeOK(a')
    <3>1. \A m \in Sent : [a.hist EXCEPT ![k.id] = m] \in [Ids -> Sent]
      BY <1>p, <2>1
    <3>2. CASE a' = [a EXCEPT !.held = a.held \ mine, !.hist[k.id] = Gone]
      <4>1. a' = [a EXCEPT !.held = a.held \ mine, !.hist = [a.hist EXCEPT ![k.id] = Gone]]
        BY <1>a, <3>2 DEF NodeOK, Node
      <4>2. QED BY <1>a, <2>2, <2>3, <3>1, <4>1 DEF NodeOK, Node
    <3>3. CASE a' = a
      BY <1>a, <3>3
    <3>4. CASE a' = [a EXCEPT !.hist[k.id] = Gone]
      <4>1. a' = [a EXCEPT !.hist = [a.hist EXCEPT ![k.id] = Gone]]
        BY <1>a, <3>4 DEF NodeOK, Node
      <4>2. QED BY <1>a, <2>2, <3>1, <4>1 DEF NodeOK, Node
    <3>5. CASE a' = [a EXCEPT !.hist[k.id] = stone, !.seal = s] /\ s \in Seals
      <4>1. a' = [a EXCEPT !.hist = [a.hist EXCEPT ![k.id] = stone], !.seal = s]
        BY <1>a, <3>5 DEF NodeOK, Node
      <4>2. QED BY <1>a, <2>2, <3>1, <3>5, <4>1 DEF NodeOK, Node
    <3>6. QED BY <2>4, <3>2, <3>3, <3>4, <3>5
  <2>6. calls' \subseteq Call
    <3>1. s \in Seals => Unsend(k.id, s) \in Frame
      BY <1>n, <2>1, FramesMade
    <3>2. QED BY <1>7, <1>a, <2>4, <3>1 DEF CallEnds, Routes, Done
  <2>7. HistOK'
    <3>1. retired' = retired \/ retired' = retired \cup {<<k.id, t>> : t \in Texts}
      BY <1>9 DEF FinishUnsend
    <3>2. retired' \subseteq Ids \X Texts
      BY <1>s, <2>1, <3>1 DEF HistOK
    <3>3. QED BY <1>9, <1>s, <3>2 DEF FinishUnsend, HistOK
  <2>8. SavedOK(aDisk')
    BY <1>9, <1>a, <2>5, SaveTyped DEF FinishUnsend
  <2>9. UNCHANGED <<planned, outcomes, round, receiverVars, netVars>>
    BY <1>9 DEF FinishUnsend, Locked
  <2>10. QED
    BY <1>a, <1>r, <1>u, <2>5, <2>6, <2>7, <2>8, <2>9
<1>10. ASSUME NEW k \in calls, NEW o \in k.out, RunCall(k, o) PROVE TypeInv'
  <2>1. k \in Call /\ o.frame \in Frame
    BY <1>a DEF Call, Outbound
  <2>2. PICK d \in Deliveries(o.frame) :
            /\ Run(o.frame, o.route, d)
            /\ calls' = (calls \ {k}) \cup {[k EXCEPT !.phase = "apply", !.delivery = d]}
    BY <1>10 DEF RunCall
  <2>3. UNCHANGED <<a, aDisk, planned, outcomes, round, receiverVars, acks, histVars>>
    BY <1>10 DEF RunCall
  <2>4. NetOK' /\ d \in Delivery
    BY <1>s, <2>1, <2>2, <2>3, RunTyped
  <2>5. [k EXCEPT !.phase = "apply", !.delivery = d] \in Call
    BY <2>1, <2>4 DEF Call
  <2>6. QED
    BY <1>a, <1>r, <1>u, <2>2, <2>3, <2>4, <2>5
<1>11. ASSUME NEW k \in calls, NEW o \in k.out, ApplyCall(k, o) PROVE TypeInv'
  <2> DEFINE failed == k.delivery.via = "Failed"
             held == IF failed /\ ~HasRelayRoute THEN Hold(a.held, {o.frame}) ELSE a.held
             copies == IF o.done = "CallerRecords" /\ ~failed THEN k.delivery.copies
                       ELSE a.relay_receipts[k.id]
  <2>1. k.id \in Ids /\ o.frame \in Frame /\ k.delivery.copies \in SUBSET Copy
    BY <1>a DEF Call, Outbound, Delivery
  <2>2. held \in SUBSET HeldSend /\ IsFiniteSet(held) /\ copies \in SUBSET Copy
    BY <1>p, <2>1, HoldTyped, FS_Singleton
  <2>3. a' = [a EXCEPT !.held = held, !.relay_receipts = [a.relay_receipts EXCEPT ![k.id] = copies]]
    BY <1>11, <1>a DEF ApplyCall, NodeOK, Node
  <2> HIDE DEF held, copies
  <2>4. NodeOK(a')
    BY <1>a, <1>p, <2>2, <2>3 DEF NodeOK, Node
  <2>5. SavedOK(aDisk')
    BY <1>11, <1>a, <2>4, SaveTyped DEF ApplyCall
  <2>6. calls' \subseteq Call /\ HistOK'
    BY <1>11, <1>a, <1>s, <2>1 DEF ApplyCall, CallEnds, HistOK
  <2>7. UNCHANGED <<planned, outcomes, round, receiverVars, netVars>>
    BY <1>11 DEF ApplyCall, Locked
  <2>8. QED
    BY <1>a, <1>r, <1>u, <2>4, <2>5, <2>6, <2>7
<1>12. CASE PlanPendingSends
  <2>1. a' = [a EXCEPT !.pending_sends = {}] /\ planned' = a.pending_sends
        /\ UNCHANGED <<aDisk, outcomes, round, calls, histVars, receiverVars, netVars>>
    BY <1>12 DEF PlanPendingSends, Locked
  <2>2. NodeOK(a')
    BY <1>a, <2>1, FS_EmptySet DEF NodeOK, Node
  <2>3. QED
    BY <1>a, <1>p, <1>r, <1>u, <2>1, <2>2
<1>13. ASSUME NEW f \in planned, ExecuteSend(f) PROVE TypeInv'
  <2>1. planned' = planned \ {f} /\ UNCHANGED <<a, aDisk, round, calls, receiverVars, acks, histVars>>
    BY <1>13 DEF ExecuteSend
  <2>2. planned' \subseteq Frame /\ IsFiniteSet(planned') /\ f \in Frame
    BY <1>a, <2>1, FS_RemoveElement
  <2>3. PICK delivered \in BOOLEAN :
            /\ wire' = IF delivered THEN wire \cup {f} ELSE wire
            /\ \/ /\ ~delivered \/ RemoteStorage
                  /\ \E took \in SUBSET Relays, stray \in SUBSET Relays :
                       /\ took \cap stray = {}
                       /\ Post(f, took, stray)
                       /\ outcomes' = outcomes \cup
                            {[frame |-> f, delivered |-> delivered, copies |-> Copies(f, took)]}
               \/ /\ delivered /\ ~RemoteStorage
                  /\ outcomes' = outcomes \cup {[frame |-> f, delivered |-> TRUE, copies |-> {}]}
                  /\ UNCHANGED <<mailbox, faults>>
    BY <1>13 DEF ExecuteSend
  <2>4. \A took \in SUBSET Relays : Copies(f, took) \in SUBSET Copy
    BY <2>2 DEF Copies, Copy
  <2>5. \E o \in Outcome : outcomes' = outcomes \cup {o}
    BY <2>2, <2>3, <2>4 DEF Outcome
  <2>6. outcomes' \subseteq Outcome /\ IsFiniteSet(outcomes')
    BY <1>a, <2>5, FS_AddElement
  <2>7. mailbox' \in [Relays -> Seq(Frame)] /\ faults' \in 0 .. MaxFaults
    <3>1. CASE UNCHANGED <<mailbox, faults>>
      BY <1>s, <3>1 DEF NetOK
    <3>2. ASSUME NEW took \in SUBSET Relays, NEW stray \in SUBSET Relays, Post(f, took, stray)
          PROVE  mailbox' \in [Relays -> Seq(Frame)] /\ faults' \in 0 .. MaxFaults
      <4>1. mailbox' = [r \in Relays |-> IF r \in took \cup stray THEN Append(mailbox[r], f)
                                         ELSE mailbox[r]]
        BY <3>2 DEF Post
      <4>2. \A r \in Relays : mailbox[r] \in Seq(Frame) /\ Append(mailbox[r], f) \in Seq(Frame)
        BY <1>s, <2>2 DEF NetOK
      <4>3. faults' \in 0 .. MaxFaults
        BY <1>s, <3>2, PaidIsBounded DEF Post, NetOK
      <4>4. QED BY <4>1, <4>2, <4>3
    <3>3. QED BY <2>3, <3>1, <3>2
  <2>8. NetOK'
    BY <1>s, <2>1, <2>2, <2>3, <2>7 DEF NetOK
  <2>9. QED
    BY <1>a, <1>r, <1>u, <2>1, <2>2, <2>6, <2>8
<1>14. ASSUME NEW direct \in SUBSET acks, NEW relayed \in SUBSET (acks \ direct), NEW due,
              NEW timed \in SUBSET (a.awaiting_receipt \ (direct \cup relayed)), NEW may_retry,
              Tick(direct, relayed, due, timed, may_retry)
       PROVE  TypeInv'
  <2>1. NodeOK(a')
    BY <1>14, <1>p, TickTyped DEF Tick
  <2>2. SavedOK(aDisk')
    BY <1>14, <1>a, <2>1, SaveTyped DEF Tick
  <2>3. NetOK' /\ outcomes' \subseteq Outcome /\ IsFiniteSet(outcomes')
    BY <1>14, <1>s, FS_EmptySet DEF Tick, NetOK
  <2>4. UNCHANGED <<planned, round, calls, receiverVars, histVars>>
    BY <1>14 DEF Tick
  <2>5. QED
    BY <1>a, <1>r, <1>u, <2>1, <2>2, <2>3, <2>4
<1>15. CASE TakeOutbox
  <2>1. a' = [a EXCEPT !.outbox = {}]
        /\ round' = [todo |-> a.outbox, finished |-> {}, applying |-> FALSE]
        /\ UNCHANGED <<aDisk, planned, outcomes, calls, histVars, receiverVars, netVars>>
    BY <1>15 DEF TakeOutbox, Locked
  <2>2. NodeOK(a') /\ round' \in Round
    BY <1>a, <1>p, <2>1 DEF NodeOK, Node, Round
  <2>3. QED
    BY <1>a, <1>r, <1>u, <2>1, <2>2
<1>16. ASSUME NEW o \in round.todo, RunOutbox(o) PROVE TypeInv'
  <2>1. o \in Outbound /\ o.frame \in Frame
    BY <1>a DEF Round, Outbound
  <2>2. PICK d \in Deliveries(o.frame) :
            /\ Run(o.frame, o.route, d)
            /\ round' = [round EXCEPT !.todo = @ \ {o},
                                      !.finished = @ \cup {[out |-> o, delivery |-> d]}]
    BY <1>16 DEF RunOutbox
  <2>3. UNCHANGED <<a, aDisk, planned, outcomes, calls, receiverVars, acks, histVars>>
    BY <1>16 DEF RunOutbox
  <2>4. NetOK' /\ d \in Delivery
    BY <1>s, <2>1, <2>2, <2>3, RunTyped
  <2>5. round' \in Round
    <3>1. [out |-> o, delivery |-> d] \in Finished
      BY <2>1, <2>4 DEF Finished
    <3>2. round.todo \ {o} \in SUBSET Outbound
          /\ round.finished \cup {[out |-> o, delivery |-> d]} \in SUBSET Finished
      BY <1>a, <3>1 DEF Round
    <3>3. QED BY <1>a, <2>2, <3>2 DEF Round
  <2>6. QED
    BY <1>a, <1>r, <1>u, <2>3, <2>4, <2>5
<1>17. ASSUME NEW x \in round.finished, ApplyOutbound(x) PROVE TypeInv'
  <2>1. x \in Finished
    BY <1>a DEF Round
  <2>2. NodeOK(a')
    BY <1>17, <1>a, <2>1, ApplyHeldTyped, ApplyUnconfirmedTyped DEF ApplyOutbound
  <2>3. SavedOK(aDisk')
    BY <1>17, <1>a, <2>2, SaveTyped DEF ApplyOutbound
  <2>4. round' \in Round
    <3>1. round' = [round EXCEPT !.finished = @ \ {x}, !.applying = (round.finished # {x})]
      BY <1>17 DEF ApplyOutbound
    <3>2. (round.finished # {x}) \in BOOLEAN
      OBVIOUS
    <3>3. QED BY <1>a, <3>1, <3>2 DEF Round
  <2>5. UNCHANGED <<planned, outcomes, calls, receiverVars, netVars, histVars>>
    BY <1>17 DEF ApplyOutbound
  <2>6. QED
    BY <1>a, <1>r, <1>u, <2>2, <2>3, <2>4, <2>5
<1>v. ASSUME UNCHANGED senderVars, ReceiverOK', NetOK', HistOK'
      PROVE  TypeInv'
  <2>1. SenderOK'
    BY <1>s, <1>v, GroupsStay
  <2>2. QED BY <1>v, <2>1, TypeGroupsNext
<1>18. ASSUME NEW n \in Receiver, ReceiverSaves(n) PROVE bDisk' \in Receiver
  BY <1>18, <1>s DEF ReceiverSaves, ReceiverOK
<1>19. ASSUME NEW f \in wire, Pump(f) PROVE TypeInv'
  <2>1. f \in Frame /\ b \in Receiver
    BY <1>s DEF NetOK, ReceiverOK
  <2>2. b' \in Receiver /\ owed' \subseteq Ids /\ dropped' \subseteq Ids /\ late' \subseteq Ids
    BY <1>19, <1>s, <2>1, ProcessesTyped DEF Pump
  <2>3. bDisk' \in Receiver
    BY <1>18, <1>19, <2>2 DEF Pump
  <2>4. ReceiverOK' /\ NetOK'
    BY <1>19, <1>s, <2>2, <2>3 DEF Pump, Processes, ReceiverOK, NetOK
  <2>5. QED
    BY <1>19, <1>r, <1>v, <2>4 DEF Pump
<1>20. ASSUME NEW r \in Relays, TakeMailbox(r) PROVE TypeInv'
  <2>1. drained' \in Seq(Frame) /\ mailbox' \in [Relays -> Seq(Frame)]
    BY <1>20, <1>s DEF TakeMailbox, ReceiverOK, NetOK
  <2>2. ReceiverOK' /\ NetOK'
    BY <1>20, <1>s, <2>1 DEF TakeMailbox, ReceiverOK, NetOK
  <2>3. QED
    BY <1>20, <1>r, <1>v, <2>2 DEF TakeMailbox
<1>21. CASE ApplyHarvest
  <2>1. Head(drained) \in Frame /\ Tail(drained) \in Seq(Frame) /\ b \in Receiver
    BY <1>21, <1>s DEF ApplyHarvest, ReceiverOK
  <2>2. b' \in Receiver /\ owed' \subseteq Ids /\ dropped' \subseteq Ids /\ late' \subseteq Ids
    BY <1>21, <1>s, <2>1, ProcessesTyped DEF ApplyHarvest
  <2>3. bDisk' \in Receiver
    BY <1>18, <1>21, <1>s, <2>2 DEF ApplyHarvest, ReceiverOK
  <2>4. applying' \in BOOLEAN
    <3>1. applying' = (Tail(drained) # <<>>)
      BY <1>21 DEF ApplyHarvest
    <3>2. QED BY <3>1
  <2>5. ReceiverOK'
    BY <1>21, <1>s, <2>1, <2>2, <2>3, <2>4 DEF ApplyHarvest, Processes, ReceiverOK
  <2>6. QED
    BY <1>21, <1>r, <1>v, <2>5 DEF ApplyHarvest
<1>22. CASE SendReceipts
  BY <1>22, <1>r, <1>s, <1>v DEF SendReceipts, ReceiverOK, NetOK
<1>23. ASSUME NEW kinds, Pay(kinds) PROVE faults' \in 0 .. MaxFaults
  BY <1>23, <1>s, PaidIsBounded DEF NetOK
<1>24. ASSUME NEW f \in wire, LoseFrame(f) PROVE TypeInv'
  <2>1. NetOK'
    BY <1>23, <1>24, <1>s DEF LoseFrame, NetOK
  <2>2. QED
    BY <1>24, <1>r, <1>v, <2>1 DEF LoseFrame
<1>25. ASSUME NEW id \in acks, LoseReceipt(id) PROVE TypeInv'
  <2>1. NetOK'
    BY <1>23, <1>25, <1>s DEF LoseReceipt, NetOK
  <2>2. QED
    BY <1>25, <1>r, <1>v, <2>1 DEF LoseReceipt
<1>26. ASSUME NEW r \in Relays, LoseTake(r) PROVE TypeInv'
  <2>1. NetOK'
    BY <1>23, <1>26, <1>s DEF LoseTake, NetOK
  <2>2. QED
    BY <1>26, <1>r, <1>v, <2>1 DEF LoseTake
<1>27. CASE SenderRestarts
  <2>1. NodeOK(a') /\ SavedOK(aDisk')
    BY <1>27, <1>a, ImportTyped DEF SenderRestarts
  <2>2. planned' \subseteq Frame /\ IsFiniteSet(planned') /\ outcomes' \subseteq Outcome
        /\ IsFiniteSet(outcomes') /\ round' \in Round /\ calls' \subseteq Call
    BY <1>27, FS_EmptySet DEF SenderRestarts, NoRound, Round
  <2>3. NetOK'
    BY <1>23, <1>27, <1>s DEF SenderRestarts, NetOK
  <2>4. QED
    BY <1>27, <1>r, <1>u, <2>1, <2>2, <2>3 DEF SenderRestarts
<1>28. CASE ReceiverRestarts
  <2>1. NetOK'
    BY <1>23, <1>28, <1>s DEF ReceiverRestarts, NetOK
  <2>2. ReceiverOK'
    <3>1. <<>> \in Seq(Frame)
      OBVIOUS
    <3>2. QED BY <1>28, <1>s, <3>1 DEF ReceiverRestarts, ReceiverOK
  <2>3. QED
    BY <1>28, <1>r, <1>v, <2>1, <2>2 DEF ReceiverRestarts
<1>29. CASE UNCHANGED vars
  BY <1>29, <1>r, <1>v DEF vars
<1>31. CASE ClockStep
  <2>1. /\ UNCHANGED <<b, bDisk, drained, applying, owed, dropped, late>>
        /\ UNCHANGED <<senderVars, wire, mailbox, acks, histVars>>
    BY <1>31 DEF ClockStep, AllowanceFills, DayTurns, WindowPasses, netVars
  <2>2. full' \in BOOLEAN /\ closed' \subseteq Ids
    BY <1>31, <1>s DEF ClockStep, AllowanceFills, DayTurns, WindowPasses, ReceiverOK
  <2>3. faults' \in 0 .. MaxFaults
    BY <1>23, <1>31, <1>s DEF ClockStep, AllowanceFills, DayTurns, WindowPasses, netVars, NetOK
  <2>4. ReceiverOK' /\ NetOK'
    BY <1>s, <2>1, <2>2, <2>3 DEF ReceiverOK, NetOK
  <2>5. QED
    BY <1>r, <1>v, <2>1, <2>4
<1>30. QED
  <2>1. UserStep => TypeInv'
    BY <1>1, <1>3, <1>4 DEF UserStep
  <2>2. CallStep => TypeInv'
    BY <1>6, <1>8, <1>9, <1>10, <1>11 DEF CallStep
  <2>3. PollerStep => TypeInv'
    BY <1>12, <1>13, <1>14, <1>15, <1>16, <1>17 DEF PollerStep, TickStep
  <2>4. ReceiverStep => TypeInv'
    BY <1>19, <1>20, <1>21, <1>22 DEF ReceiverStep
  <2>5. Failure => TypeInv'
    BY <1>24, <1>25, <1>26, <1>27, <1>28 DEF Failure
  <2>6. QED
    BY <1>29, <1>31, <2>1, <2>2, <2>3, <2>4, <2>5 DEF Next

\* The initial state is typed.
LEMMA TypeInit == Init => TypeInv
<1> SUFFICES ASSUME Init PROVE TypeInv
  OBVIOUS
<1>1. NotComposed \in Sent /\ NotShown \in Shown /\ 0 \in Seals
  BY DeliveryAssumption DEF NotComposed, NotShown, Sent, Shown, Texts, Blank, Badges, Seals
<1>2. NodeOK(a)
  BY <1>1, FS_EmptySet DEF Init, NodeOK, Node
<1>3. SavedOK(aDisk)
  BY <1>2, ExportTyped DEF Init
<1>4. SenderOK
  BY <1>2, <1>3, FS_EmptySet DEF Init, SenderOK, NoRound, Round
<1>5. ReceiverOK
  <2>1. <<>> \in Seq(Frame)
    OBVIOUS
  <2>2. QED BY <1>1, <2>1 DEF Init, ReceiverOK, Receiver
<1>6. NetOK /\ HistOK
  <2>1. <<>> \in Seq(Frame) /\ 0 \in 0 .. MaxFaults
    BY DeliveryAssumption
  <2>2. QED BY <2>1 DEF Init, NetOK, HistOK
<1>7. QED
  BY <1>4, <1>5, <1>6, TypeGroups

\* Delivery keeps to its types: every queue holds sealed frames of known
\* messages, no text and no seal leaves its range.
THEOREM DeliveryTyped == Spec => []TypeOK
<1>1. TypeInv => TypeOK
  BY DEF TypeInv
<1>2. QED
  BY <1>1, TypeInit, TypeStep, PTL DEF Spec

-----------------------------------------------------------------------------
(* Frames on their way and frames at work *)

\* Every frame there is, and those still carried to the receiver.
AllFrames == InTransit \cup AtWork
Carried == InTransit \cup Frames(a.held) \cup UNION {Frames(k.out) : k \in calls}
NodeFrames(n) == n.pending_sends \cup Frames(n.held) \cup Frames(n.outbox)

\* The frames of a queue that was added to, taken from or emptied.
LEMMA QueueFrames ==
    ASSUME NEW q \in Seq(Frame)
    PROVE  /\ FramesOf(q) \in SUBSET Frame
           /\ FramesOf(<<>>) = {}
           /\ \A f \in Frame : FramesOf(Append(q, f)) = FramesOf(q) \cup {f}
           /\ \A r \in Seq(Frame) : FramesOf(q \o r) = FramesOf(q) \cup FramesOf(r)
           /\ q # <<>> => FramesOf(q) = FramesOf(Tail(q)) \cup {Head(q)}
<1>1. FramesOf(q) \in SUBSET Frame /\ FramesOf(<<>>) = {}
  BY DEF FramesOf
<1>2. ASSUME NEW f \in Frame PROVE FramesOf(Append(q, f)) = FramesOf(q) \cup {f}
  <2> DEFINE p == Append(q, f)
  <2>1. /\ DOMAIN p = 1 .. (Len(q) + 1) /\ DOMAIN q = 1 .. Len(q) /\ Len(q) \in Nat
        /\ p[Len(q) + 1] = f /\ \A i \in 1 .. Len(q) : p[i] = q[i]
    OBVIOUS
  <2> HIDE DEF p
  <2>2. \A i \in 1 .. (Len(q) + 1) : i \in 1 .. Len(q) \/ i = Len(q) + 1
    BY <2>1
  <2>3. Len(q) + 1 \in 1 .. (Len(q) + 1) /\ \A i \in 1 .. Len(q) : i \in 1 .. (Len(q) + 1)
    BY <2>1
  <2>4. FramesOf(p) = FramesOf(q) \cup {f}
    BY <2>1, <2>2, <2>3 DEF FramesOf
  <2>5. QED BY <2>4 DEF p
<1>3. ASSUME NEW r \in Seq(Frame) PROVE FramesOf(q \o r) = FramesOf(q) \cup FramesOf(r)
  <2> DEFINE p == q \o r
             n == Len(q)
             m == Len(r)
  <2>1. /\ DOMAIN p = 1 .. (n + m) /\ DOMAIN q = 1 .. n /\ DOMAIN r = 1 .. m
        /\ n \in Nat /\ m \in Nat
        /\ \A i \in 1 .. (n + m) : p[i] = IF i <= n THEN q[i] ELSE r[i - n]
    OBVIOUS
  <2> HIDE DEF p, n, m
  <2>2. \A i \in 1 .. n : i \in 1 .. (n + m) /\ p[i] = q[i]
    BY <2>1
  <2>3. \A i \in 1 .. m : n + i \in 1 .. (n + m) /\ p[n + i] = r[i]
    BY <2>1
  <2>4. \A i \in 1 .. (n + m) : i \in 1 .. n \/ i - n \in 1 .. m
    BY <2>1
  <2>5. \A i \in 1 .. (n + m) : (i \in 1 .. n /\ p[i] = q[i]) \/ (i - n \in 1 .. m /\ p[i] = r[i - n])
    BY <2>1, <2>4
  <2>6. FramesOf(p) \subseteq FramesOf(q) \cup FramesOf(r)
    <3>1. ASSUME NEW i \in 1 .. (n + m) PROVE p[i] \in FramesOf(q) \cup FramesOf(r)
      <4>1. CASE i \in 1 .. n /\ p[i] = q[i]
        BY <2>1, <4>1 DEF FramesOf
      <4>2. CASE i - n \in 1 .. m /\ p[i] = r[i - n]
        BY <2>1, <4>2 DEF FramesOf
      <4>3. QED BY <2>5, <4>1, <4>2
    <3>2. QED BY <2>1, <3>1 DEF FramesOf
  <2>7. FramesOf(q) \cup FramesOf(r) \subseteq FramesOf(p)
    <3>1. \A i \in 1 .. n : q[i] \in FramesOf(p)
      BY <2>1, <2>2 DEF FramesOf
    <3>2. \A i \in 1 .. m : r[i] \in FramesOf(p)
      <4>1. \A j \in 1 .. (n + m) : p[j] \in FramesOf(p)
        BY <2>1 DEF FramesOf
      <4>2. QED BY <2>3, <4>1
    <3>3. QED BY <2>1, <3>1, <3>2 DEF FramesOf
  <2>8. QED BY <2>6, <2>7 DEF p
<1>4. ASSUME q # <<>> PROVE FramesOf(q) = FramesOf(Tail(q)) \cup {Head(q)}
  <2> DEFINE t == Tail(q)
             n == Len(q)
  <2>1. /\ DOMAIN t = 1 .. (n - 1) /\ DOMAIN q = 1 .. n /\ n \in Nat \ {0} /\ Head(q) = q[1]
        /\ \A i \in 1 .. (n - 1) : t[i] = q[i + 1]
    BY <1>4
  <2> HIDE DEF t, n
  <2>2. \A i \in 1 .. n : i = 1 \/ (i - 1 \in 1 .. (n - 1) /\ t[i - 1] = q[i])
    BY <2>1
  <2>3. 1 \in 1 .. n /\ \A i \in 1 .. (n - 1) : i + 1 \in 1 .. n
    BY <2>1
  <2>4. FramesOf(q) \subseteq FramesOf(t) \cup {Head(q)}
    <3>1. ASSUME NEW i \in 1 .. n PROVE q[i] \in FramesOf(t) \cup {Head(q)}
      <4>1. CASE i = 1
        BY <2>1, <4>1
      <4>2. CASE i - 1 \in 1 .. (n - 1) /\ t[i - 1] = q[i]
        BY <2>1, <4>2 DEF FramesOf
      <4>3. QED BY <2>2, <4>1, <4>2
    <3>2. QED BY <2>1, <3>1 DEF FramesOf
  <2>5. FramesOf(t) \cup {Head(q)} \subseteq FramesOf(q)
    BY <2>1, <2>3 DEF FramesOf
  <2>6. QED BY <2>4, <2>5 DEF t
<1>5. QED BY <1>1, <1>2, <1>3, <1>4

\* A recall takes one frame out of one mailbox, the one it names.
LEMMA RecallTakesOne ==
    ASSUME NetOK, NEW c \in Copy, RecallOk(c)
    PROVE  /\ c.relay \in Relays
           /\ Recalled(c) \in Seq(Frame)
           /\ FramesOf(Recalled(c)) \subseteq FramesOf(mailbox[c.relay])
           /\ \A f \in FramesOf(mailbox[c.relay]) : f # c.frame => f \in FramesOf(Recalled(c))
<1> DEFINE q == mailbox[c.relay]
           last == CHOOSE i \in Places(c) : \A j \in Places(c) : j <= i
<1>1. c.relay \in Relays /\ q \in Seq(Frame) /\ Places(c) # {}
  BY DEF RecallOk, NetOK
<1>2. DOMAIN q = 1 .. Len(q) /\ Len(q) \in Nat /\ \A i \in 1 .. Len(q) : q[i] \in Frame
  BY <1>1
<1>3. last \in 1 .. Len(q) /\ q[last] = c.frame
  <2>1. Places(c) \in SUBSET (1 .. Len(q)) /\ \A i \in Places(c) : q[i] = c.frame
    BY <1>2 DEF Places
  <2>2. IsFiniteSet(Places(c)) /\ Places(c) \in SUBSET Nat
    <3>1. 1 \in Int /\ Len(q) \in Int
      BY <1>2
    <3>2. IsFiniteSet(1 .. Len(q))
      BY <3>1, FS_Interval
    <3>3. QED BY <1>2, <2>1, <3>2, FS_Subset
  <2>3. \E i \in Places(c) : \A j \in Places(c) : j <= i
    BY <1>1, <2>2, LargestOf
  <2>4. last \in Places(c)
    BY <2>3
  <2>5. QED BY <2>1, <2>4
<1>4. Recalled(c) = [j \in 1 .. (Len(q) - 1) |-> q[IF j < last THEN j ELSE j + 1]]
  BY DEF Recalled
<1> HIDE DEF q, last
<1> DEFINE p == Recalled(c)
           n == Len(q)
<1>5. /\ DOMAIN p = 1 .. (n - 1) /\ n - 1 \in Nat
      /\ \A j \in 1 .. (n - 1) : (IF j < last THEN j ELSE j + 1) \in 1 .. n
      /\ \A j \in 1 .. (n - 1) : p[j] = q[IF j < last THEN j ELSE j + 1]
  BY <1>2, <1>3, <1>4
<1>6. \A j \in 1 .. (n - 1) : p[j] \in Frame
  BY <1>2, <1>5
<1>7. p \in Seq(Frame)
  <2>1. p \in [1 .. (n - 1) -> Frame]
    BY <1>4, <1>6
  <2>2. QED BY <1>5, <2>1
<1>8. \A i \in 1 .. n : q[i] # c.frame => \E j \in 1 .. (n - 1) : p[j] = q[i]
  <2> SUFFICES ASSUME NEW i \in 1 .. n, q[i] # c.frame PROVE \E j \in 1 .. (n - 1) : p[j] = q[i]
    OBVIOUS
  <2>1. i # last
    BY <1>3
  <2>2. CASE i < last
    <3>1. i \in 1 .. (n - 1) /\ p[i] = q[i]
      BY <1>2, <1>3, <1>5, <2>2
    <3>2. QED BY <3>1
  <2>3. CASE i > last
    <3>1. i - 1 \in 1 .. (n - 1) /\ ~(i - 1 < last) /\ (i - 1) + 1 = i
      BY <1>2, <1>3, <1>5, <2>3
    <3>2. p[i - 1] = q[i]
      BY <1>5, <3>1
    <3>3. QED BY <3>1, <3>2
  <2>4. QED BY <1>2, <1>3, <2>1, <2>2, <2>3
<1> HIDE DEF p, n
<1>9. FramesOf(p) \subseteq FramesOf(q)
  BY <1>2, <1>5 DEF FramesOf, n
<1>10. \A f \in FramesOf(q) : f # c.frame => f \in FramesOf(p)
  BY <1>2, <1>5, <1>8 DEF FramesOf, n
<1>11. QED
  BY <1>1, <1>7, <1>9, <1>10 DEF p, q

\* Whatever the relays keep for the receiver.
MailFrames == UNION {FramesOf(mailbox[r]) : r \in Relays}

\* A post adds one frame to the mailboxes, where it is taken.
LEMMA PostAdds ==
    ASSUME NetOK, NEW f \in Frame, NEW took \in SUBSET Relays, NEW stray \in SUBSET Relays,
           Post(f, took, stray)
    PROVE  /\ MailFrames \subseteq MailFrames' /\ MailFrames' \subseteq MailFrames \cup {f}
           /\ took # {} => f \in MailFrames'
<1>1. mailbox' = [r \in Relays |-> IF r \in took \cup stray THEN Append(mailbox[r], f)
                                   ELSE mailbox[r]]
  BY DEF Post
<1>2. \A r \in Relays : mailbox[r] \in Seq(Frame)
  BY DEF NetOK
<1>3. \A r \in Relays : FramesOf(mailbox'[r]) = IF r \in took \cup stray
                                                THEN FramesOf(mailbox[r]) \cup {f}
                                                ELSE FramesOf(mailbox[r])
  BY <1>1, <1>2, QueueFrames
<1>4. MailFrames \subseteq MailFrames'
  <2>1. \A r \in Relays : FramesOf(mailbox[r]) \subseteq FramesOf(mailbox'[r])
    BY ONLY <1>3
  <2>2. QED BY ONLY <2>1 DEF MailFrames
<1>5. MailFrames' \subseteq MailFrames \cup {f}
  <2>1. \A r \in Relays : FramesOf(mailbox'[r]) \subseteq FramesOf(mailbox[r]) \cup {f}
    BY ONLY <1>3
  <2>2. QED BY ONLY <2>1 DEF MailFrames
<1>6. took # {} => f \in MailFrames'
  BY <1>3 DEF MailFrames
<1>7. QED BY ONLY <1>4, <1>5, <1>6

\* A frame that goes out over a route is on its way unless the delivery
\* failed, and only that frame is.
LEMMA RunAdds ==
    ASSUME NetOK, NEW f \in Frame, NEW route, NEW d, Run(f, route, d), drained' = drained
    PROVE  /\ InTransit \subseteq InTransit' /\ InTransit' \subseteq InTransit \cup {f}
           /\ d.via # "Failed" => f \in InTransit'
           /\ \A c \in d.copies : c.frame = f
<1>1. CASE RunDirect(f, route, d)
  BY <1>1 DEF RunDirect, InTransit
<1>2. ASSUME NEW took \in SUBSET Relays, NEW stray \in SUBSET Relays, RunRelay(f, took, stray, d)
      PROVE  /\ InTransit \subseteq InTransit' /\ InTransit' \subseteq InTransit \cup {f}
             /\ d.via # "Failed" => f \in InTransit'
             /\ \A c \in d.copies : c.frame = f
  <2>1. /\ MailFrames \subseteq MailFrames' /\ MailFrames' \subseteq MailFrames \cup {f}
        /\ took # {} => f \in MailFrames'
    BY <1>2, PostAdds DEF RunRelay
  <2>2. wire' = wire /\ d = IF took = {} THEN NotSent ELSE [via |-> "Relay", copies |-> Copies(f, took)]
    BY <1>2 DEF RunRelay
  <2>3. \A c \in Copies(f, took) : c.frame = f
    BY DEF Copies
  <2>4. (d.via # "Failed" => took # {}) /\ \A c \in d.copies : c.frame = f
    BY <2>2, <2>3 DEF NotSent
  <2>5. InTransit = wire \cup FramesOf(drained) \cup MailFrames
        /\ InTransit' = wire' \cup FramesOf(drained') \cup MailFrames'
    BY DEF InTransit, MailFrames
  <2>6. QED
    BY <2>1, <2>2, <2>4, <2>5
<1>3. QED
  BY <1>1, <1>2 DEF Run

\* What is still at the receiver's end when a frame is taken in: every frame
\* but the one that is processed.
LEMMA TakenIn ==
    ASSUME ReceiverOK, NetOK
    PROVE  /\ \A f \in wire : Pump(f) => /\ f \in InTransit /\ InTransit' \subseteq InTransit
                                         /\ \A g \in InTransit : g = f \/ g \in InTransit'
           /\ \A r \in Relays : TakeMailbox(r) => InTransit' = InTransit
           /\ ApplyHarvest => /\ Head(drained) \in InTransit /\ InTransit' \subseteq InTransit
                              /\ \A g \in InTransit : g = Head(drained) \/ g \in InTransit'
<1>1. ASSUME NEW f \in wire, Pump(f)
      PROVE  /\ f \in InTransit /\ InTransit' \subseteq InTransit
             /\ \A g \in InTransit : g = f \/ g \in InTransit'
  BY <1>1 DEF Pump, InTransit
<1>2. ASSUME NEW r \in Relays, TakeMailbox(r) PROVE InTransit' = InTransit
  <2>1. drained' = drained \o mailbox[r] /\ mailbox' = [mailbox EXCEPT ![r] = <<>>] /\ wire' = wire
    BY <1>2 DEF TakeMailbox
  <2>2. drained \in Seq(Frame) /\ \A s \in Relays : mailbox[s] \in Seq(Frame)
    BY DEF NetOK, ReceiverOK
  <2>3. FramesOf(drained') = FramesOf(drained) \cup FramesOf(mailbox[r]) /\ FramesOf(<<>>) = {}
    BY <2>1, <2>2, QueueFrames
  <2>4. \A s \in Relays : mailbox'[s] = IF s = r THEN <<>> ELSE mailbox[s]
    BY <2>1 DEF NetOK
  <2>5. MailFrames = FramesOf(mailbox[r]) \cup MailFrames'
    BY <2>3, <2>4 DEF MailFrames
  <2>6. InTransit = wire \cup FramesOf(drained) \cup MailFrames
        /\ InTransit' = wire' \cup FramesOf(drained') \cup MailFrames'
    BY DEF InTransit, MailFrames
  <2>7. QED BY <2>1, <2>3, <2>5, <2>6
<1>3. ASSUME ApplyHarvest
      PROVE  /\ Head(drained) \in InTransit /\ InTransit' \subseteq InTransit
             /\ \A g \in InTransit : g = Head(drained) \/ g \in InTransit'
  <2>1. drained # <<>> /\ drained' = Tail(drained) /\ UNCHANGED <<wire, mailbox>>
    BY <1>3 DEF ApplyHarvest, netVars
  <2>2. drained \in Seq(Frame)
    BY DEF ReceiverOK
  <2>3. FramesOf(drained) = FramesOf(drained') \cup {Head(drained)}
    BY <2>1, <2>2, QueueFrames
  <2>4. QED BY <2>1, <2>3 DEF InTransit
<1>4. QED BY <1>1, <1>2, <1>3

\* A recall takes a frame of one mailbox back, the frame of the copy.
LEMMA RecallLeaves ==
    ASSUME NetOK, NEW k, NEW c \in Copy, RecallCopy(k, c)
    PROVE  /\ InTransit' \subseteq InTransit
           /\ \A f \in InTransit : f # c.frame => f \in InTransit'
<1>1. UNCHANGED <<wire, drained>>
  BY DEF RecallCopy, receiverVars
<1>2. CASE mailbox' = mailbox
  BY <1>1, <1>2 DEF InTransit
<1>3. CASE RecallOk(c) /\ mailbox' = [mailbox EXCEPT ![c.relay] = Recalled(c)]
  <2>1. /\ c.relay \in Relays
        /\ FramesOf(Recalled(c)) \subseteq FramesOf(mailbox[c.relay])
        /\ \A f \in FramesOf(mailbox[c.relay]) : f # c.frame => f \in FramesOf(Recalled(c))
    BY <1>3, RecallTakesOne
  <2>2. \A s \in Relays : mailbox'[s] = IF s = c.relay THEN Recalled(c) ELSE mailbox[s]
    BY <1>3 DEF NetOK
  <2>3. MailFrames' \subseteq MailFrames /\ \A f \in MailFrames : f # c.frame => f \in MailFrames'
    BY <2>1, <2>2 DEF MailFrames
  <2>4. InTransit = wire \cup FramesOf(drained) \cup MailFrames
        /\ InTransit' = wire' \cup FramesOf(drained') \cup MailFrames'
    BY DEF InTransit, MailFrames
  <2>5. QED BY <1>1, <2>3, <2>4
<1>4. QED
  BY <1>2, <1>3 DEF RecallCopy

\* What the node functions leave as it was: which messages there are and
\* which of them are deleted, and the frames at work, to which a tick adds
\* those of the outcomes it holds and the messages it seals again.
Follows(n, m, outs) ==
    /\ \A id \in Ids : m.hist[id].kind = n.hist[id].kind
    /\ m.pending_sends = n.pending_sends
    /\ Frames(n.held) \subseteq Frames(m.held)
    /\ n.seal <= m.seal
    /\ \A o \in m.outbox : o \in n.outbox \/ o.done = "Held" \/ o.frame.kind = "Message"
    /\ \A f \in NodeFrames(m) : \/ f \in NodeFrames(n) \/ f \in Frames(outs)
                                \/ f.kind = "Message" /\ n.seal < f.seal /\ f.seal <= m.seal
    /\ \A id \in Ids : \A c \in m.relay_receipts[id] :
         c \in n.relay_receipts[id] \/ \E o \in outs : c \in o.copies

\* One after the other.
LEMMA FollowsTwice ==
    ASSUME NEW n, NodeOK(n), NEW m, NodeOK(m), NEW p, NodeOK(p), NEW outs,
           Follows(n, m, outs), Follows(m, p, outs)
    PROVE  Follows(n, p, outs)
<1>1. n.seal \in Nat /\ m.seal \in Nat /\ p.seal \in Nat
  BY NodeParts, DeliveryAssumption DEF Seals
<1>2. n.seal <= p.seal
  BY <1>1 DEF Follows
<1>3. \A f \in NodeFrames(p) : f.kind = "Message" /\ m.seal < f.seal /\ f.seal <= p.seal
                                 => f.seal \in Nat
  BY NodeParts, DeliveryAssumption DEF NodeFrames, Frames, HeldSend, Outbound, Frame, Seals
<1>4. \A f \in NodeFrames(m) : f.seal \in Nat
  BY NodeParts, DeliveryAssumption DEF NodeFrames, Frames, HeldSend, Outbound, Frame, Seals
<1>5. \A f \in NodeFrames(p) : \/ f \in NodeFrames(n) \/ f \in Frames(outs)
                               \/ f.kind = "Message" /\ n.seal < f.seal /\ f.seal <= p.seal
  <2> SUFFICES ASSUME NEW f \in NodeFrames(p)
               PROVE  \/ f \in NodeFrames(n) \/ f \in Frames(outs)
                      \/ f.kind = "Message" /\ n.seal < f.seal /\ f.seal <= p.seal
    OBVIOUS
  <2>1. CASE f \in NodeFrames(m)
    BY <1>1, <1>4, <2>1 DEF Follows
  <2>2. CASE f.kind = "Message" /\ m.seal < f.seal /\ f.seal <= p.seal
    BY <1>1, <1>3, <2>2 DEF Follows
  <2>3. QED BY <2>1, <2>2 DEF Follows
<1>6. QED
  BY <1>2, <1>5 DEF Follows

\* flush_held_for queues frames that are held and stay held.
LEMMA FlushFollows ==
    ASSUME NEW n, NodeOK(n), NEW d, NEW r, NEW outs
    PROVE  /\ Follows(n, FlushHeld(n, d, r), outs)
           /\ Frames(FlushHeld(n, d, r).held) = Frames(n.held)
           /\ FlushHeld(n, d, r).relay_receipts = n.relay_receipts
<1> DEFINE idle == {h \in n.held : ~h.in_flight}
           go == IF HasRelayRoute THEN idle ELSE IF r THEN Oldest(n.held) \cap idle ELSE {}
           route == IF HasRelayRoute /\ ~d THEN "RelayOnly" ELSE "DirectThenRelay"
           up == {[h EXCEPT !.in_flight = TRUE] : h \in go}
           held == (n.held \ go) \cup up
           out == n.outbox \cup {[frame |-> h.frame, route |-> route, done |-> "Held"] : h \in go}
           m == [n EXCEPT !.held = held, !.outbox = out]
<1>1. FlushHeld(n, d, r) = m
  BY DEF FlushHeld
<1>2. go \in SUBSET n.held /\ \A h \in n.held : h \in HeldSend
  BY NodeParts
<1> HIDE DEF go, route
<1>3. \A h \in go : [h EXCEPT !.in_flight = TRUE].frame = h.frame
  BY <1>2 DEF HeldSend
<1>4. Frames(held) = Frames(n.held)
  <2>1. \A h \in held : \E g \in n.held : h.frame = g.frame
    BY ONLY <1>2, <1>3
  <2>2. \A g \in n.held : \E h \in held : h.frame = g.frame
    <3>1. \A g \in go : [g EXCEPT !.in_flight = TRUE] \in held
      OBVIOUS
    <3>2. \A g \in n.held : g \in go \/ g \in held
      OBVIOUS
    <3> HIDE DEF held
    <3>3. QED BY ONLY <1>3, <3>1, <3>2
  <2> HIDE DEF held
  <2>3. QED BY ONLY <2>1, <2>2 DEF Frames
<1>5. \A o \in out : o \in n.outbox \/ (o.done = "Held" /\ o.frame \in Frames(n.held))
  BY <1>2 DEF Frames
<1> HIDE DEF held, out
<1>6. /\ m.hist = n.hist /\ m.pending_sends = n.pending_sends /\ m.held = held /\ m.outbox = out
      /\ m.seal = n.seal /\ m.relay_receipts = n.relay_receipts
  BY NodeParts
<1> HIDE DEF m
<1>7. n.seal \in Nat
  BY NodeParts, DeliveryAssumption DEF Seals
<1>8. \A f \in NodeFrames(m) : f \in NodeFrames(n)
  BY <1>4, <1>5, <1>6 DEF NodeFrames, Frames
<1>9. Follows(n, m, outs)
  BY <1>4, <1>5, <1>6, <1>7, <1>8 DEF Follows
<1>10. QED
  BY <1>1, <1>4, <1>6, <1>9

\* What it queues is held.
LEMMA FlushQueuesHeld ==
    ASSUME NEW n, NodeOK(n), NEW d, NEW r
    PROVE  \A o \in FlushHeld(n, d, r).outbox : o \in n.outbox \/ o.done = "Held"
<1> DEFINE idle == {h \in n.held : ~h.in_flight}
           go == IF HasRelayRoute THEN idle ELSE IF r THEN Oldest(n.held) \cap idle ELSE {}
           route == IF HasRelayRoute /\ ~d THEN "RelayOnly" ELSE "DirectThenRelay"
           held == (n.held \ go) \cup {[h EXCEPT !.in_flight = TRUE] : h \in go}
           out == n.outbox \cup {[frame |-> h.frame, route |-> route, done |-> "Held"] : h \in go}
<1>1. FlushHeld(n, d, r) = [n EXCEPT !.held = held, !.outbox = out]
  BY DEF FlushHeld
<1>2. \A o \in out : o \in n.outbox \/ o.done = "Held"
  OBVIOUS
<1> HIDE DEF held, out
<1>3. QED BY <1>1, <1>2, NodeParts

\* A receipt marks messages and may flush.
LEMMA ReceiptedFollows ==
    ASSUME NEW n, NodeOK(n), NEW ids, NEW d, NEW outs
    PROVE  Follows(n, Receipted(n, ids, d), outs)
<1> DEFINE h == [id \in Ids |-> IF id \in ids /\ Present(n.hist[id])
                                THEN [n.hist[id] EXCEPT !.delivery = "delivered"]
                                ELSE n.hist[id]]
           m == [n EXCEPT !.hist = h, !.awaiting_receipt = @ \ ids]
<1>1. h \in [Ids -> Sent] /\ \A id \in Ids : h[id].kind = n.hist[id].kind
  <2>1. \A id \in Ids : n.hist[id] \in Sent /\ [n.hist[id] EXCEPT !.delivery = "delivered"] \in Sent
    BY SetBadge, NodeParts DEF Badges
  <2>2. \A id \in Ids : [n.hist[id] EXCEPT !.delivery = "delivered"].kind = n.hist[id].kind
    BY <2>1 DEF Sent
  <2>3. QED BY <2>1, <2>2
<1>2. Receipted(n, ids, d) = IF d /\ ids # {} THEN FlushHeld(m, TRUE, TRUE) ELSE m
  BY DEF Receipted
<1> HIDE DEF h
<1>3. n.awaiting_receipt \ ids \in SUBSET Ids
  BY NodeParts
<1>4. NodeOK(m)
  BY <1>1, <1>3 DEF NodeOK, Node
<1>5. /\ m.hist = h /\ m.pending_sends = n.pending_sends /\ m.held = n.held /\ m.outbox = n.outbox
      /\ m.seal = n.seal /\ m.relay_receipts = n.relay_receipts
  BY NodeParts
<1> HIDE DEF m
<1>6. n.seal \in Nat
  BY NodeParts, DeliveryAssumption DEF Seals
<1>7. Follows(n, m, outs)
  BY <1>1, <1>5, <1>6 DEF Follows, NodeFrames
<1>8. Follows(n, FlushHeld(m, TRUE, TRUE), outs)
  <2>1. Follows(m, FlushHeld(m, TRUE, TRUE), outs) /\ NodeOK(FlushHeld(m, TRUE, TRUE))
    BY <1>4, FlushFollows, FlushTyped
  <2>2. QED BY <1>4, <1>7, <2>1, FollowsTwice
<1>9. QED
  BY <1>2, <1>7, <1>8

\* Frames that are held stay held, the new ones are held too.
LEMMA HoldFrames ==
    ASSUME NEW held, NEW frames
    PROVE  Frames(Hold(held, frames)) = Frames(held) \cup frames
<1> DEFINE at(f) == Newest(held) + Cardinality({g \in frames : g.seal <= f.seal})
           New == {[frame |-> f, in_flight |-> FALSE, at |-> at(f)] : f \in frames}
<1>1. Hold(held, frames) = held \cup New
  BY DEF Hold
<1> HIDE DEF at
<1>2. \A h \in New : h.frame \in frames
  OBVIOUS
<1>3. \A f \in frames : \E h \in New : h.frame = f
  <2>1. \A f \in frames : [frame |-> f, in_flight |-> FALSE, at |-> at(f)] \in New
    OBVIOUS
  <2> HIDE DEF New
  <2>2. QED BY <2>1
<1> HIDE DEF New
<1>4. QED BY <1>1, <1>2, <1>3 DEF Frames

\* The outcomes of sends: badges, copies, and the frames of failures held.
LEMMA OutcomesFollow ==
    ASSUME NEW n, NodeOK(n), NEW outs \in SUBSET Outcome
    PROVE  Follows(n, ApplySendOutcomes(n, outs), outs)
<1> DEFINE Of(id) == {o \in outs : o.frame.id = id}
           failed == {o \in outs : ~o.delivered /\ o.copies = {}}
           badge(o) == IF o.delivered THEN "sent"
                       ELSE IF o \in failed /\ ~HasRelayRoute THEN "waiting" ELSE "queued"
           h == [id \in Ids |-> IF Of(id) # {} /\ Present(n.hist[id])
                                THEN [n.hist[id] EXCEPT !.delivery =
                                        badge(CHOOSE o \in Of(id) : TRUE)]
                                ELSE n.hist[id]]
           r == [id \in Ids |-> IF \E o \in Of(id) : ~o.delivered /\ o.copies # {}
                                THEN UNION {o.copies : o \in Of(id)} ELSE n.relay_receipts[id]]
           w == n.awaiting_receipt \cup {o.frame.id : o \in {p \in outs : p.delivered}}
           q == Hold(n.held, {o.frame : o \in failed})
           m == [n EXCEPT !.hist = h, !.relay_receipts = r, !.awaiting_receipt = w, !.held = q]
<1>1. ApplySendOutcomes(n, outs) = m
  BY DEF ApplySendOutcomes
<1>2. \A id \in Ids : h[id].kind = n.hist[id].kind
  <2> HIDE DEF badge, Of
  <2>1. \A id \in Ids : n.hist[id] \in Sent
    BY NodeParts
  <2>2. QED BY <2>1 DEF Sent
<1>3. \A id \in Ids : \A c \in r[id] : c \in n.relay_receipts[id] \/ \E o \in outs : c \in o.copies
  OBVIOUS
<1>4. Frames(q) = Frames(n.held) \cup {o.frame : o \in failed}
  BY HoldFrames
<1>5. {o.frame : o \in failed} \subseteq Frames(outs)
  BY DEF Frames
<1> HIDE DEF failed, h, r, w, q
<1>6. /\ m.hist = h /\ m.pending_sends = n.pending_sends /\ m.held = q /\ m.outbox = n.outbox
      /\ m.seal = n.seal /\ m.relay_receipts = r
  BY NodeParts
<1> HIDE DEF m
<1>7. n.seal \in Nat
  BY NodeParts, DeliveryAssumption DEF Seals
<1>8. \A f \in NodeFrames(m) : f \in NodeFrames(n) \/ f \in Frames(outs)
  BY <1>4, <1>5, <1>6 DEF NodeFrames
<1>9. Frames(n.held) \subseteq Frames(m.held)
  BY <1>4, <1>6
<1>10. QED
  BY <1>1, <1>2, <1>3, <1>6, <1>7, <1>8, <1>9 DEF Follows

\* The receipt sweep seals messages again, each under a new key.
LEMMA SweepFollows ==
    ASSUME NEW n, NodeOK(n), NEW ids \in SUBSET Ids, NEW outs
    PROVE  Follows(n, SweepUnconfirmed(n, ids), outs)
<1> DEFINE again == Unconfirmed(n, ids)
           seal(id) == n.seal + Cardinality({j \in again : j <= id})
           route == IF HasRelayRoute THEN "RelayOnly" ELSE "DirectThenRelay"
           New == {[frame |-> Message(id, n.hist[id].text, seal(id)),
                                  route |-> route, done |-> "Unconfirmed"] : id \in again}
           out == n.outbox \cup New
           top == n.seal + Cardinality(again)
           m == [n EXCEPT !.awaiting_receipt = @ \ ids, !.seal = top, !.outbox = out]
<1>1. SweepUnconfirmed(n, ids) = m
  BY DEF SweepUnconfirmed
<1>2. again \in SUBSET Ids /\ IsFiniteSet(again) /\ Cardinality(again) \in Nat
  <2>1. again \in SUBSET Ids
    BY DEF Unconfirmed
  <2>2. QED BY <2>1, DeliveryAssumption, FS_Subset, FS_CardinalityType
<1>3. n.seal \in Nat
  BY NodeParts, DeliveryAssumption DEF Seals
<1>4. \A id \in again : n.seal < seal(id) /\ seal(id) <= top
  <2> HIDE DEF again
  <2>1. ASSUME NEW id \in again PROVE n.seal < seal(id) /\ seal(id) <= top
    <3> DEFINE upto == {j \in again : j <= id}
    <3>1. upto \in SUBSET again /\ id \in upto
      BY <1>2, DeliveryAssumption
    <3>2. IsFiniteSet(upto) /\ Cardinality(upto) \in Nat /\ Cardinality(upto) <= Cardinality(again)
      BY <1>2, <3>1, FS_Subset, FS_CardinalityType
    <3>3. Cardinality(upto) # 0
      BY <3>1, <3>2, FS_EmptySet
    <3> HIDE DEF upto
    <3>4. n.seal < n.seal + Cardinality(upto) /\ n.seal + Cardinality(upto) <= top
      BY <1>2, <1>3, <3>2, <3>3
    <3>5. QED BY <3>4 DEF upto
  <2>2. QED BY <2>1
<1>5. n.seal <= top
  BY <1>2, <1>3
<1>6. \A o \in New : o.frame.kind = "Message" /\ n.seal < o.frame.seal /\ o.frame.seal <= top
  <2> HIDE DEF again, seal, top
  <2>1. QED BY <1>4 DEF Message
<1> HIDE DEF New, top
<1>7. /\ m.hist = n.hist /\ m.pending_sends = n.pending_sends /\ m.held = n.held
      /\ m.outbox = n.outbox \cup New /\ m.seal = top /\ m.relay_receipts = n.relay_receipts
  BY NodeParts
<1> HIDE DEF m
<1>8. \A f \in NodeFrames(m) : \/ f \in NodeFrames(n)
                               \/ f.kind = "Message" /\ n.seal < f.seal /\ f.seal <= m.seal
  BY <1>6, <1>7 DEF NodeFrames, Frames
<1>9. QED
  BY <1>1, <1>5, <1>6, <1>7, <1>8 DEF Follows

\* The whole tick.
LEMMA TickFollows ==
    ASSUME TypeInv, NEW direct, NEW relayed, NEW due, NEW timed \in SUBSET Ids, NEW may_retry,
           a.seal + Cardinality(timed) <= MaxSeal
    PROVE  Follows(a, TickNode(direct, relayed, due, timed, may_retry), outcomes)
<1> DEFINE pumped == Receipted(a, direct, TRUE)
           harvested == Receipted(pumped, relayed, FALSE)
           applied == ApplySendOutcomes(harvested, outcomes)
           flushed == FlushHeld(applied, FALSE, may_retry)
           swept == SweepUnconfirmed(flushed, timed)
<1>1. TickNode(direct, relayed, due, timed, may_retry) = IF due THEN swept ELSE applied
  BY DEF TickNode
<1>2. NodeOK(a) /\ outcomes \in SUBSET Outcome /\ IsFiniteSet(outcomes)
  BY DEF TypeInv, TypeOK, Finite, NodeOK
<1>3. NodeOK(pumped) /\ pumped.seal = a.seal /\ Follows(a, pumped, outcomes)
  <2>1. \A x, y : NodeOK(Receipted(a, x, y)) /\ Receipted(a, x, y).seal = a.seal
                  /\ Follows(a, Receipted(a, x, y), outcomes)
    BY <1>2, ReceiptedTyped, ReceiptedFollows
  <2>2. QED BY <2>1
<1> HIDE DEF pumped
<1>4. NodeOK(harvested) /\ harvested.seal = a.seal /\ Follows(pumped, harvested, outcomes)
  <2>1. \A x, y : NodeOK(Receipted(pumped, x, y)) /\ Receipted(pumped, x, y).seal = pumped.seal
                  /\ Follows(pumped, Receipted(pumped, x, y), outcomes)
    BY <1>3, ReceiptedTyped, ReceiptedFollows
  <2>2. QED BY <1>3, <2>1
<1> HIDE DEF harvested
<1>5. NodeOK(applied) /\ applied.seal = a.seal /\ Follows(harvested, applied, outcomes)
  BY <1>2, <1>4, OutcomesTyped, OutcomesFollow
<1> HIDE DEF applied
<1>6. NodeOK(flushed) /\ flushed.seal = a.seal /\ Follows(applied, flushed, outcomes)
  <2>1. \A x, y : NodeOK(FlushHeld(applied, x, y)) /\ FlushHeld(applied, x, y).seal = applied.seal
                  /\ Follows(applied, FlushHeld(applied, x, y), outcomes)
    BY <1>5, FlushTyped, FlushFollows
  <2>2. QED BY <1>5, <2>1
<1> HIDE DEF flushed
<1>7. NodeOK(swept) /\ Follows(flushed, swept, outcomes)
  BY <1>6, SweepTyped, SweepFollows
<1> HIDE DEF swept
<1>8. Follows(a, applied, outcomes)
  BY <1>2, <1>3, <1>4, <1>5, FollowsTwice
<1>9. Follows(a, swept, outcomes)
  BY <1>2, <1>5, <1>6, <1>7, <1>8, FollowsTwice
<1>10. QED
  BY <1>1, <1>8, <1>9

\* The outcome of a held frame: it stays held unless it got away.
LEMMA HeldFollows ==
    ASSUME NEW n, NodeOK(n), NEW x \in Finished
    PROVE  LET m == ApplyHeld(n, x)
           IN  /\ \A id \in Ids : m.hist[id].kind = n.hist[id].kind
               /\ m.pending_sends = n.pending_sends /\ m.seal = n.seal
               /\ \A f \in Frames(n.held) : \/ f \in Frames(m.held)
                                            \/ f = x.out.frame /\ x.delivery.via # "Failed"
               /\ NodeFrames(m) \subseteq NodeFrames(n)
               /\ \A o \in m.outbox : o \in n.outbox \/ o.done = "Held"
               /\ \A id \in Ids : \A c \in m.relay_receipts[id] :
                    \/ c \in n.relay_receipts[id]
                    \/ x.out.frame.kind = "Message" /\ c \in x.delivery.copies
<1> DEFINE f == x.out.frame
           entry == {h \in n.held : h.frame = f}
           direct == x.delivery.via = "Direct"
           named == f.kind = "Message"
           rest == n.held \ entry
           h2 == [n.hist EXCEPT ![f.id] = IF named /\ Present(@)
                                          THEN [@ EXCEPT !.delivery = IF direct THEN "sent" ELSE "queued"] ELSE @]
           r2 == [n.relay_receipts EXCEPT ![f.id] = IF named /\ ~direct THEN x.delivery.copies ELSE @]
           w2 == IF named /\ direct THEN n.awaiting_receipt \cup {f.id} ELSE n.awaiting_receipt
           landed == [n EXCEPT
            !.held = @ \ entry,
            !.hist[f.id] = IF named /\ Present(@)
                           THEN [@ EXCEPT !.delivery = IF direct THEN "sent" ELSE "queued"]
                           ELSE @,
            !.relay_receipts[f.id] = IF named /\ ~direct THEN x.delivery.copies ELSE @,
            !.awaiting_receipt = IF named /\ direct THEN @ \cup {f.id} ELSE @]
           again == {[h EXCEPT !.in_flight = FALSE] : h \in entry}
           back == [n EXCEPT !.held = (@ \ entry) \cup again]
           Kept(m) == /\ \A id \in Ids : m.hist[id].kind = n.hist[id].kind
                      /\ m.pending_sends = n.pending_sends /\ m.seal = n.seal
                      /\ \A g \in Frames(n.held) : \/ g \in Frames(m.held)
                                                   \/ g = x.out.frame /\ x.delivery.via # "Failed"
                      /\ NodeFrames(m) \subseteq NodeFrames(n)
                      /\ \A o \in m.outbox : o \in n.outbox \/ o.done = "Held"
                      /\ \A id \in Ids : \A c \in m.relay_receipts[id] :
                           \/ c \in n.relay_receipts[id]
                           \/ x.out.frame.kind = "Message" /\ c \in x.delivery.copies
<1>1. ApplyHeld(n, x) = IF entry = {} THEN n
                        ELSE IF x.delivery.via = "Failed" THEN back
                        ELSE IF direct THEN FlushHeld(landed, TRUE, TRUE) ELSE landed
  BY DEF ApplyHeld
<1>2. f.id \in Ids /\ x.delivery.copies \in SUBSET Copy
  BY DEF Finished, Outbound, Delivery, Frame
<1>3. entry \in SUBSET n.held /\ \A h \in n.held : h \in HeldSend
  BY NodeParts
<1>4. /\ Frames(again) = Frames(entry) /\ again \in SUBSET HeldSend
  <2>1. \A h \in entry : [h EXCEPT !.in_flight = FALSE].frame = h.frame
                         /\ [h EXCEPT !.in_flight = FALSE] \in HeldSend
    BY <1>3 DEF HeldSend
  <2> HIDE DEF entry
  <2>2. QED BY <2>1 DEF Frames
<1>5. Kept(n)
  BY DEF Frames, NodeFrames
<1>6. Kept(back)
  <2>1. /\ back.hist = n.hist /\ back.pending_sends = n.pending_sends
        /\ back.held = (n.held \ entry) \cup again /\ back.outbox = n.outbox
        /\ back.seal = n.seal /\ back.relay_receipts = n.relay_receipts
    <3> HIDE DEF entry, again
    <3>1. QED BY NodeParts
  <2> HIDE DEF back, again
  <2>2. Frames(back.held) = Frames(n.held)
    BY <1>3, <1>4, <2>1 DEF Frames
  <2>3. QED BY <2>1, <2>2 DEF NodeFrames
<1>7. \A id \in Ids : h2[id].kind = n.hist[id].kind
  <2> HIDE DEF f
  <2>1. \A d \in {"sent", "queued"} : \A id \in Ids : [n.hist[id] EXCEPT !.delivery = d].kind = n.hist[id].kind
    BY NodeParts DEF Sent
  <2>2. QED BY <1>2, <2>1, NodeParts
<1>8. \A id \in Ids : \A c \in r2[id] : \/ c \in n.relay_receipts[id]
                                        \/ named /\ c \in x.delivery.copies
  <2> HIDE DEF f, named, direct
  <2>1. QED BY <1>2, NodeParts
<1>9. landed = [n EXCEPT !.held = rest, !.hist = h2, !.relay_receipts = r2, !.awaiting_receipt = w2]
  BY DEF NodeOK, Node
<1>10. \A g \in Frames(n.held) : g \in Frames(rest) \/ g = f
  BY DEF Frames
<1>11. Frames(rest) \subseteq Frames(n.held)
  BY DEF Frames
<1>12. h2 \in [Ids -> Sent] /\ r2 \in [Ids -> SUBSET Copy] /\ w2 \in SUBSET Ids
  <2> HIDE DEF f
  <2>1. \A d \in {"sent", "queued"} : \A id \in Ids : [n.hist[id] EXCEPT !.delivery = d] \in Sent
    BY SetBadge, NodeParts DEF Badges
  <2>2. QED BY <1>2, <2>1, NodeParts
<1>13. rest \in SUBSET HeldSend /\ IsFiniteSet(rest)
  BY NodeParts, FS_Difference
<1> HIDE DEF rest, h2, r2, w2, again, entry
<1>14. /\ landed.hist = h2 /\ landed.pending_sends = n.pending_sends /\ landed.held = rest
       /\ landed.outbox = n.outbox /\ landed.seal = n.seal /\ landed.relay_receipts = r2
  <2> HIDE DEF landed
  <2>1. QED BY <1>9, NodeParts
<1>15. NodeOK(landed)
  <2> HIDE DEF landed
  <2>1. QED BY <1>9, <1>12, <1>13 DEF NodeOK, Node
<1> HIDE DEF landed, back
<1>16. x.delivery.via # "Failed" => Kept(landed)
  <2>1. NodeFrames(landed) \subseteq NodeFrames(n)
    BY <1>11, <1>14 DEF NodeFrames
  <2>2. QED BY <1>7, <1>8, <1>10, <1>14, <2>1
<1>17. x.delivery.via # "Failed" => Kept(FlushHeld(landed, TRUE, TRUE))
  <2> DEFINE m == FlushHeld(landed, TRUE, TRUE)
  <2>1. /\ Follows(landed, m, {}) /\ Frames(m.held) = Frames(landed.held)
        /\ m.relay_receipts = landed.relay_receipts /\ m.seal = landed.seal /\ NodeOK(m)
    <3>1. \A p, q : /\ Follows(landed, FlushHeld(landed, p, q), {})
                    /\ Frames(FlushHeld(landed, p, q).held) = Frames(landed.held)
                    /\ FlushHeld(landed, p, q).relay_receipts = landed.relay_receipts
                    /\ FlushHeld(landed, p, q).seal = landed.seal
                    /\ NodeOK(FlushHeld(landed, p, q))
      BY <1>15, FlushFollows, FlushTyped
    <3>2. QED BY <3>1
  <2>q. \A o \in m.outbox : o \in landed.outbox \/ o.done = "Held" 
    BY FlushQueuesHeld, <1>15
  <2> HIDE DEF m
  <2>2. m.seal \in Nat /\ \A g \in NodeFrames(m) : g.seal \in Nat
    BY <2>1, NodeParts, DeliveryAssumption DEF NodeFrames, Frames, HeldSend, Outbound, Frame, Seals
  <2>3. Frames({}) = {}
    BY DEF Frames
  <2>4. \A g \in NodeFrames(m) : g \in NodeFrames(landed)
    BY <2>1, <2>2, <2>3 DEF Follows
  <2>5. Kept(landed) => Kept(m)
    BY <2>1, <2>q, <2>4 DEF Follows
  <2>6. QED BY <1>16, <2>5 DEF m
<1>18. Kept(ApplyHeld(n, x))
  <2> HIDE DEF Kept
  <2>1. QED BY <1>1, <1>5, <1>6, <1>16, <1>17
<1>19. QED
  BY <1>18

\* Nor does a relay copy behind an unconfirmed message touch the queues.
LEMMA UnconfirmedFollows ==
    ASSUME NEW n, NodeOK(n), NEW x \in Finished
    PROVE  LET m == ApplyUnconfirmed(n, x)
           IN  /\ \A id \in Ids : m.hist[id].kind = n.hist[id].kind
               /\ m.pending_sends = n.pending_sends /\ m.seal = n.seal
               /\ m.held = n.held /\ m.outbox = n.outbox
               /\ \A id \in Ids : \A c \in m.relay_receipts[id] :
                    c \in n.relay_receipts[id] \/ c \in x.delivery.copies \/ c.frame = x.out.frame
<1> DEFINE i == x.out.frame.id
           marked == x.delivery.copies \cup {[relay |-> Handed, frame |-> x.out.frame]}
           h2 == [n.hist EXCEPT ![i] = IF Present(@) /\ @.delivery = "sent"
                                        THEN [@ EXCEPT !.delivery = "queued"] ELSE @]
           r2 == [n.relay_receipts EXCEPT ![i] = marked]
           w2 == n.awaiting_receipt \cup {i}
<1>1. ApplyUnconfirmed(n, x) = IF x.delivery.via = "Relay"
                               THEN [n EXCEPT !.relay_receipts = r2, !.hist = h2]
                               ELSE [n EXCEPT !.awaiting_receipt = w2]
  BY DEF ApplyUnconfirmed, NodeOK, Node
<1>2. i \in Ids
  BY DEF Finished, Outbound, Frame
<1>3. \A id \in Ids : h2[id].kind = n.hist[id].kind
  <2> HIDE DEF i
  <2>1. \A id \in Ids : [n.hist[id] EXCEPT !.delivery = "queued"].kind = n.hist[id].kind
    BY NodeParts DEF Sent
  <2>2. QED BY <1>2, <2>1, NodeParts
<1>4. \A id \in Ids : \A c \in r2[id] : c \in n.relay_receipts[id] \/ c \in x.delivery.copies
                                         \/ c.frame = x.out.frame
  <2> HIDE DEF i
  <2>1. QED BY <1>2, NodeParts
<1> HIDE DEF h2, r2, w2
<1>5. CASE x.delivery.via = "Relay"
  <2>1. PICK m : m = [n EXCEPT !.relay_receipts = r2, !.hist = h2]
    OBVIOUS
  <2>2. /\ m.hist = h2 /\ m.pending_sends = n.pending_sends /\ m.held = n.held
        /\ m.outbox = n.outbox /\ m.seal = n.seal /\ m.relay_receipts = r2
    BY <2>1, NodeParts
  <2>3. ApplyUnconfirmed(n, x) = m
    BY <1>1, <1>5, <2>1
  <2>4. QED BY <1>3, <1>4, <2>2, <2>3
<1>6. CASE x.delivery.via # "Relay"
  <2>1. PICK m : m = [n EXCEPT !.awaiting_receipt = w2]
    OBVIOUS
  <2>2. /\ m.hist = n.hist /\ m.pending_sends = n.pending_sends /\ m.held = n.held
        /\ m.outbox = n.outbox /\ m.seal = n.seal /\ m.relay_receipts = n.relay_receipts
    BY <2>1, NodeParts
  <2>3. ApplyUnconfirmed(n, x) = m
    BY <1>1, <1>6, <2>1
  <2>4. QED BY <2>2, <2>3
<1>7. QED BY <1>5, <1>6

-----------------------------------------------------------------------------
(* What is unsent on a receipt is deleted on both sides *)

\* On its way to the receiver, or taken in there.
Landed(f) == f \in InTransit \/ f.seal \in b.spent
IsUnsend(f) == f.kind = "Unsend"
\* The receiver has the message, or dropped it over the allowance.  An Unsend
\* of it is obeyed, or comes too late, or finds nothing to delete.
Known(id) == Received(b, id) \/ id \in dropped
Ended(id) == Deleted(b, id) \/ id \in late \cup dropped
IsMessage(f) == f.kind = "Message"

\* No two frames share a key with an Unsend, and no key is spent before the
\* frame it seals is there.
OwnKey ==
    /\ \A f \in AllFrames : f.seal <= a.seal
    /\ \A s \in b.spent : s <= a.seal
    /\ \A f, g \in AllFrames : IsUnsend(f) /\ g.seal = f.seal => g = f

\* What a recall can take back is a message: the copies on record, in a call
\* and in the deliveries that will be recorded.
CopiesAreMessages ==
    /\ \A f \in a.pending_sends \cup planned : IsMessage(f)
    /\ \A o \in outcomes : IsMessage(o.frame) /\ \A c \in o.copies : IsMessage(c.frame)
    /\ \A o \in a.outbox \cup round.todo : o.done = "Held" \/ IsMessage(o.frame)
    /\ \A x \in round.finished : /\ x.out.done = "Held" \/ IsMessage(x.out.frame)
                                 /\ \A c \in x.delivery.copies : c.frame = x.out.frame
    /\ \A id \in Ids : \A c \in a.relay_receipts[id] : IsMessage(c.frame)
CallsAreSimple ==
    \A k \in calls :
        /\ \A c \in k.copies : IsMessage(c.frame)
        /\ \A o \in k.out : /\ o.done = "CallerRecords" => IsMessage(o.frame)
                            /\ o.frame.id = k.id
                            /\ \A c \in k.delivery.copies : c.frame = o.frame
                            /\ \A p \in k.out : p = o
        /\ k.phase \in {"recall", "finish"} => k.out = {} /\ k.delivery = NotSent

\* Whoever unsends on a receipt unsends what the receiver has.
UnsentIsThere ==
    /\ \A k \in calls : k.id \notin early => Known(k.id)
    /\ \A f \in AllFrames : IsUnsend(f) /\ f.id \notin early => Known(f.id)

\* An Unsend whose delivery was a success is on its way or was processed, and
\* once its key is spent the message is deleted.
PostedIsLanded ==
    /\ \A x \in round.finished :
         IsUnsend(x.out.frame) /\ x.delivery.via # "Failed" => Landed(x.out.frame)
    /\ \A k \in calls : \A o \in k.out :
         k.phase = "apply" /\ IsUnsend(o.frame) /\ k.delivery.via # "Failed" => Landed(o.frame)
SpentIsEnded ==
    \A f \in AllFrames : IsUnsend(f) /\ f.id \notin early /\ f.seal \in b.spent => Ended(f.id)

\* A tombstone on one side is one on the other, or its Unsend is on its way,
\* held, or in the hands of the call.
UnsendCarried ==
    \A id \in Ids \ (early \cup refused) :
        a.hist[id].kind = "deleted" =>
            Ended(id) \/ \E f \in Carried : IsUnsend(f) /\ f.id = id

\* The inductive invariant behind UnsendConverges, without lost frames: an
\* Unsend has a key of its own, is carried until it lands, and when its key is
\* spent has found the message there, since the sender knew of it by a receipt.
UnsendInv ==
    /\ OwnKey /\ CopiesAreMessages /\ CallsAreSimple /\ UnsentIsThere
    /\ PostedIsLanded /\ SpentIsEnded /\ UnsendCarried

\* The frames of the calls in progress, and of the outbox round.
CallFrames == UNION {Frames(k.out) : k \in calls}
RoundFrames == Frames(round.todo) \cup {x.out.frame : x \in round.finished}

\* The frames by the place they are in, before a step and after it.
LEMMA FramePlaces ==
    /\ AllFrames = InTransit \cup NodeFrames(a) \cup planned \cup Frames(outcomes)
                     \cup RoundFrames \cup CallFrames
    /\ Carried = InTransit \cup Frames(a.held) \cup CallFrames
BY DEF AllFrames, AtWork, NodeFrames, RoundFrames, CallFrames, Carried

\* The same, of the state a step leads to.
LEMMA FramePlacesNext ==
    /\ AllFrames' = InTransit' \cup NodeFrames(a') \cup planned' \cup Frames(outcomes')
                     \cup RoundFrames' \cup CallFrames'
    /\ Carried' = InTransit' \cup Frames(a'.held) \cup CallFrames'
BY DEF AllFrames, AtWork, NodeFrames, RoundFrames, CallFrames, Carried

\* What is carried is there.
LEMMA CarriedIsThere == Carried \subseteq AllFrames
BY FramePlaces DEF NodeFrames

\* Every frame is a frame, so its key is a number.
LEMMA FramesAreFrames ==
    ASSUME TypeInv
    PROVE  /\ AllFrames \subseteq Frame /\ a.seal \in Nat
           /\ \A f \in AllFrames : f.seal \in Nat /\ f.id \in Ids
           /\ \A s \in b.spent : s \in Nat
<1>1. SenderOK /\ ReceiverOK /\ NetOK
  BY TypeGroups
<1>2. NodeFrames(a) \subseteq Frame /\ a.seal \in Nat
  BY <1>1, NodeParts, DeliveryAssumption DEF SenderOK, NodeFrames, Frames, HeldSend, Outbound, Seals
<1>3. planned \subseteq Frame /\ Frames(outcomes) \subseteq Frame
  BY <1>1 DEF SenderOK, Frames, Outcome
<1>4. RoundFrames \subseteq Frame /\ CallFrames \subseteq Frame
  BY <1>1 DEF SenderOK, RoundFrames, CallFrames, Frames, Round, Finished, Call, Outbound
<1>5. InTransit \subseteq Frame
  <2>1. wire \subseteq Frame /\ drained \in Seq(Frame) /\ \A r \in Relays : mailbox[r] \in Seq(Frame)
    BY <1>1 DEF ReceiverOK, NetOK
  <2>2. FramesOf(drained) \in SUBSET Frame /\ \A r \in Relays : FramesOf(mailbox[r]) \in SUBSET Frame
    BY <2>1, QueueFrames
  <2>3. QED BY <2>1, <2>2 DEF InTransit
<1>6. AllFrames \subseteq Frame
  BY <1>2, <1>3, <1>4, <1>5, FramePlaces
<1>7. \A s \in b.spent : s \in Nat
  BY <1>1, DeliveryAssumption DEF ReceiverOK, Receiver, Seals
<1>8. QED
  BY <1>2, <1>6, <1>7, DeliveryAssumption DEF Frame, Seals

\* What the receiver knows and has done only its own steps change.
LEMMA EndStays ==
    ASSUME UNCHANGED <<b, dropped, late>>
    PROVE  /\ \A id : Known(id) <=> Known(id)'
           /\ \A id : Ended(id) <=> Ended(id)'
BY DEF Known, Ended, Received, Deleted

\* A step of the sender keeps the invariant when the frames it seals have new
\* keys, no Unsend is let go before it landed, and only messages the receiver
\* has are unsent.
LEMMA UnsendSender ==
    ASSUME UnsendInv, TypeInv, a'.seal \in Nat, UNCHANGED <<b, dropped, late>>,
           early \subseteq early', refused \subseteq refused',
           NEW New \in SUBSET Frame, AllFrames' \subseteq AllFrames \cup New, a.seal <= a'.seal,
           \A f \in New : a.seal < f.seal /\ f.seal <= a'.seal,
           \A f, g \in New : IsUnsend(f) /\ g.seal = f.seal => g = f,
           \A f \in New : IsUnsend(f) => f.id \in early' \/ Known(f.id),
           \A k \in calls' : (\E j \in calls : j.id = k.id) \/ k.id \in early' \/ Known(k.id),
           \A f \in InTransit : IsUnsend(f) => f \in InTransit',
           \A f \in Carried : IsUnsend(f) => f \in Carried' \/ Landed(f) \/ f.id \in refused',
           \A id \in Ids : a'.hist[id].kind = "deleted" =>
               a.hist[id].kind = "deleted" \/ \E f \in Carried' : IsUnsend(f) /\ f.id = id,
           PostedIsLanded', CopiesAreMessages', CallsAreSimple'
    PROVE  UnsendInv'
<1>n. /\ a.seal \in Nat /\ a'.seal \in Nat
      /\ \A f \in AllFrames : f.seal \in Nat /\ \A s \in b.spent : s \in Nat
      /\ \A f \in AllFrames' : f.seal \in Nat
  BY FramesAreFrames, DeliveryAssumption DEF Frame, Seals
<1>1. OwnKey'
  <2>1. \A f \in AllFrames' : f.seal <= a'.seal
    BY <1>n DEF UnsendInv, OwnKey
  <2>2. \A s \in b'.spent : s <= a'.seal
    BY <1>n, FramesAreFrames DEF UnsendInv, OwnKey
  <2>3. \A f, g \in AllFrames' : IsUnsend(f) /\ g.seal = f.seal => g = f
    <3> SUFFICES ASSUME NEW f \in AllFrames', NEW g \in AllFrames', IsUnsend(f), g.seal = f.seal
                 PROVE  g = f
      OBVIOUS
    <3>1. CASE f \in AllFrames /\ g \in AllFrames
      BY <3>1 DEF UnsendInv, OwnKey
    <3>2. CASE f \in New /\ g \in New
      BY <3>2
    <3>3. CASE f \in AllFrames /\ g \in New
      BY <1>n, <3>3 DEF UnsendInv, OwnKey
    <3>4. CASE f \in New /\ g \in AllFrames
      BY <1>n, <3>4 DEF UnsendInv, OwnKey
    <3>5. QED BY <3>1, <3>2, <3>3, <3>4
  <2>4. QED BY <2>1, <2>2, <2>3 DEF OwnKey
<1>2. UnsentIsThere'
  BY EndStays DEF UnsendInv, UnsentIsThere
<1>3. SpentIsEnded'
  <2>1. ASSUME NEW f \in New, f.seal \in b.spent PROVE FALSE
    BY <1>n, <2>1, FramesAreFrames DEF UnsendInv, OwnKey
  <2>2. QED BY <2>1, EndStays DEF UnsendInv, SpentIsEnded
<1>4. UnsendCarried'
  <2> SUFFICES ASSUME NEW id \in Ids \ (early' \cup refused'), a'.hist[id].kind = "deleted"
               PROVE  Ended(id)' \/ \E f \in Carried' : IsUnsend(f) /\ f.id = id
    BY DEF UnsendCarried
  <2>1. CASE a.hist[id].kind = "deleted"
    <3>1. CASE Ended(id)
      BY <3>1, EndStays
    <3>2. ASSUME NEW f \in Carried, IsUnsend(f), f.id = id
          PROVE  Ended(id)' \/ \E g \in Carried' : IsUnsend(g) /\ g.id = id
      <4>1. CASE f \in Carried'
        BY <3>2, <4>1
      <4>2. CASE f \in InTransit
        BY <3>2, <4>2, FramePlacesNext
      <4>3. CASE f.seal \in b.spent
        BY <3>2, <4>3, CarriedIsThere, EndStays DEF UnsendInv, SpentIsEnded
      <4>4. QED BY <3>2, <4>1, <4>2, <4>3 DEF Landed
    <3>3. QED BY <2>1, <3>1, <3>2 DEF UnsendInv, UnsendCarried
  <2>2. QED BY <2>1
<1>5. QED
  BY <1>1, <1>2, <1>3, <1>4 DEF UnsendInv

\* A frame that is taken in and processed keeps the invariant: an Unsend that
\* opens in time deletes the message, which is there unless it was dropped.
LEMMA UnsendReceiver ==
    ASSUME UnsendInv, TypeInv, NEW f \in InTransit, Processes(f),
           InTransit' \subseteq InTransit, \A g \in InTransit : g = f \/ g \in InTransit',
           UNCHANGED <<senderVars, histVars>>
    PROVE  UnsendInv'
<1>u. /\ UNCHANGED <<a, planned, outcomes, round, calls, early, refused>>
      /\ f \in AllFrames /\ f \in Frame
  BY FramePlaces, FramesAreFrames DEF senderVars, histVars
<1>b. b \in Receiver /\ ReceiverShape(b) /\ \A id \in Ids : b.inbox[id].kind \in {"none", "text", "deleted"}
  BY DEF TypeInv, TypeOK, Receiver, ReceiverShape, Shown
<1>p. /\ \A id \in Ids : Known(id) => Known(id)'
      /\ \A id \in Ids : Ended(id) => Ended(id)'
  BY <1>b, ProcessesAhead DEF Ahead, Known, Ended, Processes
<1>q. /\ b'.spent = b.spent \cup {f.seal}
      /\ IsUnsend(f) /\ f.seal \notin b.spent /\ Known(f.id) => Ended(f.id)'
  <2> DEFINE m == b.inbox[f.id]
             open == m.kind = "text" /\ f.id \notin closed
             shown == CASE f.kind = "Message" /\ m.kind = "none" /\ ~full ->
                              [kind |-> "text", text |-> f.text]
                        [] f.kind = "Edit" /\ open -> [kind |-> "text", text |-> f.text]
                        [] f.kind = "Unsend" /\ open -> [kind |-> "deleted", text |-> Blank]
                        [] OTHER -> m
  <2>1. b' = IF f.seal \in b.spent THEN b
             ELSE [inbox |-> [b.inbox EXCEPT ![f.id] = shown], spent |-> b.spent \cup {f.seal}]
    BY DEF Processes, ProcessFrame
  <2>2. f.id \in Ids /\ f.id \in DOMAIN b.inbox
    BY <1>u, <1>b DEF Frame, ReceiverShape
  <2>3. IsUnsend(f) /\ m.kind # "none" => shown.kind = "deleted" \/ (m.kind = "text" /\ f.id \in closed)
    BY <1>b, <2>2 DEF IsUnsend
  <2>4. /\ f.id \in closed /\ IsUnsend(f) /\ f.seal \notin b.spent /\ m.kind = "text" => f.id \in late'
        /\ dropped \subseteq dropped'
    BY DEF Processes, TooLate, IsUnsend
  <2> HIDE DEF m, shown
  <2>5. f.seal \notin b.spent => b'.inbox[f.id] = shown
    BY <2>1, <2>2
  <2>6. b'.spent = b.spent \cup {f.seal}
    BY <2>1
  <2>7. QED BY <2>3, <2>4, <2>5, <2>6 DEF Ended, Deleted, Known, Received, m
<1>a. AllFrames' \subseteq AllFrames /\ CallFrames' = CallFrames /\ NodeFrames(a') = NodeFrames(a)
  <2>1. CallFrames' = CallFrames /\ RoundFrames' = RoundFrames
    BY <1>u DEF CallFrames, RoundFrames
  <2>2. QED BY <1>u, <2>1, FramePlaces, FramePlacesNext
<1>1. OwnKey'
  BY <1>u, <1>a, <1>q DEF UnsendInv, OwnKey
<1>2. CopiesAreMessages' /\ CallsAreSimple'
  BY <1>u DEF UnsendInv, CopiesAreMessages, CallsAreSimple
<1>3. UnsentIsThere'
  <2>1. \A k \in calls : k.id \in Ids
    BY DEF TypeInv, TypeOK, Call
  <2>2. \A g \in AllFrames : g.id \in Ids
    BY FramesAreFrames
  <2>3. QED BY <1>u, <1>a, <1>p, <2>1, <2>2 DEF UnsendInv, UnsentIsThere
<1>4. PostedIsLanded'
  <2>1. \A g : Landed(g) => g \in InTransit' \/ g.seal \in b'.spent
    BY <1>q DEF Landed
  <2>2. QED BY <1>u, <2>1 DEF UnsendInv, PostedIsLanded, Landed
<1>5. \A g \in AllFrames : IsUnsend(g) /\ g.id \notin early /\ g.seal \in b'.spent => Ended(g.id)'
  <2> SUFFICES ASSUME NEW g \in AllFrames, IsUnsend(g), g.id \notin early, g.seal \in b'.spent
               PROVE  Ended(g.id)'
    OBVIOUS
  <2>1. CASE g.seal \in b.spent
    BY <1>p, <2>1, FramesAreFrames DEF UnsendInv, SpentIsEnded
  <2>2. CASE g.seal \notin b.spent
    <3>1. g.seal = f.seal
      BY <1>q, <2>2
    <3>2. g = f
      BY <1>u, <3>1 DEF UnsendInv, OwnKey
    <3>3. Known(f.id)
      BY <1>u, <3>2 DEF UnsendInv, UnsentIsThere
    <3>4. QED BY <1>q, <2>2, <3>2, <3>3
  <2>3. QED BY <2>1, <2>2
<1>6. SpentIsEnded'
  BY <1>u, <1>a, <1>5 DEF SpentIsEnded
<1>7. UnsendCarried'
  <2> SUFFICES ASSUME NEW id \in Ids \ (early' \cup refused'), a'.hist[id].kind = "deleted"
               PROVE  Ended(id)' \/ \E g \in Carried' : IsUnsend(g) /\ g.id = id
    BY DEF UnsendCarried
  <2>1. CASE Ended(id)
    BY <1>p, <2>1
  <2>2. ASSUME NEW g \in Carried, IsUnsend(g), g.id = id
        PROVE  Ended(id)' \/ \E h \in Carried' : IsUnsend(h) /\ h.id = id
    <3>1. CASE g = f
      BY <1>u, <1>q, <1>5, <2>2, <3>1
    <3>2. CASE g # f
      <4>1. g \in Carried'
        BY <1>u, <1>a, <2>2, <3>2, FramePlaces, FramePlacesNext
      <4>2. QED BY <2>2, <4>1
    <3>3. QED BY <3>1, <3>2
  <2>3. QED BY <1>u, <2>1, <2>2 DEF UnsendInv, UnsendCarried
<1>8. QED
  BY <1>1, <1>2, <1>3, <1>4, <1>6, <1>7 DEF UnsendInv

\* No frame is lost once it is out, and neither end dies.
NoFrameLost == Faults \cap {"wire", "reply", "sender", "receiver"} = {}

\* Nothing moved: what is on its way stays on its way.
LEMMA TransitStays ==
    ASSUME UNCHANGED <<wire, drained, mailbox>> PROVE InTransit' = InTransit
BY DEF InTransit

\* Nothing new has gone out.
LEMMA PostedStays ==
    ASSUME PostedIsLanded, UNCHANGED <<b, dropped, late>>, \A f \in InTransit : IsUnsend(f) => f \in InTransit',
           \A x \in round'.finished : x \in round.finished,
           \A k \in calls' : k \in calls \/ k.phase # "apply"
    PROVE  PostedIsLanded'
BY DEF PostedIsLanded, Landed

\* Every step keeps UnsendInv as long as no frame is lost.
LEMMA UnsendStep ==
    ASSUME NoFrameLost PROVE UnsendInv /\ DurableInv /\ TypeInv /\ [Next]_vars => UnsendInv'
<1> SUFFICES ASSUME UnsendInv, DurableInv, TypeInv, [Next]_vars PROVE UnsendInv'
  OBVIOUS
<1>t. TypeInv' /\ a'.seal \in Nat /\ a.seal \in Nat /\ SenderOK /\ NetOK /\ ReceiverOK
  <2>1. TypeInv'
    BY TypeStep
  <2>2. a.seal \in Nat /\ a'.seal \in Nat
    BY <2>1, DeliveryAssumption DEF TypeInv, TypeOK, Node, Seals
  <2>3. QED BY <2>1, <2>2, TypeGroups
<1>a. NodeOK(a) /\ round \in Round /\ calls \in SUBSET Call
  BY <1>t DEF SenderOK
<1>p. /\ a.hist \in [Ids -> Sent] /\ a.pending_sends \in SUBSET Frame
      /\ a.held \in SUBSET HeldSend
      /\ a.relay_receipts \in [Ids -> SUBSET Copy] /\ a.outbox \in SUBSET Outbound
      /\ \A i \in Ids : Blank \in Texts /\ 1 \in Texts
  <2>1. Blank \in Texts /\ 1 \in Texts
    BY DeliveryAssumption DEF Texts, Blank
  <2>2. QED BY <1>a, <2>1, NodeParts
<1>i. /\ OwnKey /\ CopiesAreMessages /\ CallsAreSimple /\ UnsentIsThere
      /\ PostedIsLanded /\ SpentIsEnded /\ UnsendCarried
  BY DEF UnsendInv
\* On a receipt, the receiver has the message.
<1>d. \A id \in Ids : a.hist[id].delivery = "delivered" => Known(id)
  BY DEF DurableInv, MarkedIn, Ahead, Known
<1>1. ASSUME NEW id \in Ids, SendMessage(id) PROVE UnsendInv'
  <2> DEFINE f == Message(id, 1, a.seal + 1)
             msg == [kind |-> "text", text |-> 1, delivery |-> "queued"]
  <2>1. /\ a'.hist = [a.hist EXCEPT ![id] = msg] /\ a'.pending_sends = a.pending_sends \cup {f}
        /\ a'.held = a.held /\ a'.outbox = a.outbox /\ a'.seal = a.seal + 1
        /\ a'.relay_receipts = a.relay_receipts
    <3> HIDE DEF f, msg
    <3>1. a' = [a EXCEPT !.hist[id] = msg, !.seal = @ + 1, !.pending_sends = @ \cup {f}]
      BY <1>1 DEF SendMessage, f, msg
    <3>2. QED BY <1>a, <3>1, NodeParts
  <2>2. UNCHANGED <<planned, outcomes, round, calls, receiverVars, netVars, histVars>>
    BY <1>1 DEF SendMessage, Locked
  <2>3. UNCHANGED <<wire, drained, mailbox, b, dropped, late, early, refused>>
    BY <2>2 DEF receiverVars, netVars, histVars
  <2>4. f \in Frame /\ f.kind = "Message" /\ f.seal = a.seal + 1
    <3>1. a.seal + 1 \in Seals
      BY <1>1, <1>t, DeliveryAssumption DEF SendMessage, Seals
    <3>2. QED BY <1>p, <3>1, FramesMade DEF Message
  <2>5. InTransit' = InTransit /\ RoundFrames' = RoundFrames /\ CallFrames' = CallFrames
    BY <2>2, <2>3, TransitStays DEF RoundFrames, CallFrames
  <2>h. \A i \in Ids : a'.hist[i].kind = "deleted" => a.hist[i].kind = "deleted"
    BY <1>p, <2>1
  <2> HIDE DEF f, msg
  <2>6. NodeFrames(a') = NodeFrames(a) \cup {f}
    BY <2>1 DEF NodeFrames
  <2>7. AllFrames' \subseteq AllFrames \cup {f} /\ Carried' = Carried
    BY <2>1, <2>2, <2>5, <2>6, FramePlaces, FramePlacesNext
  <2>8. PostedIsLanded'
    BY <1>i, <2>2, <2>3, <2>5, PostedStays
  <2>9. CopiesAreMessages' /\ CallsAreSimple'
    BY <1>i, <2>1, <2>2, <2>4 DEF CopiesAreMessages, CallsAreSimple, IsMessage
  <2>10. ~IsUnsend(f) /\ {f} \in SUBSET Frame /\ a.seal < f.seal /\ f.seal <= a'.seal /\ a.seal <= a'.seal
    BY <1>t, <2>1, <2>4 DEF IsUnsend
  <2>11. QED
    BY <1>t, <2>2, <2>3, <2>5, <2>7, <2>8, <2>9, <2>10, <2>h, UnsendSender
<1>2. ASSUME NEW op, NEW id \in Ids, NEW text,
             calls' = calls \cup {NewCall(op, id, text)},
             /\ a'.pending_sends = a.pending_sends
             /\ a'.held = a.held /\ a'.outbox = a.outbox /\ a'.seal = a.seal
             /\ \A i \in Ids : a'.relay_receipts[i] \subseteq a.relay_receipts[i],
             \A i \in Ids : a'.hist[i].kind = a.hist[i].kind,
             UNCHANGED <<planned, outcomes, round, receiverVars, netVars, refused>>,
             early' = IF a.hist[id].delivery = "delivered" THEN early ELSE early \cup {id}
      PROVE  UnsendInv'
  <2> DEFINE k == NewCall(op, id, text)
  <2>1. /\ k.id = id /\ k.out = {} /\ k.delivery = NotSent /\ k.phase \in {"recall", "finish"}
        /\ k.copies = {} \/ k.copies = a.relay_receipts[id]
    BY DEF NewCall
  <2> HIDE DEF k
  <2>2. UNCHANGED <<wire, drained, mailbox, b, dropped, late>>
    BY <1>2 DEF receiverVars, netVars
  <2>3. Frames({}) = {}
    BY DEF Frames
  <2>k. calls' = calls \cup {k}
    BY <1>2 DEF k
  <2>4. InTransit' = InTransit /\ RoundFrames' = RoundFrames /\ CallFrames' = CallFrames
    <3>1. InTransit' = InTransit
      BY ONLY <2>2, TransitStays
    <3>2. RoundFrames' = RoundFrames
      BY <1>2 DEF RoundFrames
    <3>3. CallFrames' = CallFrames
      BY ONLY <2>1, <2>3, <2>k DEF CallFrames
    <3>4. QED BY ONLY <3>1, <3>2, <3>3
  <2>5. AllFrames' \subseteq AllFrames /\ Carried' = Carried
    BY <1>2, <2>4, FramePlaces, FramePlacesNext DEF NodeFrames
  <2>6. PostedIsLanded'
    BY <1>2, <1>i, <2>1, <2>2, <2>4, PostedStays DEF k
  <2>7. CopiesAreMessages'
    BY <1>2, <1>i DEF CopiesAreMessages
  <2>8. CallsAreSimple'
    BY <1>2, <1>i, <2>1 DEF CopiesAreMessages, CallsAreSimple, k
  <2>9. k.id \in early' \/ Known(k.id)
    BY <1>2, <1>d, <2>1
  <2>10. \A j \in calls' : (\E i \in calls : i.id = j.id) \/ j.id \in early' \/ Known(j.id)
    BY <1>2, <2>9 DEF k
  <2>11. early \subseteq early' /\ {} \in SUBSET Frame /\ a.seal <= a'.seal
    BY <1>2, <1>t
  <2>12. QED
    BY <1>2, <1>t, <2>2, <2>4, <2>5, <2>6, <2>7, <2>8, <2>10, <2>11, UnsendSender
<1>3. ASSUME NEW id \in Ids, BeginEdit(id) PROVE UnsendInv'
  <2>1. /\ a'.pending_sends = a.pending_sends
        /\ a'.held = a.held /\ a'.outbox = a.outbox /\ a'.seal = a.seal
    BY <1>3, <1>a, NodeParts DEF BeginEdit
  <2>2. \A i \in Ids : a'.hist[i].kind = a.hist[i].kind
    BY <1>3, <1>p DEF BeginEdit, Sent
  <2>3. \A i \in Ids : a'.relay_receipts[i] \subseteq a.relay_receipts[i]
    BY <1>3, <1>p DEF BeginEdit
  <2>4. /\ calls' = calls \cup {NewCall("edit", id, a.hist[id].text + 1)}
        /\ UNCHANGED <<planned, outcomes, round, receiverVars, netVars, refused>>
        /\ early' = IF a.hist[id].delivery = "delivered" THEN early ELSE early \cup {id}
    BY <1>3 DEF BeginEdit, Locked
  <2>5. QED BY <1>2, <2>1, <2>2, <2>3, <2>4
<1>4. ASSUME NEW id \in Ids, BeginUnsend(id) PROVE UnsendInv'
  <2>1. /\ a'.pending_sends = a.pending_sends
        /\ a'.held = a.held /\ a'.outbox = a.outbox /\ a'.seal = a.seal
    BY <1>4, <1>a, NodeParts DEF BeginUnsend
  <2>2. \A i \in Ids : a'.hist[i].kind = a.hist[i].kind
    BY <1>4, <1>a, NodeParts DEF BeginUnsend
  <2>3. \A i \in Ids : a'.relay_receipts[i] \subseteq a.relay_receipts[i]
    BY <1>4, <1>p DEF BeginUnsend
  <2>4. /\ calls' = calls \cup {NewCall("unsend", id, Blank)}
        /\ UNCHANGED <<planned, outcomes, round, receiverVars, netVars, refused>>
        /\ early' = IF a.hist[id].delivery = "delivered" THEN early ELSE early \cup {id}
    BY <1>4 DEF BeginUnsend, Locked
  <2>5. QED BY <1>2, <2>1, <2>2, <2>3, <2>4
<1>5. ASSUME NEW k \in calls, NEW c \in k.copies, RecallCopy(k, c) PROVE UnsendInv'
  <2>1. UNCHANGED <<a, planned, outcomes, round, b, dropped, late, drained, wire, refused, early>>
    BY <1>5 DEF RecallCopy, receiverVars
  <2>2. PICK r : calls' = (calls \ {k}) \cup {[k EXCEPT !.copies = @ \ {c}, !.recalled = r]}
    BY <1>5 DEF RecallCopy
  <2>3. k \in Call /\ c \in Copy /\ IsMessage(c.frame)
    BY <1>5, <1>a, <1>i DEF Call, CallsAreSimple
  <2>4. PICK j : j = [k EXCEPT !.copies = @ \ {c}, !.recalled = r]
    OBVIOUS
  <2>5. /\ calls' = (calls \ {k}) \cup {j}
        /\ j.id = k.id /\ j.phase = k.phase /\ j.out = k.out /\ j.delivery = k.delivery
        /\ j.copies \subseteq k.copies /\ k.phase = "recall"
    BY <1>5, <2>2, <2>3, <2>4 DEF Call, RecallCopy
  <2>6. InTransit' \subseteq InTransit /\ \A f \in InTransit : IsUnsend(f) => f \in InTransit'
    BY <1>5, <1>t, <2>3, RecallLeaves DEF IsMessage, IsUnsend
  <2>7. CallFrames' = CallFrames /\ RoundFrames' = RoundFrames
    BY <2>1, <2>5 DEF CallFrames, RoundFrames
  <2>8. AllFrames' \subseteq AllFrames /\ \A f \in Carried : IsUnsend(f) => f \in Carried'
    BY <2>1, <2>6, <2>7, FramePlaces, FramePlacesNext
  <2>9. PostedIsLanded'
    BY <1>i, <2>1, <2>5, <2>6, PostedStays
  <2>10. CopiesAreMessages' /\ CallsAreSimple'
    BY <1>i, <2>1, <2>5 DEF CopiesAreMessages, CallsAreSimple
  <2>11. \A i \in calls' : \E l \in calls : l.id = i.id
    BY <2>5
  <2>12. {} \in SUBSET Frame /\ a.seal <= a'.seal
    BY <1>t, <2>1
  <2>13. QED
    BY <1>t, <2>1, <2>6, <2>8, <2>9, <2>10, <2>11, <2>12, UnsendSender
<1>6. ASSUME NEW k \in calls, RecallDone(k), NEW f \in Frame, f.id = k.id, NEW route, NEW done,
             done = "CallerRecords" => IsMessage(f), CallSends(k, f, route, done)
      PROVE  /\ CallFrames' = CallFrames \cup {f} /\ CallsAreSimple'
             /\ \A i \in calls' : \E l \in calls : l.id = i.id
             /\ \A i \in calls' : i \in calls \/ i.phase # "apply"
  <2>1. PICK o : o = [frame |-> f, route |-> route, done |-> done]
    OBVIOUS
  <2>2. PICK j : j = [k EXCEPT !.phase = "send", !.out = {o}]
    OBVIOUS
  <2>3. calls' = (calls \ {k}) \cup {j} /\ k \in Call
    BY <1>6, <1>a, <2>1, <2>2 DEF CallSends
  <2>4. j.id = k.id /\ j.phase = "send" /\ j.out = {o} /\ j.copies = k.copies /\ j.delivery = k.delivery
    BY <2>2, <2>3 DEF Call
  <2>5. k.out = {} /\ k.delivery = NotSent /\ NotSent.copies = {}
    BY <1>6, <1>i DEF CallsAreSimple, RecallDone, NotSent
  <2>6. Frames({o}) = {f} /\ Frames({}) = {} /\ o.frame = f /\ o.done = done
    BY <2>1 DEF Frames
  <2>7. CallFrames' = CallFrames \cup {f}
    <3>1. \A l \in calls' : Frames(l.out) \subseteq CallFrames \cup {f}
      BY <2>3, <2>4, <2>6 DEF CallFrames
    <3>2. \A l \in calls : Frames(l.out) \subseteq CallFrames'
      BY <2>3, <2>5, <2>6 DEF CallFrames
    <3>3. f \in CallFrames'
      BY <2>3, <2>4, <2>6 DEF CallFrames
    <3>4. QED BY <3>1, <3>2, <3>3 DEF CallFrames
  <2>8. CallsAreSimple'
    BY <1>6, <1>i, <2>3, <2>4, <2>5, <2>6 DEF CallsAreSimple
  <2>9. QED BY <2>3, <2>4, <2>7, <2>8
<1>7. ASSUME NEW k \in calls, RecallDone(k), CallEnds(k)
      PROVE  /\ CallFrames' = CallFrames /\ CallsAreSimple'
             /\ \A i \in calls' : \E l \in calls : l.id = i.id
             /\ \A i \in calls' : i \in calls \/ i.phase # "apply"
  <2>1. calls' = calls \ {k} /\ k.out = {} /\ Frames({}) = {}
    BY <1>7, <1>i DEF CallEnds, CallsAreSimple, RecallDone, Frames
  <2>2. CallFrames' = CallFrames
    BY <2>1 DEF CallFrames
  <2>3. CallsAreSimple'
    BY <1>i, <2>1 DEF CallsAreSimple
  <2>4. QED BY <2>1, <2>2, <2>3
\* The held copies of one message are no Unsend frames.
<1>h. ASSUME NEW id PROVE \A f \in Frames(a.held) : IsUnsend(f) => f \in Frames(a.held \ HeldUnsent(a, id))
  BY DEF Frames, HeldUnsent, IsUnsend
<1>8. ASSUME NEW k \in calls, FinishEdit(k) PROVE UnsendInv'
  <2> DEFINE s == a.seal + 1
             mine == HeldUnsent(a, k.id)
             f == Message(k.id, k.text, s)
             e == Edit(k.id, k.text, s)
             again == {[h EXCEPT !.frame = f] : h \in mine}
             held == (a.held \ mine) \cup again
  <2>1. k \in Call /\ k.id \in Ids /\ k.text \in Texts /\ s \in Seals /\ RecallDone(k)
    BY <1>8, <1>a, <1>t, DeliveryAssumption DEF Call, FinishEdit, Seals
  <2>2. /\ f \in Frame /\ e \in Frame /\ ~IsUnsend(f) /\ ~IsUnsend(e) /\ IsMessage(f)
        /\ f.id = k.id /\ e.id = k.id /\ f.seal = s /\ e.seal = s
    <3>1. f \in Frame /\ e \in Frame
      BY <2>1, FramesMade
    <3>2. QED BY <3>1 DEF Message, Edit, IsUnsend, IsMessage
  <2>3. /\ UNCHANGED <<planned, outcomes, round, b, dropped, late, drained, wire, mailbox, refused, early>>
        /\ s = a.seal + 1
    BY <1>8 DEF FinishEdit, Locked, receiverVars, netVars
  <2>4. \/ a' = [a EXCEPT !.seal = s, !.held = held] /\ CallEnds(k)
        \/ a' = [a EXCEPT !.seal = s] /\ CallSends(k, f, "RelayOnly", "CallerRecords")
        \/ a' = [a EXCEPT !.seal = s] /\ CallSends(k, e, "DirectThenRelay", "Caller")
    BY <1>8 DEF FinishEdit
  <2>5. /\ \A g \in Frames(held) : g \in Frames(a.held) \/ g = f
        /\ \A g \in Frames(a.held) : IsUnsend(g) => g \in Frames(held)
    <3>1. \A h \in mine : h \in HeldSend
      BY <1>p DEF HeldUnsent
    <3> HIDE DEF f
    <3>2. \A h \in again : h.frame = f
      BY <3>1 DEF HeldSend
    <3> HIDE DEF again, mine
    <3>3. \A g \in Frames(held) : g \in Frames(a.held) \/ g = f
      BY <3>2 DEF Frames
    <3>4. Frames(a.held \ mine) \subseteq Frames(held)
      BY DEF Frames
    <3>5. QED BY <1>h, <3>3, <3>4 DEF mine
  <2> HIDE DEF f, e, s, held, mine, again
  <2>6. /\ a'.hist = a.hist /\ a'.pending_sends = a.pending_sends /\ a'.outbox = a.outbox
        /\ a'.relay_receipts = a.relay_receipts /\ a'.seal = s
        /\ \/ a'.held = held /\ CallEnds(k)
           \/ a'.held = a.held /\ CallSends(k, f, "RelayOnly", "CallerRecords")
           \/ a'.held = a.held /\ CallSends(k, e, "DirectThenRelay", "Caller")
    <3>1. CASE a' = [a EXCEPT !.seal = s, !.held = held] /\ CallEnds(k)
      BY <1>a, <3>1, NodeParts
    <3>2. CASE a' = [a EXCEPT !.seal = s] /\ CallSends(k, f, "RelayOnly", "CallerRecords")
      BY <1>a, <3>2, NodeParts
    <3>3. CASE a' = [a EXCEPT !.seal = s] /\ CallSends(k, e, "DirectThenRelay", "Caller")
      BY <1>a, <3>3, NodeParts
    <3>4. QED BY <2>4, <3>1, <3>2, <3>3
  <2>7. /\ CallFrames \subseteq CallFrames' /\ CallsAreSimple'
        /\ \A i \in calls' : \E l \in calls : l.id = i.id
        /\ \A i \in calls' : i \in calls \/ i.phase # "apply"
        /\ CallFrames' \subseteq CallFrames \cup {f, e}
    <3>1. CASE CallEnds(k)
      BY <1>7, <2>1, <3>1
    <3>2. CASE CallSends(k, f, "RelayOnly", "CallerRecords")
      BY <1>6, <2>1, <2>2, <3>2
    <3>3. CASE CallSends(k, e, "DirectThenRelay", "Caller")
      BY <1>6, <2>1, <2>2, <3>3
    <3>4. QED BY <2>6, <3>1, <3>2, <3>3
  <2>8. InTransit' = InTransit /\ RoundFrames' = RoundFrames
    BY <2>3, TransitStays DEF RoundFrames
  <2>9. /\ \A g \in Frames(a'.held) : g \in Frames(a.held) \/ g = f
        /\ \A g \in Frames(a.held) : IsUnsend(g) => g \in Frames(a'.held)
    BY <2>5, <2>6
  <2>10. AllFrames' \subseteq AllFrames \cup {f, e}
    BY <2>3, <2>6, <2>7, <2>8, <2>9, FramePlaces, FramePlacesNext DEF NodeFrames
  <2>11. \A g \in Carried : IsUnsend(g) => g \in Carried'
    BY <2>7, <2>8, <2>9, FramePlaces, FramePlacesNext
  <2>12. PostedIsLanded'
    BY <1>i, <2>3, <2>7, <2>8, PostedStays
  <2>13. CopiesAreMessages'
    BY <1>i, <2>3, <2>6 DEF CopiesAreMessages
  <2>14. /\ {f, e} \in SUBSET Frame /\ a.seal <= a'.seal
         /\ \A g \in {f, e} : ~IsUnsend(g) /\ a.seal < g.seal /\ g.seal <= a'.seal
    BY <1>t, <2>2, <2>3, <2>6
  <2>15. QED
    BY <1>t, <2>3, <2>6, <2>7, <2>8, <2>10, <2>11, <2>12, <2>13, <2>14, UnsendSender
<1>9. ASSUME NEW k \in calls, FinishUnsend(k) PROVE UnsendInv'
  <2> DEFINE s == a.seal + 1
             mine == HeldUnsent(a, k.id)
             f == Unsend(k.id, s)
             stone == make_tombstone(a.hist[k.id])
  <2>1. k \in Call /\ k.id \in Ids /\ RecallDone(k)
    BY <1>9, <1>a DEF Call, FinishUnsend
  <2>2. UNCHANGED <<planned, outcomes, round, b, dropped, late, drained, wire, mailbox, refused, early>>
    BY <1>9 DEF FinishUnsend, Locked, receiverVars, netVars
  <2>3. \/ /\ \/ a' = [a EXCEPT !.held = @ \ mine, !.hist[k.id] = Gone]
              \/ a' = a
              \/ a' = [a EXCEPT !.hist[k.id] = Gone]
           /\ CallEnds(k)
        \/ /\ a.seal < MaxSeal
           /\ a' = [a EXCEPT !.hist[k.id] = stone, !.seal = s]
           /\ CallSends(k, f, "DirectThenRelay", "Caller")
    BY <1>9 DEF FinishUnsend
  <2>4. InTransit' = InTransit /\ RoundFrames' = RoundFrames
    BY <2>2, TransitStays DEF RoundFrames
  <2>5. CASE CallEnds(k) /\ (\/ a' = [a EXCEPT !.held = @ \ mine, !.hist[k.id] = Gone]
                             \/ a' = a
                             \/ a' = [a EXCEPT !.hist[k.id] = Gone])
    <3> HIDE DEF mine
    <3>1. /\ a'.pending_sends = a.pending_sends /\ a'.outbox = a.outbox
          /\ a'.relay_receipts = a.relay_receipts /\ a'.seal = a.seal
          /\ a'.held = a.held \/ a'.held = a.held \ mine
          /\ a'.hist = a.hist \/ a'.hist = [a.hist EXCEPT ![k.id] = Gone]
      <4>1. CASE a' = [a EXCEPT !.held = @ \ mine, !.hist[k.id] = Gone]
        BY <1>a, <4>1, NodeParts
      <4>2. CASE a' = [a EXCEPT !.hist[k.id] = Gone]
        BY <1>a, <4>2, NodeParts
      <4>3. QED BY <2>5, <4>1, <4>2
    <3>2. \A i \in Ids : a'.hist[i].kind = "deleted" => a.hist[i].kind = "deleted"
      <4>1. Gone.kind = "gone"
        BY DEF Gone
      <4>2. \A i \in Ids : a'.hist[i] = a.hist[i] \/ a'.hist[i] = Gone
        BY ONLY <1>p, <2>1, <3>1
      <4>3. QED BY ONLY <4>1, <4>2
    <3>3. /\ \A g \in Frames(a'.held) : g \in Frames(a.held)
          /\ \A g \in Frames(a.held) : IsUnsend(g) => g \in Frames(a'.held)
      <4>1. Frames(a.held \ mine) \subseteq Frames(a.held)
        BY DEF Frames
      <4>2. QED BY <1>h, <3>1, <4>1 DEF mine
    <3>4. /\ CallFrames = CallFrames' /\ CallsAreSimple'
          /\ \A i \in calls' : \E l \in calls : l.id = i.id
          /\ \A i \in calls' : i \in calls \/ i.phase # "apply"
      BY <1>7, <2>1, <2>5
    <3>5. AllFrames' \subseteq AllFrames
      BY <2>2, <2>4, <3>1, <3>3, <3>4, FramePlaces, FramePlacesNext DEF NodeFrames
    <3>6. \A g \in Carried : IsUnsend(g) => g \in Carried'
      BY <2>4, <3>3, <3>4, FramePlaces, FramePlacesNext
    <3>7. PostedIsLanded'
      BY <1>i, <2>2, <2>4, <3>4, PostedStays
    <3>8. CopiesAreMessages'
      BY <1>i, <2>2, <3>1 DEF CopiesAreMessages
    <3>9. {} \in SUBSET Frame /\ a.seal <= a'.seal
      BY <1>t, <3>1
    <3>10. QED
      BY <1>t, <2>2, <2>4, <3>2, <3>4, <3>5, <3>6, <3>7, <3>8, <3>9, UnsendSender
  <2>6. CASE /\ a.seal < MaxSeal
             /\ a' = [a EXCEPT !.hist[k.id] = stone, !.seal = s]
             /\ CallSends(k, f, "DirectThenRelay", "Caller")
    <3>1. s \in Seals /\ f \in Frame /\ f.id = k.id /\ f.seal = s /\ IsUnsend(f)
      <4>1. s \in Seals
        BY <1>t, <2>6, DeliveryAssumption DEF Seals
      <4>2. f \in Frame
        BY <1>p, <2>1, <4>1, FramesMade
      <4>3. QED BY <4>1, <4>2 DEF Unsend, IsUnsend
    <3>s. s = a.seal + 1
      OBVIOUS
    <3> HIDE DEF f, stone, s
    <3>2. /\ a'.pending_sends = a.pending_sends /\ a'.outbox = a.outbox /\ a'.held = a.held
          /\ a'.relay_receipts = a.relay_receipts /\ a'.seal = s
          /\ a'.hist = [a.hist EXCEPT ![k.id] = stone]
      BY <1>a, <2>6, NodeParts
    <3>3. /\ CallFrames' = CallFrames \cup {f} /\ CallsAreSimple'
          /\ \A i \in calls' : \E l \in calls : l.id = i.id
          /\ \A i \in calls' : i \in calls \/ i.phase # "apply"
      BY <1>6, <2>1, <2>6, <3>1
    <3>4. AllFrames' \subseteq AllFrames \cup {f}
      BY <2>2, <2>4, <3>2, <3>3, FramePlaces, FramePlacesNext DEF NodeFrames
    <3>5. f \in Carried' /\ Carried \subseteq Carried'
      BY <2>4, <3>2, <3>3, FramePlaces, FramePlacesNext
    <3>6. \A i \in Ids : a'.hist[i].kind = "deleted" =>
              a.hist[i].kind = "deleted" \/ \E g \in Carried' : IsUnsend(g) /\ g.id = i
      BY <1>p, <3>1, <3>2, <3>5
    <3>7. PostedIsLanded'
      BY <1>i, <2>2, <2>4, <3>3, PostedStays
    <3>8. CopiesAreMessages'
      BY <1>i, <2>2, <3>2 DEF CopiesAreMessages
    <3>9. {f} \in SUBSET Frame /\ a.seal <= a'.seal /\ a.seal < f.seal /\ f.seal <= a'.seal
      BY <1>t, <3>1, <3>2, <3>s
    <3>10. f.id \in early' \/ Known(f.id)
      BY <1>i, <2>2, <3>1 DEF UnsentIsThere
    <3>11. QED
      BY <1>t, <2>2, <2>4, <3>3, <3>4, <3>5, <3>6, <3>7, <3>8, <3>9, <3>10, UnsendSender
  <2>7. QED BY <2>3, <2>5, <2>6
<1>10. ASSUME NEW k \in calls, NEW o \in k.out, RunCall(k, o) PROVE UnsendInv'
  <2>1. UNCHANGED <<a, planned, outcomes, round, b, dropped, late, drained, refused, early>> /\ k.phase = "send"
    BY <1>10 DEF RunCall, receiverVars, histVars
  <2>2. PICK d : /\ Run(o.frame, o.route, d)
                 /\ calls' = (calls \ {k}) \cup {[k EXCEPT !.phase = "apply", !.delivery = d]}
    BY <1>10 DEF RunCall
  <2>3. PICK j : j = [k EXCEPT !.phase = "apply", !.delivery = d]
    OBVIOUS
  <2>4. k \in Call /\ o.frame \in Frame /\ NetOK
    BY <1>10, <1>a, <1>t DEF Call, Outbound
  <2>5. /\ calls' = (calls \ {k}) \cup {j}
        /\ j.id = k.id /\ j.phase = "apply" /\ j.out = k.out /\ j.copies = k.copies /\ j.delivery = d
    BY <2>2, <2>3, <2>4 DEF Call
  <2>6. /\ InTransit \subseteq InTransit' /\ InTransit' \subseteq InTransit \cup {o.frame}
        /\ d.via # "Failed" => o.frame \in InTransit'
        /\ \A c \in d.copies : c.frame = o.frame
    BY <2>1, <2>2, <2>4, RunAdds
  <2>7. CallFrames' = CallFrames /\ RoundFrames' = RoundFrames /\ o.frame \in CallFrames
    BY <1>10, <2>1, <2>5 DEF CallFrames, RoundFrames, Frames
  <2>8. AllFrames' \subseteq AllFrames /\ Carried \subseteq Carried'
    BY <2>1, <2>6, <2>7, FramePlaces, FramePlacesNext
  <2>9. \A p \in k.out : p = o
    BY <1>10, <1>i DEF CallsAreSimple
  <2>10. PostedIsLanded'
    <3>1. \A f : Landed(f) => f \in InTransit' \/ f.seal \in b'.spent
      BY <2>1, <2>6 DEF Landed
    <3>2. j.delivery.via # "Failed" => \A p \in j.out : p.frame \in InTransit'
      BY <2>5, <2>6, <2>9
    <3>3. QED BY <1>i, <2>1, <2>5, <3>1, <3>2 DEF PostedIsLanded, Landed
  <2>11. CopiesAreMessages'
    BY <1>i, <2>1 DEF CopiesAreMessages
  <2>12. CallsAreSimple'
    BY <1>i, <2>5, <2>6, <2>9 DEF CallsAreSimple
  <2>13. (\A i \in calls' : \E l \in calls : l.id = i.id) /\ {} \in SUBSET Frame /\ a.seal <= a'.seal
    BY <1>t, <2>1, <2>5
  <2>14. QED
    BY <1>t, <2>1, <2>6, <2>8, <2>10, <2>11, <2>12, <2>13, UnsendSender
<1>11. ASSUME NEW k \in calls, NEW o \in k.out, ApplyCall(k, o) PROVE UnsendInv'
  <2> DEFINE failed == k.delivery.via = "Failed"
             held == IF failed /\ ~HasRelayRoute THEN Hold(a.held, {o.frame}) ELSE a.held
             copies == IF o.done = "CallerRecords" /\ ~failed THEN k.delivery.copies
                       ELSE a.relay_receipts[k.id]
  <2>1. /\ UNCHANGED <<planned, outcomes, round, b, dropped, late, drained, wire, mailbox, early>>
        /\ k.phase = "apply" /\ calls' = calls \ {k}
        /\ refused' = IF failed /\ HasRelayRoute THEN refused \cup {k.id} ELSE refused
    BY <1>11 DEF ApplyCall, Locked, receiverVars, netVars, CallEnds
  <2>2. a' = [a EXCEPT !.held = held, !.relay_receipts[k.id] = copies]
    BY <1>11 DEF ApplyCall
  <2>3. k \in Call /\ k.id \in Ids
    BY <1>11, <1>a DEF Call
  <2>4. /\ o.frame.id = k.id /\ \A p \in k.out : p = o
        /\ o.done = "CallerRecords" => IsMessage(o.frame)
        /\ \A c \in k.delivery.copies : c.frame = o.frame
    BY <1>11, <1>i DEF CallsAreSimple
  <2>5. /\ Frames(held) \subseteq Frames(a.held) \cup {o.frame} /\ Frames(a.held) \subseteq Frames(held)
        /\ failed /\ ~HasRelayRoute => o.frame \in Frames(held)
    BY HoldFrames
  <2>6. \A c \in copies : c \in a.relay_receipts[k.id] \/ IsMessage(c.frame)
    BY <2>4
  <2> HIDE DEF held, copies
  <2>7. /\ a'.hist = a.hist /\ a'.pending_sends = a.pending_sends /\ a'.outbox = a.outbox
        /\ a'.seal = a.seal /\ a'.held = held
        /\ a'.relay_receipts = [a.relay_receipts EXCEPT ![k.id] = copies]
    BY <1>a, <2>2, NodeParts
  <2>8. InTransit' = InTransit /\ RoundFrames' = RoundFrames
    BY <2>1, TransitStays DEF RoundFrames
  <2>9. /\ CallFrames' \subseteq CallFrames /\ o.frame \in CallFrames
        /\ \A f \in CallFrames : f \in CallFrames' \/ f = o.frame
    <3>1. CallFrames' \subseteq CallFrames
      BY <2>1 DEF CallFrames
    <3>2. o.frame \in Frames(k.out) /\ \A f \in Frames(k.out) : f = o.frame
      BY <1>11, <2>4 DEF Frames
    <3>3. QED BY <1>11, <2>1, <3>1, <3>2 DEF CallFrames
  <2>10. AllFrames' \subseteq AllFrames
    BY <2>1, <2>5, <2>7, <2>8, <2>9, FramePlaces, FramePlacesNext DEF NodeFrames
  <2>11. \A f \in Carried : IsUnsend(f) => f \in Carried' \/ Landed(f) \/ f.id \in refused'
    <3>1. \A f \in Carried : f \in Carried' \/ f = o.frame
      BY <2>5, <2>7, <2>8, <2>9, FramePlaces, FramePlacesNext
    <3>2. CASE failed /\ ~HasRelayRoute
      BY <2>5, <2>7, <3>1, <3>2, FramePlacesNext
    <3>3. CASE failed /\ HasRelayRoute
      BY <2>1, <2>4, <3>1, <3>3
    <3>4. CASE ~failed
      <4>1. IsUnsend(o.frame) => Landed(o.frame)
        BY <1>11, <1>i, <2>1, <3>4 DEF PostedIsLanded
      <4>2. QED BY <3>1, <4>1
    <3>5. QED BY <3>2, <3>3, <3>4
  <2>12. PostedIsLanded'
    BY <1>i, <2>1, <2>8, PostedStays
  <2>13. CopiesAreMessages'
    <3>1. \A i \in Ids : \A c \in a'.relay_receipts[i] : c \in a.relay_receipts[i] \/ IsMessage(c.frame)
      BY <1>p, <2>3, <2>6, <2>7
    <3>2. QED BY <1>i, <2>1, <2>7, <3>1 DEF CopiesAreMessages
  <2>14. CallsAreSimple'
    BY <1>i, <2>1 DEF CallsAreSimple
  <2>15. /\ {} \in SUBSET Frame /\ a.seal <= a'.seal /\ refused \subseteq refused'
         /\ \A i \in calls' : \E l \in calls : l.id = i.id
    BY <1>t, <2>1, <2>7
  <2>16. QED
    BY <1>t, <2>1, <2>7, <2>8, <2>10, <2>11, <2>12, <2>13, <2>14, <2>15, UnsendSender
<1>12. CASE PlanPendingSends
  <2>1. /\ UNCHANGED <<outcomes, round, calls, b, dropped, late, drained, wire, mailbox, refused, early>>
        /\ planned = {} /\ planned' = a.pending_sends
    BY <1>12 DEF PlanPendingSends, Locked, receiverVars, netVars, histVars
  <2>2. /\ a'.hist = a.hist /\ a'.pending_sends = {} /\ a'.outbox = a.outbox
        /\ a'.seal = a.seal /\ a'.held = a.held /\ a'.relay_receipts = a.relay_receipts
    BY <1>12, <1>a, NodeParts DEF PlanPendingSends
  <2>3. InTransit' = InTransit /\ RoundFrames' = RoundFrames /\ CallFrames' = CallFrames
    BY <2>1, TransitStays DEF RoundFrames, CallFrames
  <2>4. AllFrames' = AllFrames /\ Carried' = Carried
    BY <2>1, <2>2, <2>3, FramePlaces, FramePlacesNext DEF NodeFrames
  <2>5. PostedIsLanded'
    BY <1>i, <2>1, <2>3, PostedStays
  <2>6. CopiesAreMessages' /\ CallsAreSimple'
    BY <1>i, <2>1, <2>2 DEF CopiesAreMessages, CallsAreSimple
  <2>7. {} \in SUBSET Frame /\ a.seal <= a'.seal
    BY <1>t, <2>2
  <2>8. QED
    BY <1>t, <2>1, <2>2, <2>3, <2>4, <2>5, <2>6, <2>7, UnsendSender
<1>13. ASSUME NEW f \in planned, ExecuteSend(f) PROVE UnsendInv'
  <2>1. UNCHANGED <<a, round, calls, b, dropped, late, drained, refused, early>> /\ planned' = planned \ {f}
    BY <1>13 DEF ExecuteSend, receiverVars, histVars
  <2>2. f \in Frame /\ NetOK
    BY <1>13, <1>t DEF SenderOK
  <2>3. PICK o : /\ outcomes' = outcomes \cup {o} /\ o.frame = f /\ \A c \in o.copies : c.frame = f
                 /\ InTransit \subseteq InTransit' /\ InTransit' \subseteq InTransit \cup {f}
    <3>1. PICK delivered \in BOOLEAN :
             /\ wire' = IF delivered THEN wire \cup {f} ELSE wire
             /\ \/ \E took \in SUBSET Relays, stray \in SUBSET Relays :
                     /\ Post(f, took, stray)
                     /\ outcomes' = outcomes \cup
                          {[frame |-> f, delivered |-> delivered, copies |-> Copies(f, took)]}
                \/ /\ outcomes' = outcomes \cup
                          {[frame |-> f, delivered |-> TRUE, copies |-> {}]}
                   /\ UNCHANGED mailbox
      BY <1>13 DEF ExecuteSend
    <3>2. InTransit = wire \cup FramesOf(drained) \cup MailFrames
          /\ InTransit' = wire' \cup FramesOf(drained') \cup MailFrames'
      BY DEF InTransit, MailFrames
    <3>3. ASSUME NEW took \in SUBSET Relays, NEW stray \in SUBSET Relays, Post(f, took, stray),
                 outcomes' = outcomes \cup
                          {[frame |-> f, delivered |-> delivered, copies |-> Copies(f, took)]}
          PROVE  \E o : /\ outcomes' = outcomes \cup {o} /\ o.frame = f
                        /\ \A c \in o.copies : c.frame = f
                        /\ InTransit \subseteq InTransit' /\ InTransit' \subseteq InTransit \cup {f}
      <4>1. MailFrames \subseteq MailFrames' /\ MailFrames' \subseteq MailFrames \cup {f}
        BY <2>2, <3>3, PostAdds
      <4>2. InTransit \subseteq InTransit' /\ InTransit' \subseteq InTransit \cup {f}
        BY <2>1, <3>1, <3>2, <4>1
      <4>3. \A c \in Copies(f, took) : c.frame = f
        BY DEF Copies
      <4>4. PICK o : o = [frame |-> f, delivered |-> delivered, copies |-> Copies(f, took)]
        OBVIOUS
      <4>5. outcomes' = outcomes \cup {o} /\ o.frame = f /\ \A c \in o.copies : c.frame = f
        BY <3>3, <4>3, <4>4
      <4>6. QED BY <4>2, <4>5
    <3>4. ASSUME outcomes' = outcomes \cup {[frame |-> f, delivered |-> TRUE, copies |-> {}]},
                 UNCHANGED mailbox
          PROVE  \E o : /\ outcomes' = outcomes \cup {o} /\ o.frame = f
                        /\ \A c \in o.copies : c.frame = f
                        /\ InTransit \subseteq InTransit' /\ InTransit' \subseteq InTransit \cup {f}
      <4>1. InTransit \subseteq InTransit' /\ InTransit' \subseteq InTransit \cup {f}
        BY <2>1, <3>1, <3>4 DEF InTransit
      <4>2. PICK o : o = [frame |-> f, delivered |-> TRUE, copies |-> {}]
        OBVIOUS
      <4>3. outcomes' = outcomes \cup {o} /\ o.frame = f /\ \A c \in o.copies : c.frame = f
        BY <3>4, <4>2
      <4>4. QED BY <4>1, <4>3
    <3>5. QED BY <3>1, <3>3, <3>4
  <2>4. CallFrames' = CallFrames /\ RoundFrames' = RoundFrames /\ Frames(outcomes') = Frames(outcomes) \cup {f}
    BY <2>1, <2>3 DEF CallFrames, RoundFrames, Frames
  <2>5. AllFrames' \subseteq AllFrames /\ Carried \subseteq Carried'
    BY <1>13, <2>1, <2>3, <2>4, FramePlaces, FramePlacesNext
  <2>6. PostedIsLanded'
    BY <1>i, <2>1, <2>3, PostedStays
  <2>7. IsMessage(f) /\ \A c \in o.copies : IsMessage(c.frame)
    BY <1>13, <1>i, <2>3 DEF CopiesAreMessages
  <2>8. CopiesAreMessages' /\ CallsAreSimple'
    BY <1>i, <2>1, <2>3, <2>7 DEF CopiesAreMessages, CallsAreSimple
  <2>9. {} \in SUBSET Frame /\ a.seal <= a'.seal
    BY <1>t, <2>1
  <2>10. QED
    BY <1>t, <2>1, <2>3, <2>5, <2>6, <2>8, <2>9, UnsendSender
<1>14. ASSUME NEW direct, NEW relayed, NEW due, NEW timed \in SUBSET Ids, NEW may_retry,
              Tick(direct, relayed, due, timed, may_retry)
       PROVE  UnsendInv'
  <2>1. /\ UNCHANGED <<planned, round, calls, b, dropped, late, drained, wire, mailbox, refused, early>>
        /\ outcomes' = {} /\ Follows(a, a', outcomes)
    <3>1. a' = TickNode(direct, relayed, due, timed, may_retry) /\ a.seal + Cardinality(timed) <= MaxSeal
      BY <1>14 DEF Tick
    <3>2. Follows(a, a', outcomes)
      BY <3>1, TickFollows
    <3>3. QED BY <1>14, <3>2 DEF Tick, receiverVars, histVars
  <2>2. NodeOK(a') /\ NodeFrames(a') \subseteq Frame
    <3>1. NodeOK(a')
      BY <1>t, TypeGroupsNext DEF SenderOK
    <3>2. QED BY <3>1, NodeParts DEF NodeFrames, Frames, HeldSend, Outbound
  <2>3. PICK New \in SUBSET Frame :
           New = {f \in NodeFrames(a') : IsMessage(f) /\ a.seal < f.seal /\ f.seal <= a'.seal}
    BY <2>2
  <2>4. \A f \in New : IsMessage(f) /\ ~IsUnsend(f) /\ a.seal < f.seal /\ f.seal <= a'.seal
    BY <2>3 DEF IsMessage, IsUnsend
  <2>5. \A f \in NodeFrames(a') : f \in NodeFrames(a) \/ f \in Frames(outcomes) \/ f \in New
    BY <2>1, <2>3 DEF Follows, IsMessage
  <2>6. InTransit' = InTransit /\ RoundFrames' = RoundFrames /\ CallFrames' = CallFrames
    BY <2>1, TransitStays DEF RoundFrames, CallFrames
  <2>7. AllFrames' \subseteq AllFrames \cup New
    <3>1. Frames(outcomes') = {}
      BY <2>1 DEF Frames
    <3>2. QED BY <2>1, <2>5, <2>6, <3>1, FramePlaces, FramePlacesNext
  <2>8. Carried \subseteq Carried'
    BY <2>1, <2>6, FramePlaces, FramePlacesNext DEF Follows
  <2>9. PostedIsLanded'
    BY <1>i, <2>1, <2>6, PostedStays
  <2>10. CopiesAreMessages'
    <3>1. a'.pending_sends = a.pending_sends
      BY <2>1 DEF Follows
    <3>2. \A o \in a'.outbox : o.done = "Held" \/ IsMessage(o.frame)
      BY <1>i, <2>1 DEF CopiesAreMessages, Follows, IsMessage
    <3>3. \A id \in Ids : \A c \in a'.relay_receipts[id] : IsMessage(c.frame)
      BY <1>i, <2>1 DEF CopiesAreMessages, Follows
    <3>4. QED BY <1>i, <2>1, <3>1, <3>2, <3>3 DEF CopiesAreMessages
  <2>11. CallsAreSimple'
    BY <1>i, <2>1 DEF CallsAreSimple
  <2>12. a.seal <= a'.seal /\ \A id \in Ids : a'.hist[id].kind = a.hist[id].kind
    BY <2>1 DEF Follows
  <2>13. QED
    BY <1>t, <2>1, <2>4, <2>6, <2>7, <2>8, <2>9, <2>10, <2>11, <2>12, UnsendSender
<1>15. CASE TakeOutbox
  <2>1. /\ UNCHANGED <<planned, outcomes, calls, b, dropped, late, drained, wire, mailbox, refused, early>>
        /\ round.todo = {} /\ round.finished = {}
        /\ round'.todo = a.outbox /\ round'.finished = {}
    BY <1>15 DEF TakeOutbox, Locked, receiverVars, netVars, histVars
  <2>2. /\ a'.hist = a.hist /\ a'.pending_sends = a.pending_sends /\ a'.outbox = {}
        /\ a'.seal = a.seal /\ a'.held = a.held /\ a'.relay_receipts = a.relay_receipts
    BY <1>15, <1>a, NodeParts DEF TakeOutbox
  <2>3. InTransit' = InTransit /\ CallFrames' = CallFrames
    BY <2>1, TransitStays DEF CallFrames
  <2>4. AllFrames' \subseteq AllFrames /\ Carried' = Carried
    <3>1. RoundFrames' = Frames(a.outbox) /\ Frames(a'.outbox) = {}
      BY <2>1, <2>2 DEF RoundFrames, Frames
    <3>2. QED BY <2>1, <2>2, <2>3, <3>1, FramePlaces, FramePlacesNext DEF NodeFrames
  <2>5. PostedIsLanded'
    BY <1>i, <2>1, <2>3, PostedStays
  <2>6. CopiesAreMessages' /\ CallsAreSimple'
    BY <1>i, <2>1, <2>2 DEF CopiesAreMessages, CallsAreSimple
  <2>7. {} \in SUBSET Frame /\ a.seal <= a'.seal
    BY <1>t, <2>2
  <2>8. QED
    BY <1>t, <2>1, <2>2, <2>3, <2>4, <2>5, <2>6, <2>7, UnsendSender
<1>16. ASSUME NEW o \in round.todo, RunOutbox(o) PROVE UnsendInv'
  <2>1. UNCHANGED <<a, planned, outcomes, calls, b, dropped, late, drained, refused, early>>
    BY <1>16 DEF RunOutbox, receiverVars, histVars
  <2>2. PICK d : /\ Run(o.frame, o.route, d)
                 /\ round' = [round EXCEPT !.todo = @ \ {o},
                                           !.finished = @ \cup {[out |-> o, delivery |-> d]}]
    BY <1>16 DEF RunOutbox
  <2>3. o.frame \in Frame /\ NetOK
    BY <1>16, <1>a, <1>t DEF Round, Outbound
  <2>4. PICK x : x = [out |-> o, delivery |-> d]
    OBVIOUS
  <2>5. /\ x.out = o /\ x.delivery = d
        /\ round'.todo = round.todo \ {o} /\ round'.finished = round.finished \cup {x}
    BY <1>a, <2>2, <2>4 DEF Round
  <2>6. /\ InTransit \subseteq InTransit' /\ InTransit' \subseteq InTransit \cup {o.frame}
        /\ d.via # "Failed" => o.frame \in InTransit'
        /\ \A c \in d.copies : c.frame = o.frame
    BY <2>1, <2>2, <2>3, RunAdds
  <2>7. CallFrames' = CallFrames /\ RoundFrames' \subseteq RoundFrames /\ o.frame \in RoundFrames
    BY <1>16, <2>1, <2>5 DEF CallFrames, RoundFrames, Frames
  <2>8. AllFrames' \subseteq AllFrames /\ Carried \subseteq Carried'
    BY <2>1, <2>6, <2>7, FramePlaces, FramePlacesNext
  <2>9. PostedIsLanded'
    <3>1. \A f : Landed(f) => f \in InTransit' \/ f.seal \in b'.spent
      BY <2>1, <2>6 DEF Landed
    <3>2. x.delivery.via # "Failed" => x.out.frame \in InTransit'
      BY <2>5, <2>6
    <3>3. QED BY <1>i, <2>1, <2>5, <3>1, <3>2 DEF PostedIsLanded, Landed
  <2>10. CopiesAreMessages'
    <3>1. x.out.done = "Held" \/ IsMessage(x.out.frame)
      BY <1>16, <1>i, <2>5 DEF CopiesAreMessages
    <3>2. \A c \in x.delivery.copies : c.frame = x.out.frame
      BY <2>5, <2>6
    <3>3. QED BY <1>i, <2>1, <2>5, <3>1, <3>2 DEF CopiesAreMessages
  <2>11. CallsAreSimple'
    BY <1>i, <2>1 DEF CallsAreSimple
  <2>12. {} \in SUBSET Frame /\ a.seal <= a'.seal
    BY <1>t, <2>1
  <2>13. QED
    BY <1>t, <2>1, <2>6, <2>8, <2>9, <2>10, <2>11, <2>12, UnsendSender
<1>17. ASSUME NEW x \in round.finished, ApplyOutbound(x) PROVE UnsendInv'
  <2>1. /\ UNCHANGED <<planned, outcomes, calls, b, dropped, late, drained, wire, mailbox, refused, early>>
        /\ round'.todo = round.todo /\ round'.finished = round.finished \ {x}
        /\ a' = IF x.out.done = "Held" THEN ApplyHeld(a, x) ELSE ApplyUnconfirmed(a, x)
    BY <1>17, <1>a DEF ApplyOutbound, receiverVars, netVars, histVars, Round
  <2>2. x \in Finished
    BY <1>17, <1>a DEF Round
  <2>3. /\ \A id \in Ids : a'.hist[id].kind = a.hist[id].kind
        /\ a'.pending_sends = a.pending_sends /\ a'.seal = a.seal
        /\ \A f \in Frames(a.held) : \/ f \in Frames(a'.held)
                                     \/ f = x.out.frame /\ x.delivery.via # "Failed"
        /\ NodeFrames(a') \subseteq NodeFrames(a)
        /\ \A o \in a'.outbox : o \in a.outbox \/ o.done = "Held"
        /\ \A id \in Ids : \A c \in a'.relay_receipts[id] :
             c \in a.relay_receipts[id] \/ IsMessage(c.frame)
    <3>1. \A c \in x.delivery.copies : c.frame = x.out.frame
      BY <1>17, <1>i DEF CopiesAreMessages
    <3>2. CASE x.out.done = "Held"
      <4>1. a' = ApplyHeld(a, x)
        BY <2>1, <3>2
      <4>2. QED BY <1>a, <2>2, <3>1, <4>1, HeldFollows DEF IsMessage
    <3>3. CASE x.out.done # "Held"
      <4>1. a' = ApplyUnconfirmed(a, x) /\ IsMessage(x.out.frame)
        BY <1>17, <1>i, <2>1, <3>3 DEF CopiesAreMessages
      <4>2. /\ \A id \in Ids : a'.hist[id].kind = a.hist[id].kind
            /\ a'.pending_sends = a.pending_sends /\ a'.seal = a.seal
            /\ a'.held = a.held /\ a'.outbox = a.outbox
            /\ \A id \in Ids : \A c \in a'.relay_receipts[id] :
                 c \in a.relay_receipts[id] \/ c \in x.delivery.copies \/ c.frame = x.out.frame
        BY <1>a, <2>2, <4>1, UnconfirmedFollows
      <4>3. QED BY <3>1, <4>1, <4>2 DEF NodeFrames
    <3>4. QED BY <3>2, <3>3
  <2>4. InTransit' = InTransit /\ CallFrames' = CallFrames /\ RoundFrames' \subseteq RoundFrames
    BY <2>1, TransitStays DEF CallFrames, RoundFrames
  <2>5. AllFrames' \subseteq AllFrames
    BY <2>1, <2>3, <2>4, FramePlaces, FramePlacesNext
  <2>6. \A f \in Carried : IsUnsend(f) => f \in Carried' \/ Landed(f)
    <3>1. IsUnsend(x.out.frame) /\ x.delivery.via # "Failed" => Landed(x.out.frame)
      BY <1>17, <1>i DEF PostedIsLanded
    <3>2. QED BY <2>3, <2>4, <3>1, FramePlaces, FramePlacesNext
  <2>7. PostedIsLanded'
    BY <1>i, <2>1, <2>4, PostedStays
  <2>8. CopiesAreMessages'
    BY <1>i, <2>1, <2>3 DEF CopiesAreMessages
  <2>9. CallsAreSimple'
    BY <1>i, <2>1 DEF CallsAreSimple
  <2>10. {} \in SUBSET Frame /\ a.seal <= a'.seal
    BY <1>t, <2>3
  <2>11. QED
    BY <1>t, <2>1, <2>3, <2>4, <2>5, <2>6, <2>7, <2>8, <2>9, <2>10, UnsendSender
<1>18. ASSUME NEW f \in wire, Pump(f) PROVE UnsendInv'
  BY <1>18, <1>t, TakenIn, UnsendReceiver DEF Pump
<1>19. ASSUME UNCHANGED <<senderVars, b, dropped, late, refused, early>>, InTransit' = InTransit PROVE UnsendInv'
  <2>1. UNCHANGED <<a, planned, outcomes, round, calls>>
    BY <1>19 DEF senderVars
  <2>2. RoundFrames' = RoundFrames /\ CallFrames' = CallFrames
    BY <2>1 DEF RoundFrames, CallFrames
  <2>3. AllFrames' = AllFrames /\ Carried' = Carried
    BY <1>19, <2>1, <2>2, FramePlaces, FramePlacesNext
  <2>4. PostedIsLanded'
    BY <1>i, <1>19, <2>1, PostedStays
  <2>5. CopiesAreMessages' /\ CallsAreSimple'
    BY <1>i, <2>1 DEF CopiesAreMessages, CallsAreSimple
  <2>6. {} \in SUBSET Frame /\ a.seal <= a'.seal
    BY <1>t, <2>1
  <2>7. QED
    BY <1>t, <1>19, <2>1, <2>3, <2>4, <2>5, <2>6, UnsendSender
<1>20. ASSUME NEW r \in Relays, TakeMailbox(r) PROVE UnsendInv'
  BY <1>19, <1>20, <1>t, TakenIn DEF TakeMailbox, histVars
<1>21. CASE ApplyHarvest
  BY <1>21, <1>t, TakenIn, UnsendReceiver DEF ApplyHarvest
<1>22. CASE SendReceipts
  BY <1>19, <1>22, TransitStays DEF SendReceipts, histVars
<1>23. ASSUME NEW id \in acks, LoseReceipt(id) PROVE UnsendInv'
  BY <1>19, <1>23, TransitStays DEF LoseReceipt, histVars, receiverVars
<1>27. CASE ClockStep
  BY <1>19, <1>27, TransitStays
     DEF ClockStep, AllowanceFills, DayTurns, WindowPasses, netVars, histVars
\* The failures that lose a frame do not happen.
<1>24. ASSUME \/ \E f \in wire : LoseFrame(f)
              \/ \E r \in Relays : LoseTake(r)
              \/ SenderRestarts \/ ReceiverRestarts
       PROVE  FALSE
  BY <1>24 DEF LoseFrame, LoseTake, SenderRestarts, ReceiverRestarts, Pay, NoFrameLost
<1>25. CASE UNCHANGED vars
  BY <1>19, <1>25, TransitStays DEF vars, histVars, receiverVars, netVars
<1>26. QED
  <2>1. UserStep => UnsendInv'
    BY <1>1, <1>3, <1>4 DEF UserStep
  <2>2. CallStep => UnsendInv'
    BY <1>5, <1>8, <1>9, <1>10, <1>11 DEF CallStep
  <2>3. PollerStep => UnsendInv'
    <3>1. \A direct \in SUBSET acks : \A relayed :
            \A timed \in SUBSET (a.awaiting_receipt \ (direct \cup relayed)) : timed \in SUBSET Ids
      BY <1>a, NodeParts
    <3>2. TickStep => UnsendInv'
      BY <1>14, <3>1 DEF TickStep
    <3>3. QED BY <1>12, <1>13, <1>15, <1>16, <1>17, <3>2 DEF PollerStep
  <2>4. ReceiverStep => UnsendInv'
    BY <1>18, <1>20, <1>21, <1>22 DEF ReceiverStep
  <2>5. Failure => UnsendInv'
    BY <1>23, <1>24 DEF Failure
  <2>6. QED
    BY <1>25, <1>27, <2>1, <2>2, <2>3, <2>4, <2>5 DEF Next

\* It holds at the start, where nothing is sealed.
LEMMA UnsendInit == Init => UnsendInv
<1> SUFFICES ASSUME Init PROVE UnsendInv
  OBVIOUS
<1>1. /\ a.pending_sends = {} /\ a.held = {} /\ a.outbox = {} /\ a.seal = 0
      /\ a.relay_receipts = [id \in Ids |-> {}] /\ a.hist = [id \in Ids |-> NotComposed]
      /\ planned = {} /\ outcomes = {} /\ round.todo = {} /\ round.finished = {} /\ calls = {}
      /\ wire = {} /\ drained = <<>> /\ b.spent = {} /\ mailbox = [r \in Relays |-> <<>>]
  BY DEF Init, NoRound
<1>2. AllFrames = {}
  <2>1. FramesOf(<<>>) = {}
    BY DEF FramesOf
  <2>2. InTransit = {}
    BY <1>1, <2>1 DEF InTransit
  <2>3. QED BY <1>1, <2>2, FramePlaces DEF NodeFrames, Frames, RoundFrames, CallFrames
<1>3. OwnKey /\ UnsentIsThere /\ PostedIsLanded /\ SpentIsEnded
  BY <1>1, <1>2 DEF OwnKey, UnsentIsThere, PostedIsLanded, SpentIsEnded
<1>4. CopiesAreMessages /\ CallsAreSimple
  BY <1>1 DEF CopiesAreMessages, CallsAreSimple
<1>5. UnsendCarried
  <2>1. NotComposed.kind = "none"
    BY DEF NotComposed
  <2>2. \A id \in Ids : a.hist[id] = NotComposed
    BY <1>1
  <2>3. QED BY ONLY <2>1, <2>2 DEF UnsendCarried
<1>6. QED BY <1>3, <1>4, <1>5 DEF UnsendInv

\* Once everything has settled nothing is carried, so a message unsent on a
\* receipt is a tombstone on both sides.
THEOREM UnsendsConverge == NoFrameLost => (Spec => []UnsendConverges)
<1> SUFFICES ASSUME NoFrameLost PROVE Spec => []UnsendConverges
  OBVIOUS
<1>1. UnsendInv => UnsendConverges
  <2> SUFFICES ASSUME UnsendInv, Quiet PROVE UnsendConverges
    BY DEF UnsendConverges
  <2>1. Carried = {}
    BY DEF Quiet, Carried, AtWork
  <2>2. QED BY <2>1 DEF UnsendInv, UnsendCarried, UnsendConverges, Ended, Deleted
<1>2. Init => UnsendInv /\ DurableInv /\ TypeInv
  BY UnsendInit, DurableInit, TypeInit
<1>3. UnsendInv /\ DurableInv /\ TypeInv /\ [Next]_vars => (UnsendInv /\ DurableInv /\ TypeInv)'
  BY UnsendStep, DurableStep, TypeStep
<1>4. QED
  BY <1>1, <1>2, <1>3, PTL DEF Spec

-----------------------------------------------------------------------------
(* What the node functions do to the messages that wait for a receipt *)

\* A relay copy behind an unconfirmed message is queued, and a message whose
\* badge says "sent" has the clock running or such a copy queued.
Resending(S, id) == \E o \in S : o.done = "Unconfirmed" /\ o.frame.kind = "Message" /\ o.frame.id = id
OnWatch(n, id) ==
    n.hist[id].delivery = "sent" /\ (id \in n.awaiting_receipt \/ Resending(n.outbox, id))

\* The queues only grow, and of a message nothing changes but its badge.
Extends(n, m) ==
    /\ \A id \in Ids : m.hist[id].kind = n.hist[id].kind /\ m.hist[id].text = n.hist[id].text
    /\ m.pending_sends = n.pending_sends
    /\ Frames(n.held) \subseteq Frames(m.held)
    /\ n.outbox \subseteq m.outbox

\* Two extensions, one after the other, are one.
LEMMA ExtendsTwice ==
    ASSUME NEW n, NEW m, NEW p, Extends(n, m), Extends(m, p) PROVE Extends(n, p)
BY DEF Extends

\* flush_held_for leaves the history and the clocks alone.
LEMMA FlushExtends ==
    ASSUME NEW n, NodeOK(n), NEW d, NEW r
    PROVE  LET m == FlushHeld(n, d, r)
           IN  /\ Extends(n, m) /\ m.hist = n.hist /\ m.awaiting_receipt = n.awaiting_receipt
               /\ m.relay_receipts = n.relay_receipts
<1> DEFINE idle == {h \in n.held : ~h.in_flight}
           go == IF HasRelayRoute THEN idle ELSE IF r THEN Oldest(n.held) \cap idle ELSE {}
           route == IF HasRelayRoute /\ ~d THEN "RelayOnly" ELSE "DirectThenRelay"
           held == (n.held \ go) \cup {[h EXCEPT !.in_flight = TRUE] : h \in go}
           out == n.outbox \cup {[frame |-> h.frame, route |-> route, done |-> "Held"] : h \in go}
           m == FlushHeld(n, d, r)
<1>1. m = [n EXCEPT !.held = held, !.outbox = out]
  BY DEF FlushHeld
<1>2. n.outbox \subseteq out
  OBVIOUS
<1>3. Frames(m.held) = Frames(n.held)
  BY FlushFollows
<1> HIDE DEF held, out, m
<1>4. /\ m.hist = n.hist /\ m.pending_sends = n.pending_sends /\ m.outbox = out
      /\ m.awaiting_receipt = n.awaiting_receipt /\ m.relay_receipts = n.relay_receipts
  BY <1>1, NodeParts
<1>5. QED BY <1>2, <1>3, <1>4 DEF Extends, m

\* A receipt takes only the messages it names off the clock.
LEMMA ReceiptedExtends ==
    ASSUME NEW n, NodeOK(n), NEW ids, NEW d
    PROVE  LET m == Receipted(n, ids, d)
           IN  /\ Extends(n, m) /\ m.relay_receipts = n.relay_receipts
               /\ \A id \in Ids \ ids : /\ m.hist[id] = n.hist[id]
                                        /\ id \in n.awaiting_receipt => id \in m.awaiting_receipt
<1> DEFINE h == [id \in Ids |-> IF id \in ids /\ Present(n.hist[id])
                                THEN [n.hist[id] EXCEPT !.delivery = "delivered"]
                                ELSE n.hist[id]]
           w == n.awaiting_receipt \ ids
           m == [n EXCEPT !.hist = h, !.awaiting_receipt = w]
           Kept(p) == /\ Extends(n, p) /\ p.relay_receipts = n.relay_receipts
                      /\ \A id \in Ids \ ids : /\ p.hist[id] = n.hist[id]
                                               /\ id \in n.awaiting_receipt => id \in p.awaiting_receipt
<1>1. /\ h \in [Ids -> Sent]
      /\ \A id \in Ids : h[id].kind = n.hist[id].kind /\ h[id].text = n.hist[id].text
      /\ \A id \in Ids \ ids : h[id] = n.hist[id]
  <2>1. \A id \in Ids : n.hist[id] \in Sent /\ [n.hist[id] EXCEPT !.delivery = "delivered"] \in Sent
    BY SetBadge, NodeParts DEF Badges
  <2>2. \A id \in Ids : /\ [n.hist[id] EXCEPT !.delivery = "delivered"].kind = n.hist[id].kind
                        /\ [n.hist[id] EXCEPT !.delivery = "delivered"].text = n.hist[id].text
    BY <2>1 DEF Sent
  <2>3. QED BY <2>1, <2>2
<1>2. Receipted(n, ids, d) = IF d /\ ids # {} THEN FlushHeld(m, TRUE, TRUE) ELSE m
  BY DEF Receipted
<1> HIDE DEF h
<1>3. w \in SUBSET Ids /\ \A id \in Ids \ ids : id \in n.awaiting_receipt => id \in w
  BY NodeParts
<1> HIDE DEF w
<1>4. NodeOK(m)
  BY <1>1, <1>3 DEF NodeOK, Node
<1>5. /\ m.hist = h /\ m.pending_sends = n.pending_sends /\ m.held = n.held /\ m.outbox = n.outbox
      /\ m.awaiting_receipt = w /\ m.relay_receipts = n.relay_receipts
  BY NodeParts
<1> HIDE DEF m
<1>6. Kept(m)
  BY <1>1, <1>3, <1>5 DEF Extends
<1>7. Kept(FlushHeld(m, TRUE, TRUE))
  <2> DEFINE p == FlushHeld(m, TRUE, TRUE)
  <2>1. \A x, y : LET q == FlushHeld(m, x, y)
                  IN  /\ Extends(m, q) /\ q.hist = m.hist /\ q.awaiting_receipt = m.awaiting_receipt
                      /\ q.relay_receipts = m.relay_receipts
    BY <1>4, FlushExtends
  <2>2. /\ Extends(m, p) /\ p.hist = m.hist /\ p.awaiting_receipt = m.awaiting_receipt
        /\ p.relay_receipts = m.relay_receipts
    BY <2>1
  <2> HIDE DEF p
  <2>3. QED BY <1>6, <2>2, ExtendsTwice DEF p
<1>8. QED
  BY <1>2, <1>6, <1>7

\* The outcome of a send puts its message on the clock, or holds it.
LEMMA OutcomesExtend ==
    ASSUME NEW n, NodeOK(n), NEW outs \in SUBSET Outcome
    PROVE  LET m == ApplySendOutcomes(n, outs)
           IN  /\ Extends(n, m) /\ n.awaiting_receipt \subseteq m.awaiting_receipt
               /\ \A id \in Ids : \A c \in m.relay_receipts[id] :
                    \/ c \in n.relay_receipts[id]
                    \/ \E o \in outs : o.frame.id = id /\ c \in o.copies
               /\ \A id \in Ids : (\A o \in outs : o.frame.id # id) => m.hist[id] = n.hist[id]
               /\ \A o \in outs : (\A p \in outs : p.frame.id = o.frame.id => p = o) =>
                    IF o.delivered
                    THEN Present(n.hist[o.frame.id]) => OnWatch(m, o.frame.id)
                    ELSE o.copies = {} => o.frame \in Frames(m.held)
<1> DEFINE Of(id) == {o \in outs : o.frame.id = id}
           failed == {o \in outs : ~o.delivered /\ o.copies = {}}
           badge(o) == IF o.delivered THEN "sent"
                       ELSE IF o \in failed /\ ~HasRelayRoute THEN "waiting" ELSE "queued"
           h == [id \in Ids |-> IF Of(id) # {} /\ Present(n.hist[id])
                                THEN [n.hist[id] EXCEPT !.delivery =
                                        badge(CHOOSE o \in Of(id) : TRUE)]
                                ELSE n.hist[id]]
           r == [id \in Ids |-> IF \E o \in Of(id) : ~o.delivered /\ o.copies # {}
                                THEN UNION {o.copies : o \in Of(id)} ELSE n.relay_receipts[id]]
           w == n.awaiting_receipt \cup {o.frame.id : o \in {p \in outs : p.delivered}}
           q == Hold(n.held, {o.frame : o \in failed})
           m == ApplySendOutcomes(n, outs)
<1>1. m = [n EXCEPT !.hist = h, !.relay_receipts = r, !.awaiting_receipt = w, !.held = q]
  BY DEF ApplySendOutcomes
<1>2. \A id \in Ids : h[id].kind = n.hist[id].kind /\ h[id].text = n.hist[id].text
  <2> HIDE DEF badge, Of
  <2>1. \A id \in Ids : n.hist[id] \in Sent
    BY NodeParts
  <2>2. QED BY <2>1 DEF Sent
<1>3. \A id \in Ids : (\A o \in outs : o.frame.id # id) => h[id] = n.hist[id]
  OBVIOUS
<1>4. \A id \in Ids : \A c \in r[id] : \/ c \in n.relay_receipts[id]
                                       \/ \E o \in outs : o.frame.id = id /\ c \in o.copies
  OBVIOUS
<1>5. Frames(q) = Frames(n.held) \cup {o.frame : o \in failed}
  BY HoldFrames
<1>6. ASSUME NEW o \in outs, \A p \in outs : p.frame.id = o.frame.id => p = o, o.delivered,
             Present(n.hist[o.frame.id])
      PROVE  h[o.frame.id].delivery = "sent" /\ o.frame.id \in w
  <2>1. o.frame.id \in Ids
    BY DEF Outcome, Frame
  <2>2. Of(o.frame.id) = {o} /\ (CHOOSE p \in Of(o.frame.id) : TRUE) = o
    BY <1>6
  <2>3. badge(o) = "sent"
    BY <1>6
  <2>4. n.hist[o.frame.id] \in Sent
    BY <2>1, NodeParts
  <2>5. o.frame.id \in w
    BY <1>6
  <2> HIDE DEF Of, badge, w
  <2>6. h[o.frame.id] = [n.hist[o.frame.id] EXCEPT !.delivery = "sent"]
    BY <1>6, <2>1, <2>2, <2>3
  <2>7. QED BY <2>4, <2>5, <2>6 DEF Sent
<1>7. n.awaiting_receipt \subseteq w
  OBVIOUS
<1>8. \A o \in outs : ~o.delivered /\ o.copies = {} => o.frame \in Frames(q)
  BY <1>5
<1> HIDE DEF failed, h, r, w, q, m
<1>9. /\ m.hist = h /\ m.pending_sends = n.pending_sends /\ m.held = q /\ m.outbox = n.outbox
      /\ m.awaiting_receipt = w /\ m.relay_receipts = r
  BY <1>1, NodeParts
<1>10. Extends(n, m)
  BY <1>2, <1>5, <1>9 DEF Extends
<1>11. \A o \in outs : (\A p \in outs : p.frame.id = o.frame.id => p = o) =>
                    IF o.delivered
                    THEN Present(n.hist[o.frame.id]) => OnWatch(m, o.frame.id)
                    ELSE o.copies = {} => o.frame \in Frames(m.held)
  BY <1>6, <1>8, <1>9 DEF OnWatch
<1>12. QED
  BY <1>3, <1>4, <1>7, <1>9, <1>10, <1>11 DEF m

\* What the sweep takes off the clock it queues for the relays.
LEMMA SweepExtends ==
    ASSUME NEW n, NodeOK(n), NEW ids \in SUBSET Ids
    PROVE  LET m == SweepUnconfirmed(n, ids)
           IN  /\ Extends(n, m) /\ m.relay_receipts = n.relay_receipts
               /\ \A id \in Ids : Present(n.hist[id]) /\ OnWatch(n, id) => OnWatch(m, id)
               /\ m.hist = n.hist
<1> DEFINE again == Unconfirmed(n, ids)
           seal(id) == n.seal + Cardinality({j \in again : j <= id})
           route == IF HasRelayRoute THEN "RelayOnly" ELSE "DirectThenRelay"
           item(id) == [frame |-> Message(id, n.hist[id].text, seal(id)),
                                  route |-> route, done |-> "Unconfirmed"]
           New == {item(id) : id \in again}
           out == n.outbox \cup New
           top == n.seal + Cardinality(again)
           w == n.awaiting_receipt \ ids
           m == SweepUnconfirmed(n, ids)
<1>1. m = [n EXCEPT !.awaiting_receipt = w, !.seal = top, !.outbox = out]
  BY DEF SweepUnconfirmed
<1>2. \A id \in again : Resending(New, id)
  <2> HIDE DEF seal, route, again
  <2>1. \A id \in again : item(id).done = "Unconfirmed" /\ item(id).frame.kind = "Message"
                          /\ item(id).frame.id = id
    BY DEF Message
  <2>2. \A id \in again : item(id) \in New
    OBVIOUS
  <2> HIDE DEF item, New
  <2>3. QED BY <2>1, <2>2 DEF Resending
<1>3. \A id \in Ids : Present(n.hist[id]) /\ n.hist[id].delivery = "sent" /\ id \in n.awaiting_receipt
                        => id \in w \/ id \in again
  BY DEF Unconfirmed
<1> HIDE DEF New, top, again, w
<1>4. /\ m.hist = n.hist /\ m.pending_sends = n.pending_sends /\ m.held = n.held
      /\ m.outbox = n.outbox \cup New /\ m.awaiting_receipt = w
      /\ m.relay_receipts = n.relay_receipts
  <2> HIDE DEF m
  <2>1. QED BY <1>1, NodeParts
<1> HIDE DEF m
<1>5. \A id \in Ids : Present(n.hist[id]) /\ OnWatch(n, id) => OnWatch(m, id)
  BY <1>2, <1>3, <1>4 DEF OnWatch, Resending
<1>6. QED
  BY <1>4, <1>5 DEF Extends, m

\* The sweep gives every message it seals again a key of its own.
LEMMA SweepKeys ==
    ASSUME NEW n, NodeOK(n), NEW ids \in SUBSET Ids
    PROVE  \A f, g \in NodeFrames(SweepUnconfirmed(n, ids)) \ NodeFrames(n) :
             f.seal = g.seal => f = g
<1> DEFINE again == Unconfirmed(n, ids)
           upto(id) == {j \in again : j <= id}
           seal(id) == n.seal + Cardinality(upto(id))
           route == IF HasRelayRoute THEN "RelayOnly" ELSE "DirectThenRelay"
           frame(id) == Message(id, n.hist[id].text, seal(id))
           item(id) == [frame |-> frame(id), route |-> route, done |-> "Unconfirmed"]
           New == {item(id) : id \in again}
           m == SweepUnconfirmed(n, ids)
           out == n.outbox \cup New
           top == n.seal + Cardinality(again)
           w == n.awaiting_receipt \ ids
<1>1. m = [n EXCEPT !.awaiting_receipt = w, !.seal = top, !.outbox = out]
  BY DEF SweepUnconfirmed
<1>2. again \in SUBSET Ids /\ IsFiniteSet(again) /\ n.seal \in Nat /\ Ids \in SUBSET Nat
  <2>1. again \in SUBSET Ids
    BY DEF Unconfirmed
  <2>2. QED BY <2>1, NodeParts, DeliveryAssumption, FS_Subset DEF Seals
<1>3. ASSUME NEW i \in again, NEW j \in again, i < j PROVE seal(i) # seal(j)
  <2> HIDE DEF again
  <2>1. i \in Nat /\ j \in Nat
    BY <1>2
  <2>2. upto(j) \in SUBSET again /\ upto(i) \in SUBSET upto(j)
    <3>1. \A k \in again : k \in Nat /\ (k <= i => k <= j)
      BY <1>2, <1>3, <2>1
    <3>2. QED BY <3>1
  <2>3. j \in upto(j) /\ j \notin upto(i)
    BY <1>3, <2>1
  <2> HIDE DEF upto
  <2>4. IsFiniteSet(upto(j)) /\ IsFiniteSet(upto(i))
    BY <1>2, <2>2, FS_Subset
  <2>5. Cardinality(upto(j)) \in Nat /\ Cardinality(upto(i)) \in Nat
    BY <2>4, FS_CardinalityType
  <2>6. Cardinality(upto(j)) # Cardinality(upto(i))
    BY <2>2, <2>3, <2>4, FS_Subset
  <2>7. QED BY <1>2, <2>5, <2>6
<1>4. ASSUME NEW i \in again, NEW j \in again, seal(i) = seal(j) PROVE i = j
  <2>1. i \in Nat /\ j \in Nat
    BY <1>2
  <2> HIDE DEF again, seal
  <2>2. QED BY <1>3, <1>4, <2>1
<1>5. \A i \in again : frame(i).seal = seal(i)
  BY DEF Message
<1>6. \A i \in again : item(i).frame = frame(i)
  OBVIOUS
<1> HIDE DEF seal, frame
<1>7. \A f, g \in Frames(New) : f.seal = g.seal => f = g
  <2> SUFFICES ASSUME NEW i \in again, NEW j \in again, frame(i).seal = frame(j).seal
               PROVE  frame(i) = frame(j)
    <3> HIDE DEF again, item
    <3>1. \A f \in Frames(New) : \E i \in again : f = frame(i)
      BY <1>6 DEF Frames
    <3> HIDE DEF New
    <3>2. QED BY <3>1
  <2>1. i = j
    BY <1>4, <1>5
  <2>2. QED BY <2>1
<1> HIDE DEF New, top, again, w
<1>8. /\ m.pending_sends = n.pending_sends /\ m.held = n.held
      /\ m.outbox = n.outbox \cup New
  <2> HIDE DEF m
  <2>1. QED BY <1>1, NodeParts
<1> HIDE DEF m
<1>9. NodeFrames(m) \ NodeFrames(n) \subseteq Frames(New)
  BY <1>8 DEF NodeFrames, Frames
<1>10. QED
  BY <1>7, <1>9 DEF m

\* So does a tick, whose other frames were there.
LEMMA TickKeys ==
    ASSUME TypeInv, NEW direct, NEW relayed, NEW due, NEW timed \in SUBSET Ids, NEW may_retry,
           \A f \in NodeFrames(a) \cup Frames(outcomes) : f.seal <= a.seal
    PROVE  \A f, g \in NodeFrames(TickNode(direct, relayed, due, timed, may_retry)) :
             a.seal < f.seal /\ a.seal < g.seal /\ f.seal = g.seal => f = g
<1> DEFINE pumped == Receipted(a, direct, TRUE)
           harvested == Receipted(pumped, relayed, FALSE)
           applied == ApplySendOutcomes(harvested, outcomes)
           flushed == FlushHeld(applied, FALSE, may_retry)
           swept == SweepUnconfirmed(flushed, timed)
           Old(n) == \A f \in NodeFrames(n) : f.seal <= a.seal
<1>1. TickNode(direct, relayed, due, timed, may_retry) = IF due THEN swept ELSE applied
  BY DEF TickNode
<1>2. NodeOK(a) /\ outcomes \in SUBSET Outcome /\ IsFiniteSet(outcomes) /\ a.seal \in Nat
  <2>1. NodeOK(a) /\ outcomes \in SUBSET Outcome /\ IsFiniteSet(outcomes)
    BY DEF TypeInv, TypeOK, Finite, NodeOK
  <2>2. QED BY <2>1, NodeParts, DeliveryAssumption DEF Seals
<1>3. NodeOK(pumped) /\ pumped.seal = a.seal /\ Follows(a, pumped, outcomes)
  <2>1. \A x, y : NodeOK(Receipted(a, x, y)) /\ Receipted(a, x, y).seal = a.seal
                  /\ Follows(a, Receipted(a, x, y), outcomes)
    BY <1>2, ReceiptedTyped, ReceiptedFollows
  <2>2. QED BY <2>1
<1> HIDE DEF pumped
<1>4. NodeOK(harvested) /\ harvested.seal = a.seal /\ Follows(pumped, harvested, outcomes)
  <2>1. \A x, y : NodeOK(Receipted(pumped, x, y)) /\ Receipted(pumped, x, y).seal = pumped.seal
                  /\ Follows(pumped, Receipted(pumped, x, y), outcomes)
    BY <1>3, ReceiptedTyped, ReceiptedFollows
  <2>2. QED BY <1>3, <2>1
<1> HIDE DEF harvested
<1>5. NodeOK(applied) /\ applied.seal = a.seal /\ Follows(harvested, applied, outcomes)
  BY <1>2, <1>4, OutcomesTyped, OutcomesFollow
<1> HIDE DEF applied
<1>6. NodeOK(flushed) /\ flushed.seal = a.seal /\ Follows(applied, flushed, outcomes)
  <2>1. \A x, y : NodeOK(FlushHeld(applied, x, y)) /\ FlushHeld(applied, x, y).seal = applied.seal
                  /\ Follows(applied, FlushHeld(applied, x, y), outcomes)
    BY <1>5, FlushTyped, FlushFollows
  <2>2. QED BY <1>5, <2>1
<1> HIDE DEF flushed
<1>7. Old(applied) /\ Old(flushed)
  <2>1. ASSUME NEW n, NEW m, n.seal = a.seal, m.seal = a.seal, NodeOK(m), Follows(n, m, outcomes), Old(n)
        PROVE  Old(m)
    <3>1. \A f \in NodeFrames(m) : f.seal \in Nat
      BY <2>1, NodeParts, DeliveryAssumption DEF NodeFrames, Frames, HeldSend, Outbound, Frame, Seals
    <3>2. QED BY <1>2, <2>1, <3>1 DEF Follows
  <2>2. Old(a)
    OBVIOUS
  <2> HIDE DEF Old
  <2>3. Old(pumped)
    BY <1>2, <1>3, <2>1, <2>2
  <2>4. Old(harvested)
    BY <1>3, <1>4, <2>1, <2>3
  <2>5. Old(applied)
    BY <1>4, <1>5, <2>1, <2>4
  <2>6. QED BY <1>5, <1>6, <2>1, <2>5
<1>8. \A f, g \in NodeFrames(swept) \ NodeFrames(flushed) : f.seal = g.seal => f = g
  BY <1>6, SweepKeys
<1>9. \A f \in NodeFrames(applied) \cup NodeFrames(flushed) : ~(a.seal < f.seal)
  <2>1. \A f \in NodeFrames(applied) \cup NodeFrames(flushed) : f.seal \in Nat
    BY <1>5, <1>6, NodeParts, DeliveryAssumption DEF NodeFrames, Frames, HeldSend, Outbound, Frame, Seals
  <2>2. QED BY <1>2, <1>7, <2>1
<1> HIDE DEF swept
<1>10. QED
  BY <1>1, <1>8, <1>9

\* What a tick does to the messages that wait: a receipt takes those it names
\* off the clock, an outcome puts its message on it or holds it, and all
\* others stay.
LEMMA TickExtends ==
    ASSUME TypeInv, NEW direct, NEW relayed, NEW due, NEW timed \in SUBSET Ids, NEW may_retry
    PROVE  LET m == TickNode(direct, relayed, due, timed, may_retry)
           IN  /\ Extends(a, m)
               /\ \A id \in Ids : \A c \in m.relay_receipts[id] :
                    \/ c \in a.relay_receipts[id]
                    \/ \E o \in outcomes : o.frame.id = id /\ c \in o.copies
               /\ \A id \in Ids \ (direct \cup relayed) :
                    Present(a.hist[id]) /\ (\A o \in outcomes : o.frame.id # id)
                      /\ a.hist[id].delivery = "sent" =>
                        /\ m.hist[id].delivery = "sent"
                        /\ id \in a.awaiting_receipt => OnWatch(m, id)
               /\ \A o \in outcomes : (\A p \in outcomes : p.frame.id = o.frame.id => p = o) =>
                    IF o.delivered
                    THEN Present(a.hist[o.frame.id]) => OnWatch(m, o.frame.id)
                    ELSE o.copies = {} => o.frame \in Frames(m.held)
<1> DEFINE pumped == Receipted(a, direct, TRUE)
           harvested == Receipted(pumped, relayed, FALSE)
           applied == ApplySendOutcomes(harvested, outcomes)
           flushed == FlushHeld(applied, FALSE, may_retry)
           swept == SweepUnconfirmed(flushed, timed)
           Goal(m) == /\ Extends(a, m)
                      /\ \A id \in Ids : \A c \in m.relay_receipts[id] :
                           \/ c \in a.relay_receipts[id]
                           \/ \E o \in outcomes : o.frame.id = id /\ c \in o.copies
                      /\ \A id \in Ids \ (direct \cup relayed) :
                           Present(a.hist[id]) /\ (\A o \in outcomes : o.frame.id # id)
                             /\ a.hist[id].delivery = "sent" =>
                               /\ m.hist[id].delivery = "sent"
                               /\ id \in a.awaiting_receipt => OnWatch(m, id)
                      /\ \A o \in outcomes : (\A p \in outcomes : p.frame.id = o.frame.id => p = o) =>
                           IF o.delivered
                           THEN Present(a.hist[o.frame.id]) => OnWatch(m, o.frame.id)
                           ELSE o.copies = {} => o.frame \in Frames(m.held)
<1>1. TickNode(direct, relayed, due, timed, may_retry) = IF due THEN swept ELSE applied
  BY DEF TickNode
<1>2. NodeOK(a) /\ outcomes \in SUBSET Outcome /\ IsFiniteSet(outcomes)
      /\ \A o \in outcomes : o.frame.id \in Ids
  BY DEF TypeInv, TypeOK, Finite, NodeOK, Outcome, Frame
<1>3. /\ NodeOK(pumped) /\ Extends(a, pumped) /\ pumped.relay_receipts = a.relay_receipts
      /\ \A id \in Ids \ direct : /\ pumped.hist[id] = a.hist[id]
                                  /\ id \in a.awaiting_receipt => id \in pumped.awaiting_receipt
  <2>1. \A x, y : LET m == Receipted(a, x, y)
                  IN  /\ NodeOK(m) /\ Extends(a, m) /\ m.relay_receipts = a.relay_receipts
                      /\ \A id \in Ids \ x : /\ m.hist[id] = a.hist[id]
                                             /\ id \in a.awaiting_receipt => id \in m.awaiting_receipt
    BY <1>2, ReceiptedTyped, ReceiptedExtends
  <2>2. QED BY <2>1
<1> HIDE DEF pumped
<1>4. /\ NodeOK(harvested) /\ Extends(pumped, harvested)
      /\ harvested.relay_receipts = pumped.relay_receipts
      /\ \A id \in Ids \ relayed :
           /\ harvested.hist[id] = pumped.hist[id]
           /\ id \in pumped.awaiting_receipt => id \in harvested.awaiting_receipt
  <2>1. \A x, y : LET m == Receipted(pumped, x, y)
                  IN  /\ NodeOK(m) /\ Extends(pumped, m) /\ m.relay_receipts = pumped.relay_receipts
                      /\ \A id \in Ids \ x :
                           /\ m.hist[id] = pumped.hist[id]
                           /\ id \in pumped.awaiting_receipt => id \in m.awaiting_receipt
    BY <1>3, ReceiptedTyped, ReceiptedExtends
  <2>2. QED BY <2>1
<1> HIDE DEF harvested
<1>5. /\ Extends(a, harvested) /\ harvested.relay_receipts = a.relay_receipts
      /\ \A id \in Ids \ (direct \cup relayed) :
           /\ harvested.hist[id] = a.hist[id]
           /\ id \in a.awaiting_receipt => id \in harvested.awaiting_receipt
  BY <1>3, <1>4, ExtendsTwice
<1>6. /\ NodeOK(applied) /\ Extends(harvested, applied)
      /\ harvested.awaiting_receipt \subseteq applied.awaiting_receipt
      /\ \A id \in Ids : \A c \in applied.relay_receipts[id] :
           \/ c \in harvested.relay_receipts[id]
           \/ \E o \in outcomes : o.frame.id = id /\ c \in o.copies
      /\ \A id \in Ids : (\A o \in outcomes : o.frame.id # id) =>
                             applied.hist[id] = harvested.hist[id]
      /\ \A o \in outcomes : (\A p \in outcomes : p.frame.id = o.frame.id => p = o) =>
           IF o.delivered
           THEN Present(harvested.hist[o.frame.id]) => OnWatch(applied, o.frame.id)
           ELSE o.copies = {} => o.frame \in Frames(applied.held)
  <2>1. NodeOK(applied)
    BY <1>2, <1>4, OutcomesTyped
  <2>2. QED BY <1>2, <1>4, <2>1, OutcomesExtend
<1> HIDE DEF applied
<1>7. Goal(applied)
  <2>1. Extends(a, applied)
    BY <1>5, <1>6, ExtendsTwice
  <2>2. \A id \in Ids : Present(a.hist[id]) => Present(harvested.hist[id])
    BY <1>5 DEF Extends, Present
  <2>3. QED BY <1>2, <1>5, <1>6, <2>1, <2>2 DEF OnWatch
<1>8. /\ NodeOK(flushed) /\ Extends(applied, flushed) /\ flushed.hist = applied.hist
      /\ flushed.awaiting_receipt = applied.awaiting_receipt
      /\ flushed.relay_receipts = applied.relay_receipts
  <2>1. \A x, y : LET m == FlushHeld(applied, x, y)
                  IN  /\ NodeOK(m) /\ Extends(applied, m) /\ m.hist = applied.hist
                      /\ m.awaiting_receipt = applied.awaiting_receipt
                      /\ m.relay_receipts = applied.relay_receipts
    BY <1>6, FlushTyped, FlushExtends
  <2>2. QED BY <2>1
<1> HIDE DEF flushed
<1>9. /\ Extends(flushed, swept) /\ swept.relay_receipts = flushed.relay_receipts
      /\ \A id \in Ids : Present(flushed.hist[id]) /\ OnWatch(flushed, id) => OnWatch(swept, id)
      /\ swept.hist = flushed.hist
  BY <1>8, SweepExtends
<1> HIDE DEF swept
<1>10. Goal(swept)
  <2>1. Extends(a, swept)
    BY <1>7, <1>8, <1>9, ExtendsTwice
  <2>2. \A id \in Ids : Present(a.hist[id]) => Present(flushed.hist[id])
    BY <1>7, <1>8 DEF Extends, Present
  <2>3. \A id \in Ids : OnWatch(applied, id) => OnWatch(flushed, id)
    BY <1>8 DEF OnWatch, Resending, Extends
  <2>4. Frames(applied.held) \subseteq Frames(swept.held)
    BY <1>8, <1>9 DEF Extends
  <2>5. \A id \in Ids : Present(a.hist[id]) /\ OnWatch(applied, id) => OnWatch(swept, id)
    BY <1>9, <2>2, <2>3
  <2>6. swept.hist = applied.hist /\ swept.relay_receipts = applied.relay_receipts
    BY <1>8, <1>9
  <2>7. QED BY <1>2, <1>7, <2>1, <2>4, <2>5, <2>6
<1>11. QED
  BY <1>1, <1>7, <1>10

\* The outcome of a held frame: it is out over a connection and on the clock,
\* or out over the relays.
LEMMA HeldExtends ==
    ASSUME NEW n, NodeOK(n), NEW x \in Finished
    PROVE  LET m == ApplyHeld(n, x)
               f == x.out.frame
           IN  /\ \A id \in Ids : m.hist[id].text = n.hist[id].text
               /\ n.outbox \subseteq m.outbox
               /\ n.awaiting_receipt \subseteq m.awaiting_receipt
               /\ \A id \in Ids : \A c \in m.relay_receipts[id] :
                    c \in n.relay_receipts[id] \/ (id = f.id /\ c \in x.delivery.copies)
               /\ \A id \in Ids : n.hist[id].delivery = "sent" =>
                    \/ m.hist[id].delivery = "sent"
                    \/ id = f.id /\ f.kind = "Message" /\ x.delivery.via = "Relay"
               /\ f \in Frames(n.held) /\ f.kind = "Message" /\ x.delivery.via = "Direct"
                    /\ Present(n.hist[f.id])
                      => m.hist[f.id].delivery = "sent" /\ f.id \in m.awaiting_receipt
<1> DEFINE f == x.out.frame
           entry == {h \in n.held : h.frame = f}
           direct == x.delivery.via = "Direct"
           named == f.kind = "Message"
           badge == IF direct THEN "sent" ELSE "queued"
           rest == n.held \ entry
           h2 == [n.hist EXCEPT ![f.id] = IF named /\ Present(@) THEN [@ EXCEPT !.delivery = badge] ELSE @]
           r2 == [n.relay_receipts EXCEPT ![f.id] = IF named /\ ~direct THEN x.delivery.copies ELSE @]
           w2 == IF named /\ direct THEN n.awaiting_receipt \cup {f.id} ELSE n.awaiting_receipt
           landed == [n EXCEPT !.held = rest, !.hist = h2, !.relay_receipts = r2,
                               !.awaiting_receipt = w2]
           again == rest \cup {[h EXCEPT !.in_flight = FALSE] : h \in entry}
           back == [n EXCEPT !.held = again]
           Kept(m) == /\ \A id \in Ids : m.hist[id].text = n.hist[id].text
                      /\ n.outbox \subseteq m.outbox
                      /\ n.awaiting_receipt \subseteq m.awaiting_receipt
                      /\ \A id \in Ids : \A c \in m.relay_receipts[id] :
                           c \in n.relay_receipts[id] \/ (id = f.id /\ c \in x.delivery.copies)
                      /\ \A id \in Ids : n.hist[id].delivery = "sent" =>
                           \/ m.hist[id].delivery = "sent"
                           \/ id = f.id /\ f.kind = "Message" /\ x.delivery.via = "Relay"
           Out(m) == f.kind = "Message" /\ x.delivery.via = "Direct" /\ Present(n.hist[f.id])
                       => m.hist[f.id].delivery = "sent" /\ f.id \in m.awaiting_receipt
<1>1. ApplyHeld(n, x) = IF entry = {} THEN n
                        ELSE IF x.delivery.via = "Failed" THEN back
                        ELSE IF direct THEN FlushHeld(landed, TRUE, TRUE) ELSE landed
  BY DEF ApplyHeld, NodeOK, Node
<1>2. f.id \in Ids /\ x.delivery.copies \in SUBSET Copy /\ x.delivery.via \in {"Direct", "Relay", "Failed"}
  BY DEF Finished, Outbound, Delivery, Frame
<1>3. f \in Frames(n.held) => entry # {}
  BY DEF Frames
<1>4. Kept(n)
  OBVIOUS
<1>5. Kept(back)
  <2>1. /\ back.hist = n.hist /\ back.outbox = n.outbox
        /\ back.awaiting_receipt = n.awaiting_receipt /\ back.relay_receipts = n.relay_receipts
    <3> HIDE DEF again
    <3>1. QED BY NodeParts
  <2> HIDE DEF back
  <2>2. QED BY <2>1
<1>6. /\ h2 \in [Ids -> Sent] /\ r2 \in [Ids -> SUBSET Copy] /\ w2 \in SUBSET Ids
      /\ rest \in SUBSET HeldSend /\ IsFiniteSet(rest)
  <2>1. rest \in SUBSET HeldSend /\ IsFiniteSet(rest)
    BY NodeParts, FS_Difference
  <2> HIDE DEF f, named, direct, rest
  <2>2. badge \in Badges
    BY DEF Badges
  <2> HIDE DEF badge
  <2>3. \A id \in Ids : [n.hist[id] EXCEPT !.delivery = badge] \in Sent
    BY <2>2, SetBadge, NodeParts
  <2>4. QED BY <1>2, <2>1, <2>3, NodeParts
<1>7. \A id \in Ids : /\ h2[id].text = n.hist[id].text
                      /\ id # f.id \/ ~named => h2[id] = n.hist[id]
                      /\ id = f.id /\ named /\ Present(n.hist[id]) => h2[id].delivery = badge
                      /\ h2[id] = n.hist[id] \/ h2[id].delivery = badge
  <2> HIDE DEF f, badge, named
  <2>1. \A id \in Ids : n.hist[id] \in Sent
    BY NodeParts
  <2>2. \A id \in Ids : /\ [n.hist[id] EXCEPT !.delivery = badge].text = n.hist[id].text
                        /\ [n.hist[id] EXCEPT !.delivery = badge].delivery = badge
    BY <2>1 DEF Sent
  <2>3. \A id \in Ids : h2[id] = IF id = f.id /\ named /\ Present(n.hist[id])
                                 THEN [n.hist[id] EXCEPT !.delivery = badge] ELSE n.hist[id]
    BY <1>2, NodeParts
  <2> HIDE DEF h2
  <2>4. QED BY <2>2, <2>3
<1>8. \A id \in Ids : \A c \in r2[id] : \/ c \in n.relay_receipts[id]
                                        \/ id = f.id /\ c \in x.delivery.copies
  <2> HIDE DEF f, named, direct
  <2>1. QED BY <1>2, NodeParts
<1>9. n.awaiting_receipt \subseteq w2 /\ (named /\ direct => f.id \in w2)
  OBVIOUS
<1> HIDE DEF rest, h2, r2, w2, again, entry
<1>10. /\ landed.hist = h2 /\ landed.outbox = n.outbox /\ landed.awaiting_receipt = w2
       /\ landed.relay_receipts = r2 /\ NodeOK(landed)
  <2>1. /\ landed.hist = h2 /\ landed.outbox = n.outbox /\ landed.awaiting_receipt = w2
        /\ landed.relay_receipts = r2
    BY NodeParts
  <2>2. NodeOK(landed)
    BY <1>6 DEF NodeOK, Node
  <2>3. QED BY <2>1, <2>2
<1> HIDE DEF landed, back
<1>11. x.delivery.via # "Failed" => Kept(landed) /\ Out(landed)
  <2>1. x.delivery.via # "Failed" =>
          \A id \in Ids : n.hist[id].delivery = "sent" =>
             h2[id].delivery = "sent" \/ (id = f.id /\ named /\ x.delivery.via = "Relay")
    BY <1>2, <1>7
  <2>2. QED BY <1>2, <1>7, <1>8, <1>9, <1>10, <2>1
<1>12. x.delivery.via # "Failed" => Kept(FlushHeld(landed, TRUE, TRUE)) /\ Out(FlushHeld(landed, TRUE, TRUE))
  <2>1. \A y, z : LET m == FlushHeld(landed, y, z)
                  IN  /\ Extends(landed, m) /\ m.hist = landed.hist
                      /\ m.awaiting_receipt = landed.awaiting_receipt
                      /\ m.relay_receipts = landed.relay_receipts
    BY <1>10, FlushExtends
  <2> DEFINE m == FlushHeld(landed, TRUE, TRUE)
  <2>2. /\ m.hist = landed.hist /\ landed.outbox \subseteq m.outbox
        /\ m.awaiting_receipt = landed.awaiting_receipt
        /\ m.relay_receipts = landed.relay_receipts
    BY <2>1 DEF Extends
  <2> HIDE DEF m
  <2>3. Kept(landed) /\ Out(landed) => Kept(m) /\ Out(m)
    BY <1>10, <2>2
  <2>4. QED BY <1>11, <2>3 DEF m
<1>13. Kept(ApplyHeld(n, x)) /\ (f \in Frames(n.held) => Out(ApplyHeld(n, x)))
  <2> HIDE DEF Kept
  <2>1. x.delivery.via = "Failed" => Out(back)
    OBVIOUS
  <2> HIDE DEF Out
  <2>2. QED BY <1>1, <1>3, <1>4, <1>5, <1>11, <1>12, <2>1
<1>14. QED
  BY <1>13

\* A relay copy behind an unconfirmed message is on the relays, or its
\* message goes back on the clock.
LEMMA UnconfirmedExtends ==
    ASSUME NEW n, NodeOK(n), NEW x \in Finished
    PROVE  LET m == ApplyUnconfirmed(n, x)
               i == x.out.frame.id
           IN  /\ \A id \in Ids : m.hist[id].text = n.hist[id].text
               /\ n.awaiting_receipt \subseteq m.awaiting_receipt
               /\ \A id \in Ids : id # i => m.relay_receipts[id] = n.relay_receipts[id]
               /\ \A c \in m.relay_receipts[i] :
                    \/ c \in n.relay_receipts[i]
                    \/ x.delivery.via = "Relay" /\ (c \in x.delivery.copies \/ c.frame = x.out.frame)
               /\ x.delivery.via # "Relay" => m.hist = n.hist /\ i \in m.awaiting_receipt
                                              /\ m.relay_receipts = n.relay_receipts
               /\ \A id \in Ids : id # i => m.hist[id] = n.hist[id]
<1> DEFINE i == x.out.frame.id
           marked == x.delivery.copies \cup {[relay |-> Handed, frame |-> x.out.frame]}
           h2 == [n.hist EXCEPT ![i] = IF Present(@) /\ @.delivery = "sent"
                                        THEN [@ EXCEPT !.delivery = "queued"] ELSE @]
           r2 == [n.relay_receipts EXCEPT ![i] = marked]
           w2 == n.awaiting_receipt \cup {i}
<1>1. ApplyUnconfirmed(n, x) = IF x.delivery.via = "Relay"
                               THEN [n EXCEPT !.relay_receipts = r2, !.hist = h2]
                               ELSE [n EXCEPT !.awaiting_receipt = w2]
  BY DEF ApplyUnconfirmed, NodeOK, Node
<1>2. i \in Ids
  BY DEF Finished, Outbound, Frame
<1>3. \A id \in Ids : h2[id].text = n.hist[id].text /\ (id # i => h2[id] = n.hist[id])
  <2> HIDE DEF i
  <2>1. \A id \in Ids : [n.hist[id] EXCEPT !.delivery = "queued"].text = n.hist[id].text
    BY NodeParts DEF Sent
  <2>2. QED BY <1>2, <2>1, NodeParts
<1>4. /\ \A id \in Ids : id # i => r2[id] = n.relay_receipts[id]
      /\ \A c \in r2[i] : c \in x.delivery.copies \/ c.frame = x.out.frame
  <2> HIDE DEF i
  <2>1. QED BY <1>2, NodeParts
<1>5. n.awaiting_receipt \subseteq w2 /\ i \in w2
  OBVIOUS
<1> HIDE DEF h2, r2, w2
<1>6. CASE x.delivery.via = "Relay"
  <2>1. PICK m : m = [n EXCEPT !.relay_receipts = r2, !.hist = h2]
    OBVIOUS
  <2>2. m.hist = h2 /\ m.awaiting_receipt = n.awaiting_receipt /\ m.relay_receipts = r2
    BY <2>1, NodeParts
  <2>3. ApplyUnconfirmed(n, x) = m
    BY <1>1, <1>6, <2>1
  <2>4. QED BY <1>3, <1>4, <1>6, <2>2, <2>3
<1>7. CASE x.delivery.via # "Relay"
  <2>1. PICK m : m = [n EXCEPT !.awaiting_receipt = w2]
    OBVIOUS
  <2>2. m.hist = n.hist /\ m.awaiting_receipt = w2 /\ m.relay_receipts = n.relay_receipts
    BY <2>1, NodeParts
  <2>3. ApplyUnconfirmed(n, x) = m
    BY <1>1, <1>7, <2>1
  <2>4. QED BY <1>5, <1>7, <2>2, <2>3
<1>8. QED BY <1>6, <1>7

-----------------------------------------------------------------------------
(* The mail: what the relays keep for the receiver and what it has drained *)

Mail == MailFrames \cup FramesOf(drained)

\* A frame that goes out over a route is mail when it went over the relays.
LEMMA RunMails ==
    ASSUME NetOK, NEW f \in Frame, NEW route, NEW d, Run(f, route, d), drained' = drained
    PROVE  /\ Mail \subseteq Mail'
           /\ d.via = "Relay" => f \in Mail'
           /\ Relays = {} => d.via # "Relay" /\ d.copies = {}
<1>1. CASE RunDirect(f, route, d)
  BY <1>1 DEF RunDirect, Mail, MailFrames
<1>2. ASSUME NEW took \in SUBSET Relays, NEW stray \in SUBSET Relays, RunRelay(f, took, stray, d)
      PROVE  /\ Mail \subseteq Mail'
             /\ d.via = "Relay" => f \in Mail'
             /\ Relays = {} => d.via # "Relay" /\ d.copies = {}
  <2>1. MailFrames \subseteq MailFrames' /\ (took # {} => f \in MailFrames')
    BY <1>2, PostAdds DEF RunRelay
  <2>2. d = IF took = {} THEN NotSent ELSE [via |-> "Relay", copies |-> Copies(f, took)]
    BY <1>2 DEF RunRelay
  <2>3. d.via = "Relay" => took # {}
    BY <2>2 DEF NotSent
  <2>4. Relays = {} => d = NotSent
    BY <2>2
  <2>5. NotSent.via = "Failed" /\ NotSent.copies = {}
    BY DEF NotSent
  <2>6. QED BY <2>1, <2>3, <2>4, <2>5 DEF Mail
<1>3. QED
  BY <1>1, <1>2 DEF Run

\* A recall takes the frame of one copy out of the mail, where there is a relay.
LEMMA RecallMails ==
    ASSUME NetOK, NEW k, NEW c \in Copy, RecallCopy(k, c)
    PROVE  \A f \in Mail : f \in Mail' \/ (f = c.frame /\ Relays # {})
<1>1. drained' = drained
  BY DEF RecallCopy, receiverVars
<1>2. CASE mailbox' = mailbox
  BY <1>1, <1>2 DEF Mail, MailFrames
<1>3. CASE RecallOk(c) /\ mailbox' = [mailbox EXCEPT ![c.relay] = Recalled(c)]
  <2>1. /\ c.relay \in Relays
        /\ \A f \in FramesOf(mailbox[c.relay]) : f # c.frame => f \in FramesOf(Recalled(c))
    BY <1>3, RecallTakesOne
  <2>2. \A s \in Relays : mailbox'[s] = IF s = c.relay THEN Recalled(c) ELSE mailbox[s]
    BY <1>3 DEF NetOK
  <2>3. \A f \in MailFrames : f # c.frame => f \in MailFrames'
    BY <2>1, <2>2 DEF MailFrames
  <2>4. QED BY <1>1, <2>1, <2>3 DEF Mail
<1>4. QED
  BY <1>2, <1>3 DEF RecallCopy

\* The drain moves mail, and processing takes one frame out of it.
LEMMA MailTaken ==
    ASSUME ReceiverOK, NetOK
    PROVE  /\ \A r \in Relays : TakeMailbox(r) => Mail' = Mail
           /\ ApplyHarvest => \A g \in Mail : g = Head(drained) \/ g \in Mail'
<1>1. ASSUME NEW r \in Relays, TakeMailbox(r) PROVE Mail' = Mail
  <2>1. drained' = drained \o mailbox[r] /\ mailbox' = [mailbox EXCEPT ![r] = <<>>]
    BY <1>1 DEF TakeMailbox
  <2>2. drained \in Seq(Frame) /\ \A s \in Relays : mailbox[s] \in Seq(Frame)
    BY DEF NetOK, ReceiverOK
  <2>3. FramesOf(drained') = FramesOf(drained) \cup FramesOf(mailbox[r]) /\ FramesOf(<<>>) = {}
    BY <2>1, <2>2, QueueFrames
  <2>4. \A s \in Relays : mailbox'[s] = IF s = r THEN <<>> ELSE mailbox[s]
    BY <2>1 DEF NetOK
  <2>5. MailFrames = FramesOf(mailbox[r]) \cup MailFrames'
    BY <2>3, <2>4 DEF MailFrames
  <2>6. QED BY <2>3, <2>5 DEF Mail
<1>2. ASSUME ApplyHarvest PROVE \A g \in Mail : g = Head(drained) \/ g \in Mail'
  <2>1. drained # <<>> /\ drained' = Tail(drained) /\ UNCHANGED mailbox
    BY <1>2 DEF ApplyHarvest, netVars
  <2>2. drained \in Seq(Frame)
    BY DEF ReceiverOK
  <2>3. FramesOf(drained) = FramesOf(drained') \cup {Head(drained)}
    BY <2>1, <2>2, QueueFrames
  <2>4. QED BY <2>1, <2>3 DEF Mail, MailFrames
<1>3. QED BY <1>1, <1>2

\* Mail is on its way.
LEMMA MailIsThere == Mail \subseteq InTransit /\ Mail \subseteq AllFrames
BY FramePlaces DEF Mail, MailFrames, InTransit

\* Where nothing of the mailboxes and the drain changes, neither does the mail.
LEMMA MailStays ==
    ASSUME UNCHANGED <<drained, mailbox>> PROVE Mail' = Mail
BY DEF Mail, MailFrames

-----------------------------------------------------------------------------
(* No message of the history is abandoned *)

\* What leaves a relay or a drain is processed or recalled, neither end dies,
\* and a message is edited only where there is no relay to recall it from.
MailSafe ==
    /\ Faults \cap {"reply", "sender", "receiver"} = {}
    /\ MaxText = 1 \/ Relays = {}

\* Every frame has a key of its own, and once the key of a message is spent
\* the receiver has the message.
OneKeyEach ==
    /\ \A f \in AllFrames : f.seal <= a.seal
    /\ \A s \in b.spent : s <= a.seal
    /\ \A f, g \in AllFrames : f.seal = g.seal => f = g
SpentIsReceived ==
    \A f \in AllFrames : IsMessage(f) /\ f.seal \in b.spent => Known(f.id)

\* A message is sent once: it waits in one queue, in one frame.
OnePerMessage(S) == \A f, g \in S : f.id = g.id => f = g
SentOnce ==
    /\ \A f \in a.pending_sends : a.hist[f.id].kind # "none"
    /\ OnePerMessage(a.pending_sends) /\ OnePerMessage(planned)
    /\ \A f \in planned, o \in outcomes : f.id # o.frame.id
    /\ \A o, p \in outcomes : o.frame.id = p.frame.id => o = p

\* Whatever is on record of a message is a copy of that message.
CopiesAreOwn ==
    /\ \A f \in a.pending_sends \cup planned : IsMessage(f)
    /\ \A o \in outcomes : IsMessage(o.frame) /\ \A c \in o.copies : c.frame = o.frame
    /\ \A o \in a.outbox \cup round.todo : o.done = "Held" \/ IsMessage(o.frame)
    /\ \A x \in round.finished : /\ x.out.done = "Held" \/ IsMessage(x.out.frame)
                                 /\ \A c \in x.delivery.copies : c.frame = x.out.frame
    /\ \A id \in Ids : \A c \in a.relay_receipts[id] : c.frame.id = id
    /\ \A k \in calls : \A c \in k.copies : c.frame.id = k.id

\* A call unsends its message, or edits it where nothing is ever recalled.
CallsAreOwn ==
    \A k \in calls :
        /\ a.hist[k.id].kind # "none"
        /\ k.op = "edit" => Relays = {}
        /\ k.op = "unsend" /\ k.phase \in {"send", "apply"} => a.hist[k.id].kind \in {"deleted", "gone"}
        /\ Relays = {} => k.copies = {} /\ k.recalled # "yes"
        /\ \A o \in k.out : o.done = "Caller"
NoRelayCopies ==
    Relays = {} =>
        /\ \A id \in Ids : a.relay_receipts[id] = {}
        /\ \A o \in outcomes : o.copies = {}
        /\ \A x \in round.finished : x.delivery.via # "Relay" /\ x.delivery.copies = {}

\* A message that landed: the receiver has it, or it is in its mail, or a
\* call has taken it out of the mail to take it back.
InMail(id) == \E f \in Mail : IsMessage(f) /\ f.id = id
InCall(id) == Relays # {} /\ \E k \in calls : k.id = id
Landing(id) == Known(id) \/ InMail(id) \/ InCall(id)
TakenOut(id) == a.hist[id].kind \in {"deleted", "gone"}
Settled(id) == TakenOut(id) \/ Landing(id)
PostedIsSettled ==
    /\ \A o \in outcomes : o.copies # {} => Settled(o.frame.id)
    /\ \A x \in round.finished :
         x.delivery.via = "Relay" /\ IsMessage(x.out.frame) => Settled(x.out.frame.id)

\* A message in the sender's history landed, waits to be sent, is held, or is
\* "sent" with the receipt clock running or the sweep's copy queued.
Waiting == a.pending_sends \cup planned \cup Frames(outcomes)
Again == a.outbox \cup round.todo \cup {x.out : x \in round.finished}
Watched(id) ==
    /\ a.hist[id].delivery = "sent"
    /\ id \in a.awaiting_receipt \/ Resending(Again, id)
Kept(id) == Landing(id) \/ Mine(id, Waiting) \/ Mine(id, Frames(a.held)) \/ Watched(id)
TextIsKept == \A id \in Ids : a.hist[id].kind = "text" => a.hist[id].text # Blank /\ Kept(id)

\* The inductive invariant behind NeverAbandoned, where mail is safe: every
\* message of the history is kept by something (TextIsKept).  A copy that went
\* out settles its message because a frame opens once, and then the receiver
\* has it, so the keys are part of it; and because a call that takes mail back
\* takes its message out too, so what the calls may be is.
CustodyInv ==
    /\ OneKeyEach /\ SpentIsReceived /\ SentOnce /\ CopiesAreOwn /\ CallsAreOwn
    /\ NoRelayCopies /\ PostedIsSettled /\ TextIsKept

-----------------------------------------------------------------------------

\* A step of the sender that seals under new keys.
LEMMA KeysKept ==
    ASSUME CustodyInv, TypeInv, a'.seal \in Nat, UNCHANGED <<b, dropped, late>>,
           NEW New \in SUBSET Frame, AllFrames' \subseteq AllFrames \cup New, a.seal <= a'.seal,
           \A f \in New : a.seal < f.seal /\ f.seal <= a'.seal,
           \A f, g \in New : f.seal = g.seal => f = g
    PROVE  OneKeyEach' /\ SpentIsReceived'
<1>n. /\ a.seal \in Nat /\ a'.seal \in Nat
      /\ \A f \in AllFrames : f.seal \in Nat
      /\ \A s \in b.spent : s \in Nat
      /\ \A f \in AllFrames' : f.seal \in Nat
  BY FramesAreFrames, DeliveryAssumption DEF Frame, Seals
<1>i. OneKeyEach /\ SpentIsReceived
  BY DEF CustodyInv
<1>1. \A f \in AllFrames' : f.seal <= a'.seal
  BY <1>n, <1>i DEF OneKeyEach
<1>2. \A s \in b'.spent : s <= a'.seal
  BY <1>n, <1>i DEF OneKeyEach
<1>3. \A f, g \in AllFrames' : f.seal = g.seal => f = g
  <2> SUFFICES ASSUME NEW f \in AllFrames', NEW g \in AllFrames', f.seal = g.seal PROVE f = g
    OBVIOUS
  <2>1. CASE f \in AllFrames /\ g \in AllFrames
    BY <1>i, <2>1 DEF OneKeyEach
  <2>2. CASE f \in New /\ g \in New
    BY <2>2
  <2>3. CASE f \in AllFrames /\ g \in New
    BY <1>n, <1>i, <2>3 DEF OneKeyEach
  <2>4. CASE f \in New /\ g \in AllFrames
    BY <1>n, <1>i, <2>4 DEF OneKeyEach
  <2>5. QED BY <2>1, <2>2, <2>3, <2>4
<1>4. ASSUME NEW f \in New, f.seal \in b.spent PROVE FALSE
  BY <1>n, <1>i, <1>4 DEF OneKeyEach
<1>5. SpentIsReceived'
  BY <1>i, <1>4, EndStays DEF SpentIsReceived
<1>6. QED
  BY <1>1, <1>2, <1>3, <1>5 DEF OneKeyEach

\* What is settled stays so, while mail is taken only by the receiver or a
\* call, and a call ends only by leaving its message taken out.
LEMMA SettledStays ==
    ASSUME \A id \in Ids : TakenOut(id) => a'.hist[id].kind \in {"deleted", "gone"},
           \A id \in Ids : Known(id) => Known(id)',
           \A f \in Mail : IsMessage(f) =>
               f \in Mail' \/ Known(f.id)' \/ (Relays # {} /\ \E k \in calls' : k.id = f.id),
           Relays # {} => \A k \in calls : (\E j \in calls' : j.id = k.id)
                                             \/ a'.hist[k.id].kind \in {"deleted", "gone"}
    PROVE  \A id \in Ids : Settled(id) => Settled(id)'
BY DEF Settled, Landing, InMail, InCall, TakenOut, Known, Received

\* What went out over the relays is settled, and stays so.
LEMMA PostedStaysSettled ==
    ASSUME PostedIsSettled, TypeInv, \A id \in Ids : Settled(id) => Settled(id)',
           \A o \in outcomes' : o \in outcomes \/ (o.copies # {} => o.frame.id \in Ids /\ Settled(o.frame.id)'),
           \A x \in round'.finished :
              \/ x \in round.finished
              \/ x.delivery.via = "Relay" /\ IsMessage(x.out.frame)
                    => x.out.frame.id \in Ids /\ Settled(x.out.frame.id)'
    PROVE  PostedIsSettled'
<1>1. \A o \in outcomes : o.frame.id \in Ids
  BY DEF TypeInv, TypeOK, Outcome, Frame
<1>2. \A x \in round.finished : x.out.frame.id \in Ids
  BY DEF TypeInv, TypeOK, Round, Finished, Outbound, Frame
<1>3. \A o \in outcomes' : o.copies # {} => Settled(o.frame.id)'
  BY <1>1 DEF PostedIsSettled
<1>4. \A x \in round'.finished :
        x.delivery.via = "Relay" /\ IsMessage(x.out.frame) => Settled(x.out.frame.id)'
  BY <1>2 DEF PostedIsSettled
<1>5. QED
  BY <1>3, <1>4 DEF PostedIsSettled

\* A message of the history is kept when every reason that held it still does
\* or gives way to another.
LEMMA TextStaysKept ==
    ASSUME TextIsKept, \A id \in Ids : Settled(id) => Settled(id)',
           NEW New \in SUBSET Ids,
           \A id \in Ids : a'.hist[id].kind = "text" =>
              \/ id \in New /\ a'.hist[id].text # Blank /\ Kept(id)'
              \/ /\ id \notin New /\ a.hist[id].kind = "text"
                 /\ a.hist[id].text # Blank => a'.hist[id].text # Blank,
           \A id \in Ids \ New : a.hist[id].kind = "text" /\ a'.hist[id].kind = "text" =>
              /\ Mine(id, Waiting) => Kept(id)'
              /\ Mine(id, Frames(a.held)) => Kept(id)'
              /\ Watched(id) => Kept(id)'
    PROVE  TextIsKept'
<1> SUFFICES ASSUME NEW id \in Ids, a'.hist[id].kind = "text"
             PROVE  a'.hist[id].text # Blank /\ Kept(id)'
  BY DEF TextIsKept
<1>1. Landing(id) => Landing(id)'
  BY DEF Settled, TakenOut
<1>2. CASE id \in New /\ a'.hist[id].text # Blank /\ Kept(id)'
  BY <1>2
<1>3. CASE /\ id \notin New /\ a.hist[id].kind = "text"
           /\ a.hist[id].text # Blank => a'.hist[id].text # Blank
  <2>1. a.hist[id].text # Blank /\ Kept(id)
    BY <1>3 DEF TextIsKept
  <2>2. Landing(id) => Kept(id)'
    BY <1>1 DEF Kept
  <2>3. QED BY <1>2, <1>3, <2>1, <2>2 DEF Kept
<1>4. QED
  BY <1>2, <1>3

\* What only the sender's variables say stays, where they do.
LEMMA SenderPartStays ==
    ASSUME CustodyInv, UNCHANGED senderVars
    PROVE  SentOnce' /\ CopiesAreOwn' /\ CallsAreOwn' /\ NoRelayCopies'
BY DEF CustodyInv, senderVars, SentOnce, CopiesAreOwn, CallsAreOwn, NoRelayCopies

\* Nor does what is settled or kept change, while mail only goes to the receiver.
LEMMA ReceiverPartStays ==
    ASSUME CustodyInv, TypeInv, UNCHANGED senderVars,
           \A id \in Ids : Known(id) => Known(id)',
           \A f \in Mail : IsMessage(f) => f \in Mail' \/ Known(f.id)'
    PROVE  PostedIsSettled' /\ TextIsKept'
<1>u. UNCHANGED <<a, planned, outcomes, round, calls>>
  BY DEF senderVars
<1>i. PostedIsSettled /\ TextIsKept
  BY DEF CustodyInv
<1>1. \A id \in Ids : Settled(id) => Settled(id)'
  <2>1. \A id \in Ids : TakenOut(id) => a'.hist[id].kind \in {"deleted", "gone"}
    BY <1>u DEF TakenOut
  <2>2. \A k \in calls : k \in calls'
    BY <1>u
  <2>3. QED BY <2>1, <2>2, SettledStays
<1>2. PostedIsSettled'
  BY <1>u, <1>i, <1>1, PostedStaysSettled
<1>3. \A id \in Ids : /\ Mine(id, Waiting) => Kept(id)'
                      /\ Mine(id, Frames(a.held)) => Kept(id)'
                      /\ Watched(id) => Kept(id)'
  <2>1. Waiting' = Waiting /\ Again' = Again
    BY <1>u DEF Waiting, Again
  <2>2. QED BY <1>u, <2>1 DEF Kept, Watched
<1>4. {} \in SUBSET Ids /\ \A id \in Ids : a'.hist[id].kind = "text" =>
        /\ id \notin {} /\ a.hist[id].kind = "text"
        /\ a.hist[id].text # Blank => a'.hist[id].text # Blank
  BY <1>u
<1>5. TextIsKept'
  BY <1>i, <1>1, <1>3, <1>4, TextStaysKept
<1>6. QED BY <1>2, <1>5

\* A step of the network or the receiver that processes nothing.
LEMMA CustodyQuiet ==
    ASSUME CustodyInv, TypeInv, UNCHANGED <<senderVars, b, dropped, late>>,
           InTransit' \subseteq InTransit, Mail \subseteq Mail'
    PROVE  CustodyInv'
<1>u. UNCHANGED <<a, planned, outcomes, round, calls>>
  BY DEF senderVars
<1>1. AllFrames' \subseteq AllFrames
  <2>1. RoundFrames' = RoundFrames /\ CallFrames' = CallFrames /\ NodeFrames(a') = NodeFrames(a)
    BY <1>u DEF RoundFrames, CallFrames
  <2>2. QED BY <1>u, <2>1, FramePlaces, FramePlacesNext
<1>2. OneKeyEach' /\ SpentIsReceived'
  <2>1. a.seal <= a'.seal /\ a'.seal \in Nat /\ {} \in SUBSET Frame
    BY <1>u, FramesAreFrames
  <2>2. QED BY <1>1, <2>1, KeysKept
<1>3. QED
  BY <1>2, EndStays, SenderPartStays, ReceiverPartStays DEF CustodyInv

\* A frame that is processed: a message that opens is received, one whose key
\* is spent was received before.
LEMMA CustodyReceiver ==
    ASSUME CustodyInv, TypeInv, NEW f \in InTransit, Processes(f),
           InTransit' \subseteq InTransit, \A g \in Mail : g = f \/ g \in Mail',
           UNCHANGED senderVars
    PROVE  CustodyInv'
<1>u. /\ UNCHANGED <<a, planned, outcomes, round, calls>>
      /\ f \in AllFrames /\ f \in Frame /\ f.id \in Ids
  BY FramePlaces, FramesAreFrames DEF senderVars
<1>i. OneKeyEach /\ SpentIsReceived
  BY DEF CustodyInv
<1>b. b \in Receiver /\ ReceiverShape(b)
  BY DEF TypeInv, TypeOK, Receiver, ReceiverShape
<1>p. \A id \in Ids : /\ Known(id) => Known(id)'
                      /\ id \in Receipt(b, f) => Known(id)'
  <2>1. /\ Ahead(b, b')
        /\ \A id \in Ids : id \in Receipt(b, f) => Received(b', id) \/ (id = f.id /\ OverAllowance(b, f))
    BY <1>b, ProcessFrameAhead DEF Processes
  <2>2. dropped \subseteq dropped' /\ (OverAllowance(b, f) => f.id \in dropped')
    BY DEF Processes
  <2>3. QED BY <2>1, <2>2 DEF Ahead, Known, Received
<1>q. b'.spent = b.spent \cup {f.seal}
  <2>1. f.seal \in b.spent => b'.spent = b.spent
    BY DEF Processes, ProcessFrame
  <2>2. f.seal \notin b.spent => b'.spent = b.spent \cup {f.seal}
    BY DEF Processes, ProcessFrame
  <2>3. QED BY <2>1, <2>2
<1>r. IsMessage(f) => Known(f.id)'
  <2>1. CASE f.seal \in b.spent
    BY <1>u, <1>i, <1>p, <2>1 DEF SpentIsReceived
  <2>2. CASE f.seal \notin b.spent
    BY <1>u, <1>p, <2>2 DEF Receipt, IsMessage
  <2>3. QED BY <2>1, <2>2
<1>1. AllFrames' \subseteq AllFrames
  <2>1. RoundFrames' = RoundFrames /\ CallFrames' = CallFrames /\ NodeFrames(a') = NodeFrames(a)
    BY <1>u DEF RoundFrames, CallFrames
  <2>2. QED BY <1>u, <2>1, FramePlaces, FramePlacesNext
<1>2. OneKeyEach'
  BY <1>u, <1>i, <1>q, <1>1 DEF OneKeyEach
<1>3. SpentIsReceived'
  <2> SUFFICES ASSUME NEW g \in AllFrames, IsMessage(g), g.seal \in b'.spent
               PROVE  Known(g.id)'
    BY <1>1 DEF SpentIsReceived
  <2>1. CASE g.seal \in b.spent
    BY <1>i, <1>p, <2>1, FramesAreFrames DEF SpentIsReceived
  <2>2. CASE g.seal = f.seal
    <3>1. g = f
      BY <1>u, <1>i, <2>2 DEF OneKeyEach
    <3>2. QED BY <1>r, <3>1
  <2>3. QED BY <1>q, <2>1, <2>2
<1>4. QED
  BY <1>2, <1>3, <1>p, <1>r, SenderPartStays, ReceiverPartStays DEF CustodyInv

\* Every step keeps CustodyInv, where mail is safe.
LEMMA CustodyStep ==
    ASSUME MailSafe PROVE CustodyInv /\ DurableInv /\ TypeInv /\ [Next]_vars => CustodyInv'
<1> SUFFICES ASSUME CustodyInv, DurableInv, TypeInv, [Next]_vars PROVE CustodyInv'
  OBVIOUS
<1>t. TypeInv' /\ a'.seal \in Nat /\ a.seal \in Nat /\ SenderOK /\ NetOK /\ ReceiverOK
  <2>1. TypeInv'
    BY TypeStep
  <2>2. a.seal \in Nat /\ a'.seal \in Nat
    BY <2>1, DeliveryAssumption DEF TypeInv, TypeOK, Node, Seals
  <2>3. QED BY <2>1, <2>2, TypeGroups
<1>a. NodeOK(a) /\ round \in Round /\ calls \in SUBSET Call
  BY <1>t DEF SenderOK
<1>p. /\ a.hist \in [Ids -> Sent] /\ a.pending_sends \in SUBSET Frame
      /\ a.held \in SUBSET HeldSend
      /\ a.relay_receipts \in [Ids -> SUBSET Copy] /\ a.outbox \in SUBSET Outbound
      /\ \A i \in Ids : Blank \in Texts /\ 1 \in Texts
  <2>1. Blank \in Texts /\ 1 \in Texts
    BY DeliveryAssumption DEF Texts, Blank
  <2>2. QED BY <1>a, <2>1, NodeParts
<1>i. /\ OneKeyEach /\ SpentIsReceived /\ SentOnce /\ CopiesAreOwn /\ CallsAreOwn
      /\ NoRelayCopies /\ PostedIsSettled /\ TextIsKept
  BY DEF CustodyInv
<1>k. \A k \in calls : k.id \in Ids /\ k.op \in {"edit", "unsend"}
  BY <1>a DEF Call
\* A step that seals nothing.
<1>n. ASSUME UNCHANGED <<b, dropped, late>>, AllFrames' \subseteq AllFrames, a'.seal = a.seal
      PROVE  OneKeyEach' /\ SpentIsReceived'
  <2>1. {} \in SUBSET Frame /\ a.seal <= a'.seal
    BY <1>t, <1>n
  <2>2. QED BY <1>t, <1>n, <2>1, KeysKept
\* A step that seals one frame.
<1>f. ASSUME NEW f \in Frame, UNCHANGED <<b, dropped, late>>, AllFrames' \subseteq AllFrames \cup {f},
             f.seal = a.seal + 1, a'.seal = a.seal + 1
      PROVE  OneKeyEach' /\ SpentIsReceived'
  <2>1. {f} \in SUBSET Frame /\ a.seal <= a'.seal /\ a.seal < f.seal /\ f.seal <= a'.seal
    BY <1>t, <1>f
  <2>2. QED BY <1>t, <1>f, <2>1, KeysKept
\* A step that leaves the mail, the receiver, the calls and the kinds alone.
<1>s. ASSUME UNCHANGED <<b, dropped, late>>, Mail \subseteq Mail', \A k \in calls : \E j \in calls' : j.id = k.id,
             \A id \in Ids : TakenOut(id) => a'.hist[id].kind \in {"deleted", "gone"}
      PROVE  \A id \in Ids : Settled(id) => Settled(id)'
  BY <1>s, EndStays, SettledStays
<1>e. {} \in SUBSET Ids /\ \A id \in Ids : id \notin {}
  OBVIOUS
<1>1. ASSUME NEW id \in Ids, SendMessage(id) PROVE CustodyInv'
  <2> DEFINE f == Message(id, 1, a.seal + 1)
             msg == [kind |-> "text", text |-> 1, delivery |-> "queued"]
  <2>m. msg.kind = "text" /\ msg.text # Blank
    BY DEF Blank
  <2>1. /\ a'.hist = [a.hist EXCEPT ![id] = msg] /\ a'.pending_sends = a.pending_sends \cup {f}
        /\ a'.held = a.held /\ a'.outbox = a.outbox /\ a'.seal = a.seal + 1
        /\ a'.relay_receipts = a.relay_receipts /\ a'.awaiting_receipt = a.awaiting_receipt
    <3> HIDE DEF f, msg
    <3>1. a' = [a EXCEPT !.hist[id] = msg, !.seal = @ + 1, !.pending_sends = @ \cup {f}]
      BY <1>1 DEF SendMessage, f, msg
    <3>2. QED BY <1>a, <3>1, NodeParts
  <2>2. /\ UNCHANGED <<planned, outcomes, round, calls, b, dropped, late, drained, mailbox, wire>>
        /\ a.hist[id].kind = "none"
    BY <1>1 DEF SendMessage, Locked, receiverVars, netVars
  <2>3. f \in Frame /\ IsMessage(f) /\ f.seal = a.seal + 1 /\ f.id = id
    <3>1. a.seal + 1 \in Seals
      BY <1>1, <1>t, DeliveryAssumption DEF SendMessage, Seals
    <3>2. QED BY <1>p, <3>1, FramesMade DEF Message, IsMessage
  <2> HIDE DEF f, msg
  <2>4. \A i \in Ids : i # id => a'.hist[i] = a.hist[i]
    BY <1>p, <2>1
  <2>5. a'.hist[id] = msg
    BY <1>p, <2>1
  <2>6. InTransit' = InTransit /\ RoundFrames' = RoundFrames /\ CallFrames' = CallFrames /\ Mail' = Mail
    BY <2>2, TransitStays, MailStays DEF RoundFrames, CallFrames
  <2>7. AllFrames' \subseteq AllFrames \cup {f}
    <3>1. NodeFrames(a') = NodeFrames(a) \cup {f}
      BY <2>1 DEF NodeFrames
    <3>2. QED BY <2>2, <2>6, <3>1, FramePlaces, FramePlacesNext
  <2>8. OneKeyEach' /\ SpentIsReceived'
    BY <1>f, <2>1, <2>2, <2>3, <2>7
  <2>9. SentOnce'
    <3>1. \A g \in a.pending_sends : g.id # id /\ g.id \in Ids
      BY <1>i, <1>p, <2>2 DEF SentOnce, Frame
    <3>2. \A g \in a'.pending_sends : a'.hist[g.id].kind # "none"
      BY <1>i, <2>1, <2>3, <2>4, <2>5, <2>m, <3>1 DEF SentOnce
    <3>3. OnePerMessage(a'.pending_sends)
      BY <1>i, <2>1, <2>3, <3>1 DEF SentOnce, OnePerMessage
    <3>4. QED BY <1>i, <2>2, <3>2, <3>3 DEF SentOnce
  <2>10. CopiesAreOwn' /\ NoRelayCopies'
    BY <1>i, <2>1, <2>2, <2>3 DEF CopiesAreOwn, NoRelayCopies
  <2>11. CallsAreOwn'
    BY <1>i, <1>k, <2>2, <2>4 DEF CallsAreOwn
  <2>12. \A i \in Ids : Settled(i) => Settled(i)'
    <3>1. \A i \in Ids : TakenOut(i) => a'.hist[i].kind \in {"deleted", "gone"}
      BY <2>2, <2>4 DEF TakenOut
    <3>2. QED BY <1>s, <2>2, <2>6, <3>1
  <2>13. PostedIsSettled'
    BY <1>i, <2>2, <2>12, PostedStaysSettled
  <2>14. TextIsKept'
    <3>1. Waiting' = Waiting \cup {f} /\ Again' = Again
      BY <2>1, <2>2 DEF Waiting, Again
    <3>2. Kept(id)' /\ a'.hist[id].text # Blank
      BY <2>3, <2>5, <2>m, <3>1 DEF Kept, Mine, IsMessage
    <3>3. \A i \in Ids \ {id} : /\ Mine(i, Waiting) => Kept(i)'
                                /\ Mine(i, Frames(a.held)) => Kept(i)'
                                /\ Watched(i) => Kept(i)'
      BY <2>1, <2>4, <3>1 DEF Kept, Mine, Watched
    <3>4. {id} \in SUBSET Ids
      OBVIOUS
    <3>5. \A i \in Ids : a'.hist[i].kind = "text" =>
            \/ i \in {id} /\ a'.hist[i].text # Blank /\ Kept(i)'
            \/ /\ i \notin {id} /\ a.hist[i].kind = "text"
               /\ a.hist[i].text # Blank => a'.hist[i].text # Blank
      BY <2>4, <3>2
    <3>6. QED BY <1>i, <2>12, <3>3, <3>4, <3>5, TextStaysKept
  <2>15. QED
    BY <2>8, <2>9, <2>10, <2>11, <2>13, <2>14 DEF CustodyInv
<1>2. ASSUME NEW op \in {"edit", "unsend"}, NEW id \in Ids, NEW text,
             calls' = calls \cup {NewCall(op, id, text)}, op = "edit" => Relays = {},
             a.hist[id].kind = "text",
             /\ a'.pending_sends = a.pending_sends /\ a'.awaiting_receipt = a.awaiting_receipt
             /\ a'.held = a.held /\ a'.outbox = a.outbox /\ a'.seal = a.seal
             /\ \A i \in Ids : a'.relay_receipts[i] \subseteq a.relay_receipts[i],
             \A i \in Ids : /\ a'.hist[i].kind = a.hist[i].kind
                            /\ a'.hist[i].delivery = a.hist[i].delivery
                            /\ a.hist[i].text # Blank => a'.hist[i].text # Blank,
             UNCHANGED <<planned, outcomes, round, b, dropped, late, drained, mailbox, wire>>
      PROVE  CustodyInv'
  <2> DEFINE k == NewCall(op, id, text)
  <2>1. /\ k.id = id /\ k.op = op /\ k.out = {} /\ k.phase \in {"recall", "finish"}
        /\ k.copies = {} \/ k.copies = a.relay_receipts[id]
        /\ k.copies = {} => k.recalled # "yes"
    BY DEF NewCall
  <2>2. calls' = calls \cup {k}
    BY <1>2
  <2> HIDE DEF k
  <2>3. InTransit' = InTransit /\ RoundFrames' = RoundFrames /\ Mail' = Mail
    BY <1>2, TransitStays, MailStays DEF RoundFrames
  <2>4. CallFrames' = CallFrames
    <3>1. Frames({}) = {}
      BY DEF Frames
    <3>2. QED BY ONLY <2>1, <2>2, <3>1 DEF CallFrames
  <2>5. AllFrames' \subseteq AllFrames
    BY <1>2, <2>3, <2>4, FramePlaces, FramePlacesNext DEF NodeFrames
  <2>6. OneKeyEach' /\ SpentIsReceived'
    BY <1>2, <1>n, <2>5
  <2>7. SentOnce'
    BY <1>i, <1>2, <1>p DEF SentOnce, Frame
  <2>8. CopiesAreOwn'
    <3>1. \A c \in k.copies : c.frame.id = k.id
      BY <1>i, <2>1 DEF CopiesAreOwn
    <3>2. QED BY <1>i, <1>2, <2>2, <3>1 DEF CopiesAreOwn
  <2>9. NoRelayCopies'
    BY <1>i, <1>2 DEF NoRelayCopies
  <2>10. CallsAreOwn'
    <3>1. Relays = {} => k.copies = {} /\ k.recalled # "yes"
      BY <1>i, <2>1 DEF NoRelayCopies
    <3>2. \A j \in calls' : j \in calls \/ j = k
      BY <2>2
    <3>3. QED BY <1>i, <1>2, <1>k, <2>1, <3>1, <3>2 DEF CallsAreOwn
  <2>11. \A i \in Ids : Settled(i) => Settled(i)'
    <3>1. \A i \in Ids : TakenOut(i) => a'.hist[i].kind \in {"deleted", "gone"}
      BY <1>2 DEF TakenOut
    <3>2. \A j \in calls : j \in calls'
      BY <2>2
    <3>3. QED BY <1>2, <1>s, <2>3, <3>1, <3>2
  <2>12. PostedIsSettled'
    BY <1>2, <1>i, <2>11, PostedStaysSettled
  <2>13. TextIsKept'
    <3>1. Waiting' = Waiting /\ Again' = Again
      BY <1>2 DEF Waiting, Again
    <3>2. \A i \in Ids : /\ Mine(i, Waiting) => Kept(i)'
                         /\ Mine(i, Frames(a.held)) => Kept(i)'
                         /\ Watched(i) => Kept(i)'
      BY <1>2, <3>1 DEF Kept, Watched
    <3>3. QED BY <1>i, <1>e, <1>2, <2>11, <3>2, TextStaysKept
  <2>14. QED
    BY <2>6, <2>7, <2>8, <2>9, <2>10, <2>12, <2>13 DEF CustodyInv
<1>3. ASSUME NEW id \in Ids, BeginEdit(id) PROVE CustodyInv'
  <2>1. /\ a'.pending_sends = a.pending_sends /\ a'.awaiting_receipt = a.awaiting_receipt
        /\ a'.held = a.held /\ a'.outbox = a.outbox /\ a'.seal = a.seal
    BY <1>3, <1>a, NodeParts DEF BeginEdit
  <2>2. /\ a.hist[id].kind = "text" /\ a.hist[id].text \in Texts /\ a.hist[id].text < MaxText
        /\ a.hist[id].text # Blank
    BY <1>3, <1>p, <1>i DEF BeginEdit, Sent, TextIsKept
  <2>3. Relays = {}
    BY <2>2, DeliveryAssumption DEF MailSafe, Texts, Blank
  <2>4. a.hist[id].text + 1 # Blank
    BY <2>2, DeliveryAssumption DEF Texts, Blank
  <2>5. \A i \in Ids : /\ a'.hist[i].kind = a.hist[i].kind
                       /\ a'.hist[i].delivery = a.hist[i].delivery
                       /\ a.hist[i].text # Blank => a'.hist[i].text # Blank
    BY <1>3, <1>p, <2>4 DEF BeginEdit, Sent
  <2>6. \A i \in Ids : a'.relay_receipts[i] \subseteq a.relay_receipts[i]
    BY <1>3, <1>p DEF BeginEdit
  <2>7. /\ calls' = calls \cup {NewCall("edit", id, a.hist[id].text + 1)}
        /\ UNCHANGED <<planned, outcomes, round, b, dropped, late, drained, mailbox, wire>>
    BY <1>3 DEF BeginEdit, Locked, receiverVars, netVars
  <2>8. "edit" \in {"edit", "unsend"}
    OBVIOUS
  <2>9. QED BY <1>2, <2>1, <2>2, <2>3, <2>5, <2>6, <2>7, <2>8
<1>4. ASSUME NEW id \in Ids, BeginUnsend(id) PROVE CustodyInv'
  <2>1. /\ a'.pending_sends = a.pending_sends /\ a'.awaiting_receipt = a.awaiting_receipt
        /\ a'.held = a.held /\ a'.outbox = a.outbox /\ a'.seal = a.seal
        /\ a'.hist = a.hist
    BY <1>4, <1>a, NodeParts DEF BeginUnsend
  <2>2. \A i \in Ids : a'.relay_receipts[i] \subseteq a.relay_receipts[i]
    BY <1>4, <1>p DEF BeginUnsend
  <2>3. /\ calls' = calls \cup {NewCall("unsend", id, Blank)} /\ a.hist[id].kind = "text"
        /\ UNCHANGED <<planned, outcomes, round, b, dropped, late, drained, mailbox, wire>>
    BY <1>4 DEF BeginUnsend, Locked, receiverVars, netVars
  <2>4. "unsend" \in {"edit", "unsend"} /\ "unsend" # "edit"
    OBVIOUS
  <2>5. QED BY <1>2, <2>1, <2>2, <2>3, <2>4
<1>5. ASSUME NEW k \in calls, NEW c \in k.copies, RecallCopy(k, c) PROVE CustodyInv'
  <2>1. UNCHANGED <<a, planned, outcomes, round, b, dropped, late, drained, wire>>
    BY <1>5 DEF RecallCopy, receiverVars
  <2>2. PICK r : /\ calls' = (calls \ {k}) \cup {[k EXCEPT !.copies = @ \ {c}, !.recalled = r]}
                 /\ r = k.recalled \/ r = "no"
    <3>1. k \in Call
      BY <1>a
    <3>2. PICK ok \in BOOLEAN : calls' = (calls \ {k}) \cup
                 {[k EXCEPT !.copies = @ \ {c}, !.recalled = IF ok THEN @ ELSE "no"]}
      BY <1>5 DEF RecallCopy
    <3>3. PICK r : r = IF ok THEN k.recalled ELSE "no"
      OBVIOUS
    <3>4. calls' = (calls \ {k}) \cup {[k EXCEPT !.copies = @ \ {c}, !.recalled = r]}
      BY <3>1, <3>2, <3>3 DEF Call
    <3>5. QED BY <3>3, <3>4
  <2>3. k \in Call /\ c \in Copy /\ c.frame.id = k.id
    BY <1>5, <1>a, <1>i DEF Call, CopiesAreOwn
  <2>4. PICK j : j = [k EXCEPT !.copies = @ \ {c}, !.recalled = r]
    OBVIOUS
  <2>5. /\ calls' = (calls \ {k}) \cup {j}
        /\ j.id = k.id /\ j.op = k.op /\ j.phase = k.phase /\ j.out = k.out /\ j.recalled = r
        /\ j.copies \subseteq k.copies /\ k.phase = "recall"
    BY <1>5, <2>2, <2>3, <2>4 DEF Call, RecallCopy
  <2>6. InTransit' \subseteq InTransit /\ \A f \in Mail : f \in Mail' \/ (f = c.frame /\ Relays # {})
    BY <1>5, <1>t, <2>3, RecallLeaves, RecallMails
  <2>7. CallFrames' = CallFrames /\ RoundFrames' = RoundFrames
    BY <2>1, <2>5 DEF CallFrames, RoundFrames
  <2>8. AllFrames' \subseteq AllFrames
    BY <2>1, <2>6, <2>7, FramePlaces, FramePlacesNext
  <2>9. OneKeyEach' /\ SpentIsReceived'
    BY <1>n, <2>1, <2>8
  <2>10. SentOnce' /\ NoRelayCopies' /\ CopiesAreOwn'
    BY <1>i, <2>1, <2>5 DEF SentOnce, NoRelayCopies, CopiesAreOwn
  <2>11. CallsAreOwn'
    <3>1. \A i \in calls' : i \in calls \/ i = j
      BY <2>5
    <3>2. QED BY <1>i, <1>5, <2>1, <2>2, <2>5, <3>1 DEF CallsAreOwn
  <2>12. \A id \in Ids : Settled(id) => Settled(id)'
    <3>1. \A i \in calls : \E l \in calls' : l.id = i.id
      BY <2>5
    <3>2. \A f \in Mail : f \in Mail' \/ (Relays # {} /\ \E l \in calls' : l.id = f.id)
      BY <2>3, <2>5, <2>6
    <3>3. \A id \in Ids : TakenOut(id) => a'.hist[id].kind \in {"deleted", "gone"}
      BY <2>1 DEF TakenOut
    <3>4. QED BY <2>1, <3>1, <3>2, <3>3, EndStays, SettledStays
  <2>13. PostedIsSettled'
    BY <1>i, <2>1, <2>12, PostedStaysSettled
  <2>14. TextIsKept'
    <3>1. Waiting' = Waiting /\ Again' = Again
      BY <2>1 DEF Waiting, Again
    <3>2. \A i \in Ids : /\ Mine(i, Waiting) => Kept(i)'
                         /\ Mine(i, Frames(a.held)) => Kept(i)'
                         /\ Watched(i) => Kept(i)'
      BY <2>1, <3>1 DEF Kept, Watched
    <3>3. QED BY <1>i, <1>e, <2>1, <2>12, <3>2, TextStaysKept
  <2>15. QED
    BY <2>9, <2>10, <2>11, <2>13, <2>14 DEF CustodyInv
\* The frames of the calls when one of them hands its frame out, or ends.
<1>6. ASSUME NEW k \in calls, NEW f, NEW route, CallSends(k, f, route, "Caller")
      PROVE  /\ CallFrames' \subseteq CallFrames \cup {f}
             /\ \A i \in calls : \E l \in calls' : l.id = i.id
             /\ \E j : /\ calls' = (calls \ {k}) \cup {j}
                       /\ j.id = k.id /\ j.op = k.op /\ j.copies = k.copies /\ j.recalled = k.recalled
                       /\ \A o \in j.out : o.done = "Caller"
  <2>1. PICK o : o = [frame |-> f, route |-> route, done |-> "Caller"]
    OBVIOUS
  <2>2. PICK j : j = [k EXCEPT !.phase = "send", !.out = {o}]
    OBVIOUS
  <2>3. calls' = (calls \ {k}) \cup {j} /\ k \in Call
    BY <1>6, <1>a, <2>1, <2>2 DEF CallSends
  <2>4. /\ j.id = k.id /\ j.op = k.op /\ j.out = {o} /\ j.copies = k.copies
        /\ j.recalled = k.recalled /\ o.frame = f /\ o.done = "Caller"
    BY <2>1, <2>2, <2>3 DEF Call
  <2>5. Frames({o}) = {f}
    BY <2>4 DEF Frames
  <2>6. CallFrames' \subseteq CallFrames \cup {f}
    BY <2>3, <2>4, <2>5 DEF CallFrames
  <2>7. \A i \in calls : \E l \in calls' : l.id = i.id
    BY <2>3, <2>4
  <2>8. QED BY <2>3, <2>4, <2>6, <2>7
<1>7. ASSUME NEW k \in calls, CallEnds(k)
      PROVE  calls' = calls \ {k} /\ CallFrames' \subseteq CallFrames
  BY <1>7 DEF CallEnds, CallFrames
<1>8. ASSUME NEW k \in calls, FinishEdit(k) PROVE CustodyInv'
  <2> DEFINE s == a.seal + 1
             mine == HeldUnsent(a, k.id)
             f == Message(k.id, k.text, s)
             e == Edit(k.id, k.text, s)
             again == {[h EXCEPT !.frame = f] : h \in mine}
             held == (a.held \ mine) \cup again
  <2>1. k \in Call /\ k.id \in Ids /\ k.text \in Texts /\ s \in Seals /\ k.op = "edit"
    BY <1>8, <1>a, <1>t, DeliveryAssumption DEF Call, FinishEdit, Seals
  <2>2. /\ f \in Frame /\ e \in Frame /\ IsMessage(f) /\ f.id = k.id /\ f.seal = s /\ e.seal = s
    <3>1. f \in Frame /\ e \in Frame
      BY <2>1, FramesMade
    <3>2. QED BY <3>1 DEF Message, Edit, IsMessage
  <2>3. /\ UNCHANGED <<planned, outcomes, round, b, dropped, late, drained, wire, mailbox>>
        /\ s = a.seal + 1
    BY <1>8 DEF FinishEdit, Locked, receiverVars, netVars
  <2>4. Relays = {} /\ k.recalled # "yes"
    BY <1>8, <1>i, <2>1 DEF CallsAreOwn
  <2>5. \/ a' = [a EXCEPT !.seal = s, !.held = held] /\ CallEnds(k)
        \/ a' = [a EXCEPT !.seal = s] /\ CallSends(k, e, "DirectThenRelay", "Caller")
    BY <1>8, <2>4 DEF FinishEdit
  <2>6. /\ Frames(held) \subseteq Frames(a.held) \cup {f}
        /\ \A id : Mine(id, Frames(a.held)) => Mine(id, Frames(held))
    <3>1. \A h \in mine : h \in HeldSend /\ h.frame.id = k.id
      BY <1>p DEF HeldUnsent
    <3>w. \A h \in mine : [h EXCEPT !.frame = f] \in held
      OBVIOUS
    <3>f. f.kind = "Message" /\ f.id = k.id
      BY <2>2 DEF IsMessage
    <3> HIDE DEF f
    <3>2. \A h \in mine : [h EXCEPT !.frame = f].frame = f
      BY <3>1 DEF HeldSend
    <3>3. \A h \in again : h.frame = f
      BY <3>2
    <3>4. \A h \in a.held : h \in held \/ h \in mine
      OBVIOUS
    <3> HIDE DEF again, mine
    <3>5. Frames(held) \subseteq Frames(a.held) \cup {f}
      BY <3>3 DEF Frames
    <3> HIDE DEF held
    <3>6. \A h \in mine : f \in Frames(held)
      BY <3>2, <3>w DEF Frames
    <3>7. ASSUME NEW id, NEW g \in Frames(a.held), g.kind = "Message", g.id = id
          PROVE  Mine(id, Frames(held))
      <4>1. PICK h \in a.held : h.frame = g
        BY DEF Frames
      <4>2. CASE h \in held
        BY <3>7, <4>1, <4>2 DEF Mine, Frames
      <4>3. CASE h \in mine
        BY <3>1, <3>6, <3>f, <3>7, <4>1, <4>3 DEF Mine
      <4>4. QED BY <3>4, <4>2, <4>3
    <3>8. QED BY <3>5, <3>7 DEF Mine
  <2> HIDE DEF f, e, s, held, mine, again
  <2>7. /\ a'.hist = a.hist /\ a'.pending_sends = a.pending_sends /\ a'.outbox = a.outbox
        /\ a'.relay_receipts = a.relay_receipts /\ a'.awaiting_receipt = a.awaiting_receipt
        /\ a'.seal = s /\ a'.held \in {held, a.held}
        /\ a'.held = held => CallEnds(k) \/ held = a.held
    <3>1. CASE a' = [a EXCEPT !.seal = s, !.held = held] /\ CallEnds(k)
      BY <1>a, <3>1, NodeParts
    <3>2. CASE a' = [a EXCEPT !.seal = s] /\ CallSends(k, e, "DirectThenRelay", "Caller")
      BY <1>a, <3>2, NodeParts
    <3>3. QED BY <2>5, <3>1, <3>2
  <2>8. InTransit' = InTransit /\ RoundFrames' = RoundFrames /\ Mail' = Mail
    BY <2>3, TransitStays, MailStays DEF RoundFrames
  <2>9. /\ OneKeyEach' /\ SpentIsReceived'
    <3>1. CASE a' = [a EXCEPT !.seal = s, !.held = held] /\ CallEnds(k)
      <4>1. NodeFrames(a') \subseteq NodeFrames(a) \cup {f}
        BY <2>6, <2>7 DEF NodeFrames
      <4>2. CallFrames' \subseteq CallFrames
        BY <1>7, <3>1
      <4>3. AllFrames' \subseteq AllFrames \cup {f}
        BY <2>3, <2>8, <4>1, <4>2, FramePlaces, FramePlacesNext
      <4>4. QED BY <1>f, <2>2, <2>3, <2>7, <4>3
    <3>2. CASE a' = [a EXCEPT !.seal = s] /\ CallSends(k, e, "DirectThenRelay", "Caller")
      <4>1. a'.held = a.held
        BY <1>a, <3>2, NodeParts
      <4>2. NodeFrames(a') = NodeFrames(a)
        BY <2>7, <4>1 DEF NodeFrames
      <4>3. CallFrames' \subseteq CallFrames \cup {e}
        BY <1>6, <3>2
      <4>4. AllFrames' \subseteq AllFrames \cup {e}
        BY <2>3, <2>8, <4>2, <4>3, FramePlaces, FramePlacesNext
      <4>5. QED BY <1>f, <2>2, <2>3, <2>7, <4>4
    <3>3. QED BY <2>5, <3>1, <3>2
  <2>10. \/ calls' = calls \ {k}
         \/ \E j : /\ calls' = (calls \ {k}) \cup {j}
                   /\ j.id = k.id /\ j.op = k.op /\ j.copies = k.copies /\ j.recalled = k.recalled
                   /\ \A o \in j.out : o.done = "Caller"
    BY <1>6, <1>7, <2>5
  <2>11. SentOnce' /\ NoRelayCopies'
    BY <1>i, <2>3, <2>7 DEF SentOnce, NoRelayCopies
  <2>12. CopiesAreOwn'
    BY <1>i, <2>3, <2>7, <2>10 DEF CopiesAreOwn
  <2>13. CallsAreOwn'
    BY <1>i, <2>1, <2>3, <2>7, <2>10 DEF CallsAreOwn
  <2>14. \A id \in Ids : Settled(id) => Settled(id)'
    <3>1. \A id \in Ids : TakenOut(id) => a'.hist[id].kind \in {"deleted", "gone"}
      BY <2>7 DEF TakenOut
    <3>2. QED BY <2>3, <2>4, <2>8, <3>1, EndStays, SettledStays
  <2>15. PostedIsSettled'
    BY <1>i, <2>3, <2>14, PostedStaysSettled
  <2>16. TextIsKept'
    <3>1. Waiting' = Waiting /\ Again' = Again
      BY <2>3, <2>7 DEF Waiting, Again
    <3>2. \A id \in Ids : /\ Mine(id, Waiting) => Kept(id)'
                          /\ Mine(id, Frames(a.held)) => Kept(id)'
                          /\ Watched(id) => Kept(id)'
      BY <2>6, <2>7, <3>1 DEF Kept, Watched
    <3>3. QED BY <1>i, <1>e, <2>7, <2>14, <3>2, TextStaysKept
  <2>17. QED
    BY <2>9, <2>11, <2>12, <2>13, <2>15, <2>16 DEF CustodyInv
<1>9. ASSUME NEW k \in calls, FinishUnsend(k) PROVE CustodyInv'
  <2> DEFINE s == a.seal + 1
             mine == HeldUnsent(a, k.id)
             f == Unsend(k.id, s)
             stone == make_tombstone(a.hist[k.id])
  <2>1. k \in Call /\ k.id \in Ids /\ k.op = "unsend" /\ a.hist[k.id].kind # "none"
    BY <1>9, <1>a, <1>i DEF Call, FinishUnsend, CallsAreOwn
  <2>2. UNCHANGED <<planned, outcomes, round, b, dropped, late, drained, wire, mailbox>> /\ s = a.seal + 1
    BY <1>9 DEF FinishUnsend, Locked, receiverVars, netVars
  <2>3. \/ /\ \/ a' = [a EXCEPT !.held = @ \ mine, !.hist[k.id] = Gone]
              \/ a' = a /\ ~Present(a.hist[k.id])
              \/ a' = [a EXCEPT !.hist[k.id] = Gone]
           /\ CallEnds(k)
        \/ /\ a.seal < MaxSeal
           /\ a' = [a EXCEPT !.hist[k.id] = stone, !.seal = s]
           /\ CallSends(k, f, "DirectThenRelay", "Caller")
    BY <1>9 DEF FinishUnsend
  <2>4. InTransit' = InTransit /\ RoundFrames' = RoundFrames /\ Mail' = Mail
    BY <2>2, TransitStays, MailStays DEF RoundFrames
  <2>5. stone.kind = "deleted" /\ Gone.kind = "gone"
    BY DEF make_tombstone, Gone
  <2>h. \A h \in mine : h.frame.id = k.id
    BY DEF HeldUnsent
  <2> HIDE DEF stone, mine, s, f
  <2>6. /\ a'.pending_sends = a.pending_sends /\ a'.outbox = a.outbox
        /\ a'.relay_receipts = a.relay_receipts /\ a'.awaiting_receipt = a.awaiting_receipt
        /\ a'.held \in {a.held, a.held \ mine}
        /\ a'.hist \in {a.hist, [a.hist EXCEPT ![k.id] = Gone], [a.hist EXCEPT ![k.id] = stone]}
        /\ a'.hist = a.hist => ~Present(a.hist[k.id]) \/ a.hist[k.id] = Gone \/ a.hist[k.id] = stone
    <3>1. CASE a' = [a EXCEPT !.held = @ \ mine, !.hist[k.id] = Gone]
      <4>1. /\ a'.pending_sends = a.pending_sends /\ a'.outbox = a.outbox
            /\ a'.relay_receipts = a.relay_receipts /\ a'.awaiting_receipt = a.awaiting_receipt
            /\ a'.held = a.held \ mine /\ a'.hist = [a.hist EXCEPT ![k.id] = Gone]
        BY <1>a, <3>1, NodeParts
      <4>2. a'.hist[k.id] = Gone
        BY <1>p, <2>1, <4>1
      <4>3. QED BY <4>1, <4>2
    <3>2. CASE a' = [a EXCEPT !.hist[k.id] = Gone]
      <4>1. /\ a'.pending_sends = a.pending_sends /\ a'.outbox = a.outbox
            /\ a'.relay_receipts = a.relay_receipts /\ a'.awaiting_receipt = a.awaiting_receipt
            /\ a'.held = a.held /\ a'.hist = [a.hist EXCEPT ![k.id] = Gone]
        BY <1>a, <3>2, NodeParts
      <4>2. a'.hist[k.id] = Gone
        BY <1>p, <2>1, <4>1
      <4>3. QED BY <4>1, <4>2
    <3>3. CASE a' = [a EXCEPT !.hist[k.id] = stone, !.seal = s]
      <4>1. /\ a'.pending_sends = a.pending_sends /\ a'.outbox = a.outbox
            /\ a'.relay_receipts = a.relay_receipts /\ a'.awaiting_receipt = a.awaiting_receipt
            /\ a'.held = a.held /\ a'.hist = [a.hist EXCEPT ![k.id] = stone]
        BY <1>a, <3>3, NodeParts
      <4>2. a'.hist[k.id] = stone
        BY <1>p, <2>1, <4>1
      <4>3. QED BY <4>1, <4>2
    <3>4. CASE a' = a /\ ~Present(a.hist[k.id])
      BY <3>4
    <3>5. QED BY <2>3, <3>1, <3>2, <3>3, <3>4
  <2>7. /\ \A i \in Ids : i # k.id => a'.hist[i] = a.hist[i]
        /\ a'.hist[k.id].kind \in {"deleted", "gone"}
    <3>1. \A i \in Ids : i # k.id => a'.hist[i] = a.hist[i]
      BY <1>p, <2>6
    <3>2. a'.hist = a.hist \/ a'.hist[k.id] = Gone \/ a'.hist[k.id] = stone
      BY <1>p, <2>1, <2>6
    <3>3. a.hist[k.id].kind \in {"text", "deleted", "gone"}
      BY <1>p, <2>1 DEF Sent
    <3>4. QED BY <2>5, <2>6, <3>1, <3>2, <3>3 DEF Present
  <2>8. OneKeyEach' /\ SpentIsReceived'
    <3>1. Frames(a'.held) \subseteq Frames(a.held)
      BY <2>6 DEF Frames
    <3>2. NodeFrames(a') \subseteq NodeFrames(a)
      BY <2>6, <3>1 DEF NodeFrames
    <3>3. CASE CallEnds(k) /\ a'.seal = a.seal
      <4>1. AllFrames' \subseteq AllFrames
        BY <1>7, <2>2, <2>4, <3>2, <3>3, FramePlaces, FramePlacesNext
      <4>2. QED BY <1>n, <2>2, <3>3, <4>1
    <3>4. CASE a.seal < MaxSeal /\ a'.seal = s /\ CallSends(k, f, "DirectThenRelay", "Caller")
      <4>1. f \in Frame /\ f.seal = s
        <5>1. s \in Seals
          BY <1>t, <2>2, <3>4, DeliveryAssumption DEF Seals
        <5>2. QED BY <1>p, <2>1, <5>1, FramesMade DEF Unsend, f
      <4>2. AllFrames' \subseteq AllFrames \cup {f}
        BY <1>6, <2>2, <2>4, <3>2, <3>4, FramePlaces, FramePlacesNext
      <4>3. QED BY <1>f, <2>2, <3>4, <4>1, <4>2
    <3>5. CASE /\ CallEnds(k)
               /\ \/ a' = [a EXCEPT !.held = @ \ mine, !.hist[k.id] = Gone]
                  \/ a' = a \/ a' = [a EXCEPT !.hist[k.id] = Gone]
      <4>1. ASSUME a' = [a EXCEPT !.held = @ \ mine, !.hist[k.id] = Gone] PROVE a'.seal = a.seal
        BY <1>a, <4>1, NodeParts
      <4>2. ASSUME a' = [a EXCEPT !.hist[k.id] = Gone] PROVE a'.seal = a.seal
        BY <1>a, <4>2, NodeParts
      <4>3. a'.seal = a.seal
        BY <3>5, <4>1, <4>2
      <4>4. QED BY <3>3, <3>5, <4>3
    <3>6. CASE /\ a.seal < MaxSeal
               /\ a' = [a EXCEPT !.hist[k.id] = stone, !.seal = s]
               /\ CallSends(k, f, "DirectThenRelay", "Caller")
      <4>1. a'.seal = s
        BY <1>a, <3>6, NodeParts
      <4>2. QED BY <3>4, <3>6, <4>1
    <3>7. QED BY <2>3, <3>5, <3>6
  <2>9. \/ calls' = calls \ {k}
        \/ \E j : /\ calls' = (calls \ {k}) \cup {j}
                  /\ j.id = k.id /\ j.op = k.op /\ j.copies = k.copies /\ j.recalled = k.recalled
                  /\ \A o \in j.out : o.done = "Caller"
    BY <1>6, <1>7, <2>3
  <2>10. \A i \in Ids : a.hist[i].kind # "none" => a'.hist[i].kind # "none"
    BY <2>7
  <2>11. SentOnce' /\ NoRelayCopies'
    <3>1. \A g \in a.pending_sends : g.id \in Ids
      BY <1>p DEF Frame
    <3>2. QED BY <1>i, <2>2, <2>6, <2>10, <3>1 DEF SentOnce, NoRelayCopies
  <2>12. CopiesAreOwn'
    BY <1>i, <2>2, <2>6, <2>9 DEF CopiesAreOwn
  <2>13. CallsAreOwn'
    <3>1. \A i \in Ids : a.hist[i].kind \in {"deleted", "gone"} => a'.hist[i].kind \in {"deleted", "gone"}
      BY <2>7
    <3>2. QED BY <1>i, <1>k, <2>1, <2>7, <2>9, <2>10, <3>1 DEF CallsAreOwn
  <2>14. \A i \in Ids : Settled(i) => Settled(i)'
    <3>1. \A i \in Ids : TakenOut(i) => a'.hist[i].kind \in {"deleted", "gone"}
      BY <2>7 DEF TakenOut
    <3>2. \A j \in calls : (\E l \in calls' : l.id = j.id) \/ a'.hist[j.id].kind \in {"deleted", "gone"}
      BY <2>7, <2>9
    <3>3. QED BY <2>2, <2>4, <3>1, <3>2, EndStays, SettledStays
  <2>15. PostedIsSettled'
    BY <1>i, <2>2, <2>14, PostedStaysSettled
  <2>16. TextIsKept'
    <3>1. Waiting' = Waiting /\ Again' = Again
      BY <2>2, <2>6 DEF Waiting, Again
    <3>2. \A i \in Ids : a'.hist[i].kind = "text" => i # k.id /\ a'.hist[i] = a.hist[i]
      BY <2>7
    <3>3. \A i \in Ids : i # k.id /\ Mine(i, Frames(a.held)) => Mine(i, Frames(a'.held))
      BY <2>6, <2>h DEF Mine, Frames
    <3>4. \A i \in Ids : a.hist[i].kind = "text" /\ a'.hist[i].kind = "text" =>
                         /\ Mine(i, Waiting) => Kept(i)'
                         /\ Mine(i, Frames(a.held)) => Kept(i)'
                         /\ Watched(i) => Kept(i)'
      BY <2>6, <3>1, <3>2, <3>3 DEF Kept, Watched
    <3>5. QED BY <1>i, <1>e, <2>14, <3>2, <3>4, TextStaysKept
  <2>17. QED
    BY <2>8, <2>11, <2>12, <2>13, <2>15, <2>16 DEF CustodyInv
\* A step that lets go of nothing a message is kept by.
<1>w. ASSUME a'.hist = a.hist, Frames(a.held) \subseteq Frames(a'.held),
             a.awaiting_receipt \subseteq a'.awaiting_receipt,
             Waiting \subseteq Waiting', Again \subseteq Again',
             \A id \in Ids : Settled(id) => Settled(id)'
      PROVE  TextIsKept'
  <2>1. \A id \in Ids : /\ Mine(id, Waiting) => Mine(id, Waiting')
                        /\ Mine(id, Frames(a.held)) => Mine(id, Frames(a'.held))
                        /\ Resending(Again, id) => Resending(Again', id)
    BY <1>w DEF Mine, Resending
  <2>2. \A id \in Ids : /\ Mine(id, Waiting) => Kept(id)'
                        /\ Mine(id, Frames(a.held)) => Kept(id)'
                        /\ Watched(id) => Kept(id)'
    BY <1>w, <2>1 DEF Kept, Watched
  <2>3. QED BY <1>i, <1>e, <1>w, <2>2, TextStaysKept
<1>10. ASSUME NEW k \in calls, NEW o \in k.out, RunCall(k, o) PROVE CustodyInv'
  <2>1. UNCHANGED <<a, planned, outcomes, round, b, dropped, late, drained>> /\ k.phase = "send"
    BY <1>10 DEF RunCall, receiverVars
  <2>2. PICK d : /\ Run(o.frame, o.route, d)
                 /\ calls' = (calls \ {k}) \cup {[k EXCEPT !.phase = "apply", !.delivery = d]}
    BY <1>10 DEF RunCall
  <2>3. PICK j : j = [k EXCEPT !.phase = "apply", !.delivery = d]
    OBVIOUS
  <2>4. k \in Call /\ o.frame \in Frame /\ NetOK
    BY <1>10, <1>a, <1>t DEF Call, Outbound
  <2>5. /\ calls' = (calls \ {k}) \cup {j}
        /\ j.id = k.id /\ j.op = k.op /\ j.phase = "apply" /\ j.out = k.out
        /\ j.copies = k.copies /\ j.recalled = k.recalled
    BY <2>2, <2>3, <2>4 DEF Call
  <2>6. InTransit' \subseteq InTransit \cup {o.frame} /\ Mail \subseteq Mail'
    BY <2>1, <2>2, <2>4, RunAdds, RunMails
  <2>7. CallFrames' = CallFrames /\ RoundFrames' = RoundFrames /\ o.frame \in CallFrames
    BY <1>10, <2>1, <2>5 DEF CallFrames, RoundFrames, Frames
  <2>8. AllFrames' \subseteq AllFrames
    BY <2>1, <2>6, <2>7, FramePlaces, FramePlacesNext
  <2>9. OneKeyEach' /\ SpentIsReceived'
    BY <1>n, <2>1, <2>8
  <2>10. SentOnce' /\ NoRelayCopies' /\ CopiesAreOwn'
    BY <1>i, <2>1, <2>5 DEF SentOnce, NoRelayCopies, CopiesAreOwn
  <2>11. CallsAreOwn'
    <3>1. \A i \in calls' : i \in calls \/ i = j
      BY <2>5
    <3>2. QED BY <1>i, <2>1, <2>5, <3>1 DEF CallsAreOwn
  <2>12. \A id \in Ids : Settled(id) => Settled(id)'
    <3>1. \A i \in calls : \E l \in calls' : l.id = i.id
      BY <2>5
    <3>2. \A id \in Ids : TakenOut(id) => a'.hist[id].kind \in {"deleted", "gone"}
      BY <2>1 DEF TakenOut
    <3>3. QED BY <1>s, <2>1, <2>6, <3>1, <3>2
  <2>13. PostedIsSettled'
    BY <1>i, <2>1, <2>12, PostedStaysSettled
  <2>14. TextIsKept'
    BY <1>w, <2>1, <2>12 DEF Waiting, Again
  <2>15. QED
    BY <2>9, <2>10, <2>11, <2>13, <2>14 DEF CustodyInv
<1>11. ASSUME NEW k \in calls, NEW o \in k.out, ApplyCall(k, o) PROVE CustodyInv'
  <2> DEFINE failed == k.delivery.via = "Failed"
             held == IF failed /\ ~HasRelayRoute THEN Hold(a.held, {o.frame}) ELSE a.held
             copies == IF o.done = "CallerRecords" /\ ~failed THEN k.delivery.copies
                       ELSE a.relay_receipts[k.id]
  <2>1. /\ UNCHANGED <<planned, outcomes, round, b, dropped, late, drained, wire, mailbox>>
        /\ k.phase = "apply" /\ calls' = calls \ {k}
    BY <1>11 DEF ApplyCall, Locked, receiverVars, netVars, CallEnds
  <2>2. a' = [a EXCEPT !.held = held, !.relay_receipts[k.id] = copies]
    BY <1>11 DEF ApplyCall
  <2>3. k \in Call /\ k.id \in Ids /\ copies = a.relay_receipts[k.id]
    BY <1>11, <1>a, <1>i DEF Call, CallsAreOwn
  <2>4. /\ Frames(held) \subseteq Frames(a.held) \cup {o.frame} /\ Frames(a.held) \subseteq Frames(held)
    BY HoldFrames
  <2> HIDE DEF held, copies
  <2>5. /\ a'.hist = a.hist /\ a'.pending_sends = a.pending_sends /\ a'.outbox = a.outbox
        /\ a'.seal = a.seal /\ a'.held = held /\ a'.awaiting_receipt = a.awaiting_receipt
        /\ a'.relay_receipts = [a.relay_receipts EXCEPT ![k.id] = copies]
    BY <1>a, <2>2, NodeParts
  <2>6. \A id \in Ids : a'.relay_receipts[id] = a.relay_receipts[id]
    BY <1>p, <2>3, <2>5
  <2>7. InTransit' = InTransit /\ RoundFrames' = RoundFrames /\ Mail' = Mail
    BY <2>1, TransitStays, MailStays DEF RoundFrames
  <2>8. CallFrames' \subseteq CallFrames /\ o.frame \in CallFrames
    <3>1. CallFrames' \subseteq CallFrames
      BY <2>1 DEF CallFrames
    <3>2. o.frame \in Frames(k.out)
      BY <1>11 DEF Frames
    <3>3. QED BY <1>11, <3>1, <3>2 DEF CallFrames
  <2>9. AllFrames' \subseteq AllFrames
    BY <2>1, <2>4, <2>5, <2>7, <2>8, FramePlaces, FramePlacesNext DEF NodeFrames
  <2>10. OneKeyEach' /\ SpentIsReceived'
    BY <1>n, <2>1, <2>5, <2>9
  <2>11. SentOnce' /\ NoRelayCopies' /\ CopiesAreOwn'
    BY <1>i, <2>1, <2>5, <2>6 DEF SentOnce, NoRelayCopies, CopiesAreOwn
  <2>12. CallsAreOwn'
    BY <1>i, <2>1, <2>5 DEF CallsAreOwn
  <2>13. \A id \in Ids : Settled(id) => Settled(id)'
    <3>1. ASSUME Relays # {} PROVE a.hist[k.id].kind \in {"deleted", "gone"}
      BY <1>11, <1>i, <1>k, <2>1, <3>1 DEF CallsAreOwn
    <3>2. Relays # {} => \A i \in calls : (\E l \in calls' : l.id = i.id)
                                            \/ a'.hist[i.id].kind \in {"deleted", "gone"}
      BY <2>1, <2>5, <3>1
    <3>3. \A id \in Ids : TakenOut(id) => a'.hist[id].kind \in {"deleted", "gone"}
      BY <2>5 DEF TakenOut
    <3>4. QED BY <2>1, <2>7, <3>2, <3>3, EndStays, SettledStays
  <2>14. PostedIsSettled'
    BY <1>i, <2>1, <2>13, PostedStaysSettled
  <2>15. TextIsKept'
    BY <1>w, <2>1, <2>4, <2>5, <2>13 DEF Waiting, Again
  <2>16. QED
    BY <2>10, <2>11, <2>12, <2>14, <2>15 DEF CustodyInv
<1>12. CASE PlanPendingSends
  <2>1. /\ UNCHANGED <<outcomes, round, calls, b, dropped, late, drained, wire, mailbox>>
        /\ planned = {} /\ outcomes = {} /\ planned' = a.pending_sends
    BY <1>12 DEF PlanPendingSends, Locked, receiverVars, netVars
  <2>2. /\ a'.hist = a.hist /\ a'.pending_sends = {} /\ a'.outbox = a.outbox
        /\ a'.seal = a.seal /\ a'.held = a.held /\ a'.relay_receipts = a.relay_receipts
        /\ a'.awaiting_receipt = a.awaiting_receipt
    BY <1>12, <1>a, NodeParts DEF PlanPendingSends
  <2>3. InTransit' = InTransit /\ RoundFrames' = RoundFrames /\ CallFrames' = CallFrames /\ Mail' = Mail
    BY <2>1, TransitStays, MailStays DEF RoundFrames, CallFrames
  <2>4. AllFrames' \subseteq AllFrames
    BY <2>1, <2>2, <2>3, FramePlaces, FramePlacesNext DEF NodeFrames
  <2>5. OneKeyEach' /\ SpentIsReceived'
    BY <1>n, <2>1, <2>2, <2>4
  <2>6. SentOnce' /\ NoRelayCopies' /\ CopiesAreOwn' /\ CallsAreOwn'
    <3>1. SentOnce'
      BY <1>i, <2>1, <2>2 DEF SentOnce, OnePerMessage
    <3>2. NoRelayCopies' /\ CopiesAreOwn' /\ CallsAreOwn'
      BY <1>i, <2>1, <2>2 DEF NoRelayCopies, CopiesAreOwn, CallsAreOwn
    <3>3. QED BY <3>1, <3>2
  <2>7. \A id \in Ids : Settled(id) => Settled(id)'
    <3>1. \A id \in Ids : TakenOut(id) => a'.hist[id].kind \in {"deleted", "gone"}
      BY <2>2 DEF TakenOut
    <3>2. QED BY <1>s, <2>1, <2>3, <3>1
  <2>8. PostedIsSettled'
    BY <1>i, <2>1, <2>7, PostedStaysSettled
  <2>9. TextIsKept'
    <3>1. Waiting \subseteq Waiting' /\ Again' = Again
      BY <2>1, <2>2 DEF Waiting, Again
    <3>2. QED BY <1>w, <2>2, <2>7, <3>1
  <2>10. QED
    BY <2>5, <2>6, <2>8, <2>9 DEF CustodyInv
<1>13. ASSUME NEW f \in planned, ExecuteSend(f) PROVE CustodyInv'
  <2>1. UNCHANGED <<a, round, calls, b, dropped, late, drained>> /\ planned' = planned \ {f}
    BY <1>13 DEF ExecuteSend, receiverVars
  <2>2. f \in Frame /\ f.id \in Ids /\ NetOK /\ IsMessage(f)
    BY <1>13, <1>t, <1>i DEF SenderOK, Frame, CopiesAreOwn
  <2>3. PICK o : /\ outcomes' = outcomes \cup {o} /\ o.frame = f /\ \A c \in o.copies : c.frame = f
                 /\ InTransit' \subseteq InTransit \cup {f} /\ Mail \subseteq Mail'
                 /\ o.copies # {} => f \in Mail' /\ Relays # {}
    <3>1. PICK delivered \in BOOLEAN :
             /\ wire' = IF delivered THEN wire \cup {f} ELSE wire
             /\ \/ \E took \in SUBSET Relays, stray \in SUBSET Relays :
                     /\ Post(f, took, stray)
                     /\ outcomes' = outcomes \cup
                          {[frame |-> f, delivered |-> delivered, copies |-> Copies(f, took)]}
                \/ /\ outcomes' = outcomes \cup
                          {[frame |-> f, delivered |-> TRUE, copies |-> {}]}
                   /\ UNCHANGED mailbox
      BY <1>13 DEF ExecuteSend
    <3>2. InTransit = wire \cup FramesOf(drained) \cup MailFrames
          /\ InTransit' = wire' \cup FramesOf(drained') \cup MailFrames'
      BY DEF InTransit, MailFrames
    <3>3. ASSUME NEW took \in SUBSET Relays, NEW stray \in SUBSET Relays, Post(f, took, stray),
                 outcomes' = outcomes \cup
                          {[frame |-> f, delivered |-> delivered, copies |-> Copies(f, took)]}
          PROVE  \E o : /\ outcomes' = outcomes \cup {o} /\ o.frame = f
                        /\ \A c \in o.copies : c.frame = f
                        /\ InTransit' \subseteq InTransit \cup {f} /\ Mail \subseteq Mail'
                        /\ o.copies # {} => f \in Mail' /\ Relays # {}
      <4>1. /\ MailFrames \subseteq MailFrames' /\ MailFrames' \subseteq MailFrames \cup {f}
            /\ took # {} => f \in MailFrames'
        BY <2>2, <3>3, PostAdds
      <4>2. InTransit' \subseteq InTransit \cup {f}
        BY <2>1, <3>1, <3>2, <4>1
      <4>3. Mail \subseteq Mail' /\ (took # {} => f \in Mail')
        BY <2>1, <4>1 DEF Mail
      <4>4. /\ \A c \in Copies(f, took) : c.frame = f
            /\ Copies(f, took) # {} => took # {} /\ Relays # {}
        BY DEF Copies
      <4>5. PICK o : o = [frame |-> f, delivered |-> delivered, copies |-> Copies(f, took)]
        OBVIOUS
      <4>6. outcomes' = outcomes \cup {o} /\ o.frame = f /\ o.copies = Copies(f, took)
        BY <3>3, <4>5
      <4>7. QED BY <4>2, <4>3, <4>4, <4>6
    <3>4. ASSUME outcomes' = outcomes \cup {[frame |-> f, delivered |-> TRUE, copies |-> {}]},
                 UNCHANGED mailbox
          PROVE  \E o : /\ outcomes' = outcomes \cup {o} /\ o.frame = f
                        /\ \A c \in o.copies : c.frame = f
                        /\ InTransit' \subseteq InTransit \cup {f} /\ Mail \subseteq Mail'
                        /\ o.copies # {} => f \in Mail' /\ Relays # {}
      <4>1. InTransit' \subseteq InTransit \cup {f} /\ Mail' = Mail
        BY <2>1, <3>1, <3>4, MailStays DEF InTransit
      <4>2. PICK o : o = [frame |-> f, delivered |-> TRUE, copies |-> {}]
        OBVIOUS
      <4>3. outcomes' = outcomes \cup {o} /\ o.frame = f /\ o.copies = {}
        BY <3>4, <4>2
      <4>4. QED BY <4>1, <4>3
    <3>5. QED BY <3>1, <3>3, <3>4
  <2>4. CallFrames' = CallFrames /\ RoundFrames' = RoundFrames /\ Frames(outcomes') = Frames(outcomes) \cup {f}
    BY <2>1, <2>3 DEF CallFrames, RoundFrames, Frames
  <2>5. AllFrames' \subseteq AllFrames
    BY <1>13, <2>1, <2>3, <2>4, FramePlaces, FramePlacesNext
  <2>6. OneKeyEach' /\ SpentIsReceived'
    BY <1>n, <2>1, <2>5
  <2>7. SentOnce'
    <3>1. \A g \in planned' : g \in planned /\ g # f /\ g.id # f.id
      BY <1>13, <1>i, <2>1 DEF SentOnce, OnePerMessage
    <3>2. \A p \in outcomes : p.frame.id # f.id
      BY <1>13, <1>i DEF SentOnce
    <3>3. \A g \in planned', p \in outcomes' : g.id # p.frame.id
      BY <1>i, <2>3, <3>1 DEF SentOnce
    <3>4. \A p, q \in outcomes' : p.frame.id = q.frame.id => p = q
      BY <1>i, <2>3, <3>2 DEF SentOnce
    <3>5. OnePerMessage(planned')
      BY <1>i, <3>1 DEF SentOnce, OnePerMessage
    <3>6. QED BY <1>i, <2>1, <3>3, <3>4, <3>5 DEF SentOnce
  <2>8. NoRelayCopies' /\ CallsAreOwn'
    BY <1>i, <2>1, <2>3 DEF NoRelayCopies, CallsAreOwn
  <2>9. CopiesAreOwn'
    <3>1. \A p \in outcomes' : p \in outcomes \/ p = o
      BY <2>3
    <3>2. \A p \in outcomes' : IsMessage(p.frame) /\ \A c \in p.copies : c.frame = p.frame
      BY <1>i, <2>2, <2>3, <3>1 DEF CopiesAreOwn
    <3>3. QED BY <1>i, <2>1, <3>2 DEF CopiesAreOwn
  <2>10. \A id \in Ids : Settled(id) => Settled(id)'
    <3>1. \A id \in Ids : TakenOut(id) => a'.hist[id].kind \in {"deleted", "gone"}
      BY <2>1 DEF TakenOut
    <3>2. QED BY <1>s, <2>1, <2>3, <3>1
  <2>11. PostedIsSettled'
    <3>1. f \in Mail' => Settled(f.id)'
      BY <2>2 DEF Settled, Landing, InMail
    <3>2. \A p \in outcomes' : p \in outcomes \/ (p.copies # {} => p.frame.id \in Ids /\ Settled(p.frame.id)')
      BY <2>2, <2>3, <3>1
    <3>3. QED BY <1>i, <2>1, <2>10, <3>2, PostedStaysSettled
  <2>12. TextIsKept'
    <3>1. Waiting \subseteq Waiting' /\ Again' = Again
      BY <2>1, <2>4 DEF Waiting, Again
    <3>2. QED BY <1>w, <2>1, <2>10, <3>1
  <2>13. QED
    BY <2>6, <2>7, <2>8, <2>9, <2>11, <2>12 DEF CustodyInv
<1>14. ASSUME NEW direct \in SUBSET acks, NEW relayed \in SUBSET acks, NEW due,
              NEW timed \in SUBSET Ids, NEW may_retry, Tick(direct, relayed, due, timed, may_retry)
       PROVE  CustodyInv'
  <2>1. /\ UNCHANGED <<planned, round, calls, b, dropped, late, drained, wire, mailbox>>
        /\ planned = {} /\ outcomes' = {} /\ a' = TickNode(direct, relayed, due, timed, may_retry)
    BY <1>14 DEF Tick, receiverVars
  <2>2. Follows(a, a', outcomes)
    <3>1. a.seal + Cardinality(timed) <= MaxSeal
      BY <1>14 DEF Tick
    <3>2. QED BY <2>1, <3>1, TickFollows
  <2>3. /\ Extends(a, a')
        /\ \A id \in Ids : \A c \in a'.relay_receipts[id] :
             \/ c \in a.relay_receipts[id]
             \/ \E o \in outcomes : o.frame.id = id /\ c \in o.copies
        /\ \A id \in Ids \ (direct \cup relayed) :
             Present(a.hist[id]) /\ (\A o \in outcomes : o.frame.id # id)
               /\ a.hist[id].delivery = "sent" =>
                 /\ a'.hist[id].delivery = "sent"
                 /\ id \in a.awaiting_receipt => OnWatch(a', id)
        /\ \A o \in outcomes : (\A p \in outcomes : p.frame.id = o.frame.id => p = o) =>
             IF o.delivered
             THEN Present(a.hist[o.frame.id]) => OnWatch(a', o.frame.id)
             ELSE o.copies = {} => o.frame \in Frames(a'.held)
    <3> DEFINE m == TickNode(direct, relayed, due, timed, may_retry)
    <3>1. /\ Extends(a, m)
          /\ \A id \in Ids : \A c \in m.relay_receipts[id] :
               \/ c \in a.relay_receipts[id]
               \/ \E o \in outcomes : o.frame.id = id /\ c \in o.copies
          /\ \A id \in Ids \ (direct \cup relayed) :
               Present(a.hist[id]) /\ (\A o \in outcomes : o.frame.id # id)
                 /\ a.hist[id].delivery = "sent" =>
                   /\ m.hist[id].delivery = "sent"
                   /\ id \in a.awaiting_receipt => OnWatch(m, id)
          /\ \A o \in outcomes : (\A p \in outcomes : p.frame.id = o.frame.id => p = o) =>
               IF o.delivered
               THEN Present(a.hist[o.frame.id]) => OnWatch(m, o.frame.id)
               ELSE o.copies = {} => o.frame \in Frames(m.held)
      BY TickExtends
    <3>2. a' = m
      BY <2>1
    <3> HIDE DEF m
    <3>3. QED BY ONLY <3>1, <3>2
  <2>4. \A f, g \in NodeFrames(a') : a.seal < f.seal /\ a.seal < g.seal /\ f.seal = g.seal => f = g
    <3>1. \A f \in NodeFrames(a) \cup Frames(outcomes) : f.seal <= a.seal
      BY <1>i, FramePlaces DEF OneKeyEach
    <3>2. QED BY <2>1, <3>1, TickKeys
  <2>5. NodeOK(a') /\ NodeFrames(a') \subseteq Frame
    <3>1. NodeOK(a')
      BY <1>t, TypeGroupsNext DEF SenderOK
    <3>2. QED BY <3>1, NodeParts DEF NodeFrames, Frames, HeldSend, Outbound
  <2>6. PICK New \in SUBSET Frame :
           New = {f \in NodeFrames(a') : IsMessage(f) /\ a.seal < f.seal /\ f.seal <= a'.seal}
    BY <2>5
  <2>7. /\ \A f \in New : a.seal < f.seal /\ f.seal <= a'.seal
        /\ \A f, g \in New : f.seal = g.seal => f = g
    BY <2>4, <2>6
  <2>8. \A f \in NodeFrames(a') : f \in NodeFrames(a) \/ f \in Frames(outcomes) \/ f \in New
    BY <2>2, <2>6 DEF Follows, IsMessage
  <2>9. InTransit' = InTransit /\ RoundFrames' = RoundFrames /\ CallFrames' = CallFrames /\ Mail' = Mail
    BY <2>1, TransitStays, MailStays DEF RoundFrames, CallFrames
  <2>10. AllFrames' \subseteq AllFrames \cup New
    <3>1. Frames(outcomes') = {}
      BY <2>1 DEF Frames
    <3>2. QED BY <2>1, <2>8, <2>9, <3>1, FramePlaces, FramePlacesNext
  <2>11. OneKeyEach' /\ SpentIsReceived'
    <3>1. a.seal <= a'.seal
      BY <2>2 DEF Follows
    <3>2. QED BY <1>t, <2>1, <2>7, <2>10, <3>1, KeysKept
  <2>12. /\ a'.pending_sends = a.pending_sends /\ Frames(a.held) \subseteq Frames(a'.held)
         /\ a.outbox \subseteq a'.outbox
         /\ \A id \in Ids : a'.hist[id].kind = a.hist[id].kind /\ a'.hist[id].text = a.hist[id].text
    BY <2>3 DEF Extends
  <2>13. SentOnce' /\ CallsAreOwn'
    <3>1. \A f \in a.pending_sends : f.id \in Ids
      BY <1>p DEF Frame
    <3>2. QED BY <1>i, <1>k, <2>1, <2>12, <3>1 DEF SentOnce, OnePerMessage, CallsAreOwn
  <2>14. CopiesAreOwn'
    <3>1. \A o \in a'.outbox : o.done = "Held" \/ IsMessage(o.frame)
      BY <1>i, <2>2 DEF CopiesAreOwn, Follows, IsMessage
    <3>2. \A id \in Ids : \A c \in a'.relay_receipts[id] : c.frame.id = id
      BY <1>i, <2>3 DEF CopiesAreOwn
    <3>3. QED BY <1>i, <2>1, <2>12, <3>1, <3>2 DEF CopiesAreOwn
  <2>15. NoRelayCopies'
    <3>1. Relays = {} => \A id \in Ids : a'.relay_receipts[id] = {}
      BY <1>i, <2>3 DEF NoRelayCopies
    <3>2. QED BY <1>i, <2>1, <3>1 DEF NoRelayCopies
  <2>16. \A id \in Ids : Settled(id) => Settled(id)'
    <3>1. \A id \in Ids : TakenOut(id) => a'.hist[id].kind \in {"deleted", "gone"}
      BY <2>12 DEF TakenOut
    <3>2. QED BY <1>s, <2>1, <2>9, <3>1
  <2>17. PostedIsSettled'
    BY <1>i, <2>1, <2>16, PostedStaysSettled
  <2>18. TextIsKept'
    <3>a. /\ \A id \in Ids : OnWatch(a', id) => Watched(id)'
          /\ \A id \in Ids : Resending(Again, id) => Resending(Again', id)
      BY <2>1, <2>12 DEF OnWatch, Watched, Again, Resending
    <3>o. ASSUME NEW id \in Ids, a.hist[id].kind = "text", a'.hist[id].kind = "text",
                 NEW o \in outcomes, o.frame.id = id
          PROVE  Kept(id)'
      <4>1. \A p \in outcomes : p.frame.id = o.frame.id => p = o
        BY <1>i DEF SentOnce
      <4>2. Present(a.hist[id]) /\ IsMessage(o.frame)
        BY <1>i, <3>o DEF Present, CopiesAreOwn
      <4>3. CASE o.delivered
        BY <2>3, <3>a, <3>o, <4>1, <4>2, <4>3 DEF Kept
      <4>4. CASE ~o.delivered /\ o.copies = {}
        <5>1. o.frame \in Frames(a'.held)
          BY <2>3, <4>1, <4>4
        <5>2. QED BY <3>o, <4>2, <5>1 DEF Kept, Mine, IsMessage
      <4>5. CASE o.copies # {}
        <5>1. Settled(id)'
          BY <1>i, <2>16, <3>o, <4>5 DEF PostedIsSettled
        <5>2. QED BY <3>o, <5>1 DEF Settled, TakenOut, Kept
      <4>6. QED BY <4>3, <4>4, <4>5
    <3>1. ASSUME NEW id \in Ids, a.hist[id].kind = "text", a'.hist[id].kind = "text", Mine(id, Waiting)
          PROVE  Kept(id)'
      <4>1. PICK f \in Waiting : f.kind = "Message" /\ f.id = id
        BY <3>1 DEF Mine
      <4>2. CASE f \in a.pending_sends
        BY <2>12, <4>1, <4>2 DEF Kept, Mine, Waiting
      <4>3. CASE f \in Frames(outcomes)
        BY <3>1, <3>o, <4>1, <4>3 DEF Frames
      <4>4. QED BY <2>1, <4>2, <4>3 DEF Waiting
    <3>2. \A id \in Ids : Mine(id, Frames(a.held)) => Kept(id)'
      BY <2>12 DEF Mine, Kept
    <3>3. ASSUME NEW id \in Ids, a.hist[id].kind = "text", a'.hist[id].kind = "text", Watched(id)
          PROVE  Kept(id)'
      <4>1. CASE id \in direct \cup relayed
        <5>1. Known(id)
          BY <4>1 DEF DurableInv, Ahead, Known
        <5>2. QED BY <2>1, <5>1, EndStays DEF Kept, Landing
      <4>2. CASE \E o \in outcomes : o.frame.id = id
        BY <3>3, <3>o, <4>2
      <4>3. CASE id \notin direct \cup relayed /\ \A o \in outcomes : o.frame.id # id
        <5>1. Present(a.hist[id]) /\ a.hist[id].delivery = "sent"
          BY <3>3 DEF Present, Watched
        <5>2. a'.hist[id].delivery = "sent" /\ (id \in a.awaiting_receipt => OnWatch(a', id))
          BY <2>3, <4>3, <5>1
        <5>3. Watched(id)'
          BY <3>3, <3>a, <5>2 DEF Watched
        <5>4. QED BY <5>3 DEF Kept
      <4>4. QED BY <4>1, <4>2, <4>3
    <3>4. QED BY <1>i, <1>e, <2>12, <2>16, <3>1, <3>2, <3>3, TextStaysKept
  <2>19. QED
    BY <2>11, <2>13, <2>14, <2>15, <2>17, <2>18 DEF CustodyInv
<1>15. CASE TakeOutbox
  <2>1. /\ UNCHANGED <<planned, outcomes, calls, b, dropped, late, drained, wire, mailbox>>
        /\ round.todo = {} /\ round.finished = {}
        /\ round'.todo = a.outbox /\ round'.finished = {}
    BY <1>15 DEF TakeOutbox, Locked, receiverVars, netVars
  <2>2. /\ a'.hist = a.hist /\ a'.pending_sends = a.pending_sends /\ a'.outbox = {}
        /\ a'.seal = a.seal /\ a'.held = a.held /\ a'.relay_receipts = a.relay_receipts
        /\ a'.awaiting_receipt = a.awaiting_receipt
    BY <1>15, <1>a, NodeParts DEF TakeOutbox
  <2>3. InTransit' = InTransit /\ CallFrames' = CallFrames /\ Mail' = Mail
    BY <2>1, TransitStays, MailStays DEF CallFrames
  <2>4. AllFrames' \subseteq AllFrames
    <3>1. RoundFrames' = Frames(a.outbox) /\ Frames(a'.outbox) = {}
      BY <2>1, <2>2 DEF RoundFrames, Frames
    <3>2. QED BY <2>1, <2>2, <2>3, <3>1, FramePlaces, FramePlacesNext DEF NodeFrames
  <2>5. OneKeyEach' /\ SpentIsReceived'
    BY <1>n, <2>1, <2>2, <2>4
  <2>6. SentOnce' /\ NoRelayCopies' /\ CopiesAreOwn' /\ CallsAreOwn'
    <3>1. SentOnce' /\ CallsAreOwn'
      BY <1>i, <2>1, <2>2 DEF SentOnce, CallsAreOwn
    <3>2. NoRelayCopies' /\ CopiesAreOwn'
      BY <1>i, <2>1, <2>2 DEF NoRelayCopies, CopiesAreOwn
    <3>3. QED BY <3>1, <3>2
  <2>7. \A id \in Ids : Settled(id) => Settled(id)'
    <3>1. \A id \in Ids : TakenOut(id) => a'.hist[id].kind \in {"deleted", "gone"}
      BY <2>2 DEF TakenOut
    <3>2. QED BY <1>s, <2>1, <2>3, <3>1
  <2>8. PostedIsSettled'
    BY <1>i, <2>1, <2>7, PostedStaysSettled
  <2>9. TextIsKept'
    <3>1. Waiting' = Waiting /\ Again \subseteq Again'
      BY <2>1, <2>2 DEF Waiting, Again
    <3>2. QED BY <1>w, <2>2, <2>7, <3>1
  <2>10. QED
    BY <2>5, <2>6, <2>8, <2>9 DEF CustodyInv
<1>16. ASSUME NEW o \in round.todo, RunOutbox(o) PROVE CustodyInv'
  <2>1. UNCHANGED <<a, planned, outcomes, calls, b, dropped, late, drained>>
    BY <1>16 DEF RunOutbox, receiverVars
  <2>2. PICK d : /\ Run(o.frame, o.route, d)
                 /\ round' = [round EXCEPT !.todo = @ \ {o},
                                           !.finished = @ \cup {[out |-> o, delivery |-> d]}]
    BY <1>16 DEF RunOutbox
  <2>3. o.frame \in Frame /\ o.frame.id \in Ids /\ NetOK
    BY <1>16, <1>a, <1>t DEF Round, Outbound, Frame
  <2>4. PICK x : x = [out |-> o, delivery |-> d]
    OBVIOUS
  <2>5. /\ x.out = o /\ x.delivery = d
        /\ round'.todo = round.todo \ {o} /\ round'.finished = round.finished \cup {x}
    BY <1>a, <2>2, <2>4 DEF Round
  <2>6. /\ InTransit' \subseteq InTransit \cup {o.frame} /\ Mail \subseteq Mail'
        /\ d.via = "Relay" => o.frame \in Mail'
        /\ \A c \in d.copies : c.frame = o.frame
        /\ Relays = {} => d.via # "Relay" /\ d.copies = {}
    BY <2>1, <2>2, <2>3, RunAdds, RunMails
  <2>7. CallFrames' = CallFrames /\ RoundFrames' \subseteq RoundFrames /\ o.frame \in RoundFrames
    BY <1>16, <2>1, <2>5 DEF CallFrames, RoundFrames, Frames
  <2>8. AllFrames' \subseteq AllFrames
    BY <2>1, <2>6, <2>7, FramePlaces, FramePlacesNext
  <2>9. OneKeyEach' /\ SpentIsReceived'
    BY <1>n, <2>1, <2>8
  <2>10. SentOnce' /\ CallsAreOwn' /\ NoRelayCopies'
    BY <1>i, <2>1, <2>5, <2>6 DEF SentOnce, CallsAreOwn, NoRelayCopies
  <2>11. CopiesAreOwn'
    <3>1. x.out.done = "Held" \/ IsMessage(x.out.frame)
      BY <1>16, <1>i, <2>5 DEF CopiesAreOwn
    <3>2. \A c \in x.delivery.copies : c.frame = x.out.frame
      BY <2>5, <2>6
    <3>3. QED BY <1>i, <2>1, <2>5, <3>1, <3>2 DEF CopiesAreOwn
  <2>12. \A id \in Ids : Settled(id) => Settled(id)'
    <3>1. \A id \in Ids : TakenOut(id) => a'.hist[id].kind \in {"deleted", "gone"}
      BY <2>1 DEF TakenOut
    <3>2. QED BY <1>s, <2>1, <2>6, <3>1
  <2>13. PostedIsSettled'
    <3>1. o.frame \in Mail' /\ IsMessage(o.frame) => Settled(o.frame.id)'
      BY DEF Settled, Landing, InMail
    <3>2. \A y \in round'.finished : y \in round.finished \/ y = x
      BY <2>5
    <3>3. x.delivery.via = "Relay" /\ IsMessage(x.out.frame)
            => x.out.frame.id \in Ids /\ Settled(x.out.frame.id)'
      BY <2>3, <2>5, <2>6, <3>1
    <3>4. QED BY <1>i, <2>1, <2>12, <3>2, <3>3, PostedStaysSettled
  <2>14. TextIsKept'
    <3>1. Waiting' = Waiting
      BY <2>1 DEF Waiting
    <3>2. Again \subseteq Again'
      BY <2>1, <2>5 DEF Again
    <3>3. QED BY <1>w, <2>1, <2>12, <3>1, <3>2
  <2>15. QED
    BY <2>9, <2>10, <2>11, <2>13, <2>14 DEF CustodyInv
<1>17. ASSUME NEW x \in round.finished, ApplyOutbound(x) PROVE CustodyInv'
  <2> DEFINE f == x.out.frame
  <2>1. /\ UNCHANGED <<planned, outcomes, calls, b, dropped, late, drained, wire, mailbox>>
        /\ round'.todo = round.todo /\ round'.finished = round.finished \ {x}
        /\ a' = IF x.out.done = "Held" THEN ApplyHeld(a, x) ELSE ApplyUnconfirmed(a, x)
    BY <1>17, <1>a DEF ApplyOutbound, receiverVars, netVars, Round
  <2>2. /\ x \in Finished /\ f \in Frame /\ f.id \in Ids
        /\ x.delivery.via \in {"Direct", "Relay", "Failed"}
    BY <1>17, <1>a DEF Round, Finished, Outbound, Frame, Delivery
  <2>3. /\ \A c \in x.delivery.copies : c.frame = f
        /\ x.out.done = "Held" \/ IsMessage(f)
        /\ Relays = {} => x.delivery.via # "Relay" /\ x.delivery.copies = {}
        /\ x.delivery.via = "Relay" /\ IsMessage(f) => Settled(f.id)
    BY <1>17, <1>i DEF CopiesAreOwn, NoRelayCopies, PostedIsSettled
  <2>h. ASSUME x.out.done = "Held"
        PROVE  /\ \A id \in Ids : a'.hist[id].kind = a.hist[id].kind
               /\ a'.pending_sends = a.pending_sends /\ a'.seal = a.seal
               /\ \A g \in Frames(a.held) : \/ g \in Frames(a'.held)
                                            \/ g = f /\ x.delivery.via # "Failed"
               /\ NodeFrames(a') \subseteq NodeFrames(a)
               /\ \A o \in a'.outbox : o \in a.outbox \/ o.done = "Held"
               /\ \A id \in Ids : a'.hist[id].text = a.hist[id].text
               /\ a.outbox \subseteq a'.outbox
               /\ a.awaiting_receipt \subseteq a'.awaiting_receipt
               /\ \A id \in Ids : \A c \in a'.relay_receipts[id] :
                    c \in a.relay_receipts[id] \/ (id = f.id /\ c \in x.delivery.copies)
               /\ \A id \in Ids : a.hist[id].delivery = "sent" =>
                    \/ a'.hist[id].delivery = "sent"
                    \/ id = f.id /\ f.kind = "Message" /\ x.delivery.via = "Relay"
               /\ f \in Frames(a.held) /\ f.kind = "Message" /\ x.delivery.via = "Direct"
                    /\ Present(a.hist[f.id])
                      => a'.hist[f.id].delivery = "sent" /\ f.id \in a'.awaiting_receipt
    <3>1. a' = ApplyHeld(a, x)
      BY <2>1, <2>h
    <3>2. /\ \A id \in Ids : a'.hist[id].kind = a.hist[id].kind
          /\ a'.pending_sends = a.pending_sends /\ a'.seal = a.seal
          /\ \A g \in Frames(a.held) : \/ g \in Frames(a'.held)
                                       \/ g = f /\ x.delivery.via # "Failed"
          /\ NodeFrames(a') \subseteq NodeFrames(a)
          /\ \A o \in a'.outbox : o \in a.outbox \/ o.done = "Held"
      BY <1>a, <2>2, <3>1, HeldFollows
    <3>3. /\ \A id \in Ids : a'.hist[id].text = a.hist[id].text
          /\ a.outbox \subseteq a'.outbox
          /\ a.awaiting_receipt \subseteq a'.awaiting_receipt
          /\ \A id \in Ids : \A c \in a'.relay_receipts[id] :
               c \in a.relay_receipts[id] \/ (id = f.id /\ c \in x.delivery.copies)
          /\ \A id \in Ids : a.hist[id].delivery = "sent" =>
               \/ a'.hist[id].delivery = "sent"
               \/ id = f.id /\ f.kind = "Message" /\ x.delivery.via = "Relay"
          /\ f \in Frames(a.held) /\ f.kind = "Message" /\ x.delivery.via = "Direct"
               /\ Present(a.hist[f.id])
                 => a'.hist[f.id].delivery = "sent" /\ f.id \in a'.awaiting_receipt
      BY <1>a, <2>2, <3>1, HeldExtends
    <3>4. QED BY <3>2, <3>3
  <2>u. ASSUME x.out.done # "Held"
        PROVE  /\ \A id \in Ids : a'.hist[id].kind = a.hist[id].kind
               /\ a'.pending_sends = a.pending_sends /\ a'.seal = a.seal
               /\ a'.held = a.held /\ a'.outbox = a.outbox
               /\ \A id \in Ids : a'.hist[id].text = a.hist[id].text
               /\ a.awaiting_receipt \subseteq a'.awaiting_receipt
               /\ \A id \in Ids : id # f.id => a'.relay_receipts[id] = a.relay_receipts[id]
               /\ \A c \in a'.relay_receipts[f.id] :
                    \/ c \in a.relay_receipts[f.id]
                    \/ x.delivery.via = "Relay" /\ (c \in x.delivery.copies \/ c.frame = f)
               /\ x.delivery.via # "Relay" => a'.hist = a.hist /\ f.id \in a'.awaiting_receipt
               /\ \A id \in Ids : id # f.id => a'.hist[id] = a.hist[id]
    <3>1. a' = ApplyUnconfirmed(a, x)
      BY <2>1, <2>u
    <3>2. /\ \A id \in Ids : a'.hist[id].kind = a.hist[id].kind
          /\ a'.pending_sends = a.pending_sends /\ a'.seal = a.seal
          /\ a'.held = a.held /\ a'.outbox = a.outbox
      BY <1>a, <2>2, <3>1, UnconfirmedFollows
    <3>3. /\ \A id \in Ids : a'.hist[id].text = a.hist[id].text
          /\ a.awaiting_receipt \subseteq a'.awaiting_receipt
          /\ \A id \in Ids : id # f.id => a'.relay_receipts[id] = a.relay_receipts[id]
          /\ \A c \in a'.relay_receipts[f.id] :
               \/ c \in a.relay_receipts[f.id]
               \/ x.delivery.via = "Relay" /\ (c \in x.delivery.copies \/ c.frame = f)
          /\ x.delivery.via # "Relay" => a'.hist = a.hist /\ f.id \in a'.awaiting_receipt
          /\ \A id \in Ids : id # f.id => a'.hist[id] = a.hist[id]
      BY <1>a, <2>2, <3>1, UnconfirmedExtends
    <3>4. QED BY <3>2, <3>3
  <2> HIDE DEF f
  <2>4. /\ \A id \in Ids : a'.hist[id].kind = a.hist[id].kind /\ a'.hist[id].text = a.hist[id].text
        /\ a'.pending_sends = a.pending_sends /\ a'.seal = a.seal
        /\ NodeFrames(a') \subseteq NodeFrames(a) /\ a.outbox \subseteq a'.outbox
        /\ \A o \in a'.outbox : o \in a.outbox \/ o.done = "Held"
        /\ a.awaiting_receipt \subseteq a'.awaiting_receipt
    <3>1. CASE x.out.done = "Held"
      BY <2>h, <3>1
    <3>2. CASE x.out.done # "Held"
      BY <2>u, <3>2 DEF NodeFrames
    <3>3. QED BY <3>1, <3>2
  <2>5. \A id \in Ids : \A c \in a'.relay_receipts[id] :
          \/ c \in a.relay_receipts[id]
          \/ c.frame.id = id /\ Relays # {}
    <3>1. CASE x.out.done = "Held"
      BY <2>h, <2>3, <3>1
    <3>2. CASE x.out.done # "Held"
      BY <2>u, <2>3, <3>2
    <3>3. QED BY <3>1, <3>2
  <2>6. InTransit' = InTransit /\ CallFrames' = CallFrames /\ RoundFrames' \subseteq RoundFrames /\ Mail' = Mail
    BY <2>1, TransitStays, MailStays DEF CallFrames, RoundFrames
  <2>7. AllFrames' \subseteq AllFrames
    BY <2>1, <2>4, <2>6, FramePlaces, FramePlacesNext
  <2>8. OneKeyEach' /\ SpentIsReceived'
    BY <1>n, <2>1, <2>4, <2>7
  <2>9. SentOnce' /\ CallsAreOwn'
    <3>1. \A g \in a.pending_sends : g.id \in Ids
      BY <1>p DEF Frame
    <3>2. QED BY <1>i, <1>k, <2>1, <2>4, <3>1 DEF SentOnce, CallsAreOwn
  <2>10. CopiesAreOwn'
    <3>1. \A id \in Ids : \A c \in a'.relay_receipts[id] : c.frame.id = id
      BY <1>i, <2>5 DEF CopiesAreOwn
    <3>2. QED BY <1>i, <2>1, <2>4, <3>1 DEF CopiesAreOwn
  <2>11. NoRelayCopies'
    <3>1. Relays = {} => \A id \in Ids : a'.relay_receipts[id] = {}
      BY <1>i, <2>5 DEF NoRelayCopies
    <3>2. QED BY <1>i, <2>1, <3>1 DEF NoRelayCopies
  <2>12. \A id \in Ids : Settled(id) => Settled(id)'
    <3>1. \A id \in Ids : TakenOut(id) => a'.hist[id].kind \in {"deleted", "gone"}
      BY <2>4 DEF TakenOut
    <3>2. QED BY <1>s, <2>1, <2>6, <3>1
  <2>13. PostedIsSettled'
    BY <1>i, <2>1, <2>12, PostedStaysSettled
  <2>14. TextIsKept'
    <3>w. Waiting' = Waiting
      BY <2>1, <2>4 DEF Waiting
    <3>r. ASSUME a'.hist[f.id].kind = "text", IsMessage(f), x.delivery.via = "Relay" PROVE Kept(f.id)'
      <4>1. Settled(f.id)'
        BY <2>2, <2>3, <2>12, <3>r
      <4>2. QED BY <3>r, <4>1 DEF Settled, TakenOut, Kept
    <3>a. \A o \in Again : o \in Again' \/ o = x.out
      BY <2>1, <2>4 DEF Again
    <3>1. \A id \in Ids : Mine(id, Waiting) => Kept(id)'
      BY <3>w DEF Kept
    <3>2. ASSUME NEW id \in Ids, a.hist[id].kind = "text", a'.hist[id].kind = "text", Mine(id, Frames(a.held))
          PROVE  Kept(id)'
      <4>1. PICK g \in Frames(a.held) : g.kind = "Message" /\ g.id = id
        BY <3>2 DEF Mine
      <4>2. CASE g \in Frames(a'.held)
        BY <4>1, <4>2 DEF Kept, Mine
      <4>3. CASE x.out.done # "Held"
        BY <2>u, <4>1, <4>3 DEF Kept, Mine
      <4>4. CASE x.out.done = "Held" /\ g = f /\ x.delivery.via = "Direct"
        <5>1. Present(a.hist[f.id])
          BY <3>2, <4>1, <4>4 DEF Present
        <5>2. a'.hist[id].delivery = "sent" /\ id \in a'.awaiting_receipt
          BY <2>h, <4>1, <4>4, <5>1
        <5>3. QED BY <5>2 DEF Kept, Watched
      <4>5. CASE g = f /\ x.delivery.via = "Relay"
        BY <3>2, <3>r, <4>1, <4>5 DEF IsMessage
      <4>6. x.out.done = "Held" => g \in Frames(a'.held) \/ (g = f /\ x.delivery.via # "Failed")
        BY <2>h
      <4>7. QED BY <2>2, <4>2, <4>3, <4>4, <4>5, <4>6
    <3>3. ASSUME NEW id \in Ids, a.hist[id].kind = "text", a'.hist[id].kind = "text", Watched(id)
          PROVE  Kept(id)'
      <4>1. CASE IsMessage(f) /\ id = f.id /\ x.delivery.via = "Relay"
        BY <3>3, <3>r, <4>1
      <4>2. ASSUME ~(IsMessage(f) /\ id = f.id /\ x.delivery.via = "Relay")
            PROVE  a'.hist[id].delivery = "sent"
        <5>1. CASE x.out.done = "Held"
          BY <2>h, <3>3, <4>2, <5>1 DEF Watched, IsMessage
        <5>2. CASE x.out.done # "Held"
          BY <2>3, <2>u, <3>3, <4>2, <5>2 DEF Watched
        <5>3. QED BY <5>1, <5>2
      <4>3. ASSUME ~(IsMessage(f) /\ id = f.id /\ x.delivery.via = "Relay"), Resending(Again, id)
            PROVE  id \in a'.awaiting_receipt \/ Resending(Again', id)
        <5>1. PICK o \in Again : o.done = "Unconfirmed" /\ o.frame.kind = "Message" /\ o.frame.id = id
          BY <4>3 DEF Resending
        <5>2. CASE o \in Again'
          BY <5>1, <5>2 DEF Resending
        <5>3. CASE o = x.out
          <6>1. x.out.done # "Held" /\ IsMessage(f) /\ f.id = id
            BY <5>1, <5>3 DEF IsMessage, f
          <6>2. QED BY <2>u, <4>3, <6>1
        <5>4. QED BY <3>a, <5>2, <5>3
      <4>4. QED BY <2>4, <3>3, <4>1, <4>2, <4>3 DEF Kept, Watched
    <3>4. QED BY <1>i, <1>e, <2>4, <2>12, <3>1, <3>2, <3>3, TextStaysKept
  <2>15. QED
    BY <2>8, <2>9, <2>10, <2>11, <2>13, <2>14 DEF CustodyInv
<1>18. ASSUME NEW f \in wire, Pump(f) PROVE CustodyInv'
  <2>1. f \in InTransit /\ InTransit' \subseteq InTransit
    BY <1>18, <1>t, TakenIn
  <2>2. Processes(f) /\ UNCHANGED senderVars /\ UNCHANGED <<drained, mailbox>>
    BY <1>18 DEF Pump
  <2>3. Mail' = Mail
    BY <2>2, MailStays
  <2>4. QED BY <2>1, <2>2, <2>3, CustodyReceiver
<1>19. ASSUME UNCHANGED <<senderVars, b, dropped, late, drained, mailbox>>, InTransit' \subseteq InTransit PROVE CustodyInv'
  BY <1>19, MailStays, CustodyQuiet
<1>20. ASSUME NEW r \in Relays, TakeMailbox(r) PROVE CustodyInv'
  <2>1. InTransit' = InTransit /\ Mail' = Mail
    BY <1>20, <1>t, TakenIn, MailTaken
  <2>2. UNCHANGED <<senderVars, b, dropped, late>>
    BY <1>20 DEF TakeMailbox
  <2>3. QED BY <2>1, <2>2, CustodyQuiet
<1>21. CASE ApplyHarvest
  <2>1. /\ Head(drained) \in InTransit /\ InTransit' \subseteq InTransit
        /\ \A g \in Mail : g = Head(drained) \/ g \in Mail'
    BY <1>21, <1>t, TakenIn, MailTaken
  <2>2. Processes(Head(drained)) /\ UNCHANGED senderVars
    BY <1>21 DEF ApplyHarvest
  <2>3. PICK f \in InTransit : f = Head(drained)
    BY <2>1
  <2>4. QED BY <2>1, <2>2, <2>3, CustodyReceiver
<1>22. CASE SendReceipts
  <2>1. UNCHANGED <<senderVars, b, dropped, late, drained, mailbox, wire>>
    BY <1>22 DEF SendReceipts
  <2>2. QED BY <1>19, <2>1, TransitStays
<1>23. ASSUME NEW id \in acks, LoseReceipt(id) PROVE CustodyInv'
  <2>1. UNCHANGED <<senderVars, b, dropped, late, drained, mailbox, wire>>
    BY <1>23 DEF LoseReceipt, receiverVars
  <2>2. QED BY <1>19, <2>1, TransitStays
\* A frame lost on a connection was never counted on: its message is watched.
<1>24. ASSUME NEW f \in wire, LoseFrame(f) PROVE CustodyInv'
  <2>1. UNCHANGED <<senderVars, b, dropped, late, drained, mailbox>> /\ wire' = wire \ {f}
    BY <1>24 DEF LoseFrame, receiverVars
  <2>2. InTransit' \subseteq InTransit
    BY <2>1 DEF InTransit
  <2>3. QED BY <1>19, <2>1, <2>2
<1>28. CASE ClockStep
  <2>1. UNCHANGED <<senderVars, b, dropped, late, drained, mailbox, wire>>
    BY <1>28 DEF ClockStep, AllowanceFills, DayTurns, WindowPasses, netVars
  <2>2. QED BY <1>19, <2>1, TransitStays
\* The failures that lose mail or a node do not happen.
<1>25. ASSUME (\E r \in Relays : LoseTake(r)) \/ SenderRestarts \/ ReceiverRestarts PROVE FALSE
  BY <1>25 DEF LoseTake, SenderRestarts, ReceiverRestarts, Pay, MailSafe
<1>26. CASE UNCHANGED vars
  <2>1. UNCHANGED <<senderVars, b, dropped, late, drained, mailbox, wire>>
    BY <1>26 DEF vars, receiverVars, netVars
  <2>2. QED BY <1>19, <2>1, TransitStays
<1>27. QED
  <2>1. UserStep => CustodyInv'
    BY <1>1, <1>3, <1>4 DEF UserStep
  <2>2. CallStep => CustodyInv'
    BY <1>5, <1>8, <1>9, <1>10, <1>11 DEF CallStep
  <2>3. PollerStep => CustodyInv'
    <3>1. \A direct \in SUBSET acks : \A relayed \in SUBSET (acks \ direct) :
            relayed \in SUBSET acks
      OBVIOUS
    <3>2. \A direct \in SUBSET acks : \A relayed :
            \A timed \in SUBSET (a.awaiting_receipt \ (direct \cup relayed)) : timed \in SUBSET Ids
      BY <1>a, NodeParts
    <3>3. TickStep => CustodyInv'
      BY <1>14, <3>1, <3>2 DEF TickStep
    <3>4. QED BY <1>12, <1>13, <1>15, <1>16, <1>17, <3>3 DEF PollerStep
  <2>4. ReceiverStep => CustodyInv'
    BY <1>18, <1>20, <1>21, <1>22 DEF ReceiverStep
  <2>5. Failure => CustodyInv'
    BY <1>23, <1>24, <1>25 DEF Failure
  <2>6. QED
    BY <1>26, <1>28, <2>1, <2>2, <2>3, <2>4, <2>5 DEF Next

\* It holds at the start, where nothing is composed.
LEMMA CustodyInit == Init => CustodyInv
<1> SUFFICES ASSUME Init PROVE CustodyInv
  OBVIOUS
<1>1. /\ a.pending_sends = {} /\ a.held = {} /\ a.outbox = {} /\ a.seal = 0
      /\ a.relay_receipts = [id \in Ids |-> {}] /\ a.hist = [id \in Ids |-> NotComposed]
      /\ planned = {} /\ outcomes = {} /\ round.todo = {} /\ round.finished = {} /\ calls = {}
      /\ wire = {} /\ drained = <<>> /\ b.spent = {} /\ mailbox = [r \in Relays |-> <<>>]
  BY DEF Init, NoRound
<1>2. AllFrames = {}
  <2>1. FramesOf(<<>>) = {}
    BY DEF FramesOf
  <2>2. InTransit = {}
    BY <1>1, <2>1 DEF InTransit
  <2>3. QED BY <1>1, <2>2, FramePlaces DEF NodeFrames, Frames, RoundFrames, CallFrames
<1>3. OneKeyEach /\ SpentIsReceived
  BY <1>1, <1>2 DEF OneKeyEach, SpentIsReceived
<1>4. SentOnce /\ CopiesAreOwn /\ CallsAreOwn /\ NoRelayCopies /\ PostedIsSettled
  BY <1>1 DEF SentOnce, OnePerMessage, CopiesAreOwn, CallsAreOwn, NoRelayCopies, PostedIsSettled
<1>5. TextIsKept
  <2>1. NotComposed.kind = "none"
    BY DEF NotComposed
  <2>2. \A id \in Ids : a.hist[id] = NotComposed
    BY <1>1
  <2>3. QED BY ONLY <2>1, <2>2 DEF TextIsKept
<1>6. QED BY <1>3, <1>4, <1>5 DEF CustodyInv

\* A message in the sender's history that has not arrived is on its way, at
\* work or on the clock: nothing mislays it between the queues and the threads.
THEOREM NothingAbandoned == MailSafe => (Spec => []NeverAbandoned)
<1> SUFFICES ASSUME MailSafe PROVE Spec => []NeverAbandoned
  OBVIOUS
<1>1. CustodyInv => NeverAbandoned
  <2> SUFFICES ASSUME CustodyInv, NEW id \in Ids, a.hist[id].kind = "text" PROVE InCustody(id)
    BY DEF NeverAbandoned
  <2>1. Kept(id)
    BY DEF CustodyInv, TextIsKept
  <2>2. CASE Landing(id)
    <3>1. Known(id) => InCustody(id)
      BY DEF Known, Received, InCustody
    <3>2. InMail(id) => InCustody(id)
      BY MailIsThere DEF InMail, IsMessage, InCustody, Mine
    <3>3. InCall(id) => InCustody(id)
      BY DEF InCall, InCustody
    <3>4. QED BY <2>2, <3>1, <3>2, <3>3 DEF Landing
  <2>3. ASSUME NEW S, S \subseteq AtWork, Mine(id, S) PROVE InCustody(id)
    BY <2>3 DEF InCustody, Mine
  <2>4. Waiting \subseteq AtWork /\ Frames(a.held) \subseteq AtWork
    BY DEF Waiting, AtWork
  <2>5. CASE Watched(id)
    <3>1. ASSUME NEW o \in Again PROVE o.frame \in AtWork
      BY DEF Again, AtWork, Frames
    <3>2. Resending(Again, id) => Mine(id, AtWork)
      BY <3>1 DEF Resending, Mine
    <3>3. QED BY <2>5, <3>2 DEF Watched, InCustody
  <2>6. QED BY <2>1, <2>2, <2>3, <2>4, <2>5 DEF Kept
<1>2. Init => CustodyInv /\ DurableInv /\ TypeInv
  BY CustodyInit, DurableInit, TypeInit
<1>3. CustodyInv /\ DurableInv /\ TypeInv /\ [Next]_vars => (CustodyInv /\ DurableInv /\ TypeInv)'
  BY CustodyStep, DurableStep, TypeStep
<1>4. QED
  BY <1>1, <1>2, <1>3, PTL DEF Spec
===============================================================================
