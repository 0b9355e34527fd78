----------------------------- MODULE RecallProofs -----------------------------
(***************************************************************************)
(* What a message taken back comes to in Delivery: the recall names every  *)
(* copy there is, so the receiver never shows the text, for every set of   *)
(* messages and relays and every bound on failures, texts, seals and calls.*)
(***************************************************************************)
EXTENDS DeliveryProofs

-----------------------------------------------------------------------------
(* What was taken back is never shown *)

\* A relay's answer is not lost once it stored a copy, and the sender's app does
\* not die: a kill between a post and the save of its receipts forgets copies.
RecallSafe == Faults \cap {"postreply", "sender"} = {}

IsOf(id, f) == IsMessage(f) /\ f.id = id
IsEdit(id, f) == f.kind = "Edit" /\ f.id = id

\* A grip on a message: a place of the sender's side from which its one frame
\* is still to go out, or that names every copy of it that went out.
Grip(at, frames, copies, by) == [at |-> at, frames |-> frames, copies |-> copies, by |-> by]
Idle(at, S) == {Grip(at, {f}, {}, {}) : f \in S}
FramesIn(copies) == {c.frame : c \in copies}
Recallable(copies) == \A c \in copies : c.relay # Handed
HeldOf(id, outs) == {o \in outs : o.done = "Held" /\ IsOf(id, o.frame)}
Going(at, outs) == {Grip(at, {o.frame}, {}, {o}) : o \in outs}
IdleOf(id, held) == {h \in held : IsOf(id, h.frame) /\ ~h.in_flight}
ReceiptGrips(copies) ==
    IF copies # {} /\ Recallable(copies) THEN {Grip("receipts", FramesIn(copies), copies, {})} ELSE {}
NodeGrips(id, n) ==
    Idle("pending", {f \in n.pending_sends : IsOf(id, f)}) \cup Idle("held", Frames(IdleOf(id, n.held)))
        \cup Going("outbox", HeldOf(id, n.outbox)) \cup ReceiptGrips(n.relay_receipts[id])
PlannedGrips(id, S) == Idle("planned", {f \in S : IsOf(id, f)})
OutcomeGrips(id, outs) ==
    {Grip("outcome", {o.frame}, o.copies, {}) : o \in {p \in outs : IsOf(id, p.frame) /\ ~p.delivered}}
FinishedOf(id, finished) ==
    {x \in finished : x.out.done = "Held" /\ IsOf(id, x.out.frame) /\ x.delivery.via # "Direct"}
FinishedGrips(id, finished) ==
    {Grip("finished", {x.out.frame}, x.delivery.copies, {x}) : x \in FinishedOf(id, finished)}
RoundGrips(id, r) == Going("todo", HeldOf(id, r.todo)) \cup FinishedGrips(id, r.finished)
Recalls(id, k) ==
    k.id = id /\ k.phase = "recall" /\ k.recalled = "yes" /\ Recallable(k.copies)
Reposts(id, k) == k.id = id /\ \E o \in k.out : o.done = "CallerRecords"
CallGrips(id, C) ==
    {Grip("recall", FramesIn(k.copies), k.copies, {k}) : k \in {j \in C : Recalls(id, j)}}
        \cup {Grip("repost", Frames(k.out), k.delivery.copies, {k}) : k \in {j \in C : Reposts(id, j)}}
GripsOn(id) ==
    NodeGrips(id, a) \cup PlannedGrips(id, planned) \cup OutcomeGrips(id, outcomes)
        \cup RoundGrips(id, round) \cup CallGrips(id, calls)
Single(G) == \A g, h \in G : g = h
From(H, G) == \A h \in H : \E g \in G : h.frames = g.frames /\ h.copies = g.copies

\* A message out of the sender's hands: handed over directly, or sealed again.
Loose(id) ==
    \/ id \in a.awaiting_receipt
    \/ \E f \in wire : IsOf(id, f)
    \/ \E o \in outcomes : o.delivered /\ IsOf(id, o.frame)
    \/ \E o \in Again : o.done = "Unconfirmed" /\ IsOf(id, o.frame)
    \/ \E x \in round.finished :
         x.out.done = "Held" /\ IsOf(id, x.out.frame) /\ x.delivery.via = "Direct"
Unseen(id) == /\ ~Received(b, id) /\ ~Received(bDisk, id)
              /\ \A f \in FramesOf(drained) : ~IsOf(id, f)

\* What a grip is worth: every frame of the message is the grip's, one lies
\* only where a copy names it, and while no copy was taken the receiver has
\* not seen the message.
Sole(id, g) == \A f \in AllFrames : IsOf(id, f) => f \in g.frames
WellMade(id, g) ==
    /\ \A f \in g.frames : IsOf(id, f)
    /\ \A e, f \in g.frames : e = f
    /\ \A c \in g.copies : c.relay \in Relays /\ c.frame \in g.frames
Named(id, g) ==
    \A r \in Relays : \A f \in FramesOf(mailbox[r]) : IsOf(id, f) => \E c \in g.copies : c.relay = r
Intact(g) == \A c \in g.copies : c.frame \in FramesOf(mailbox[c.relay])
Tied(id, n, g) ==
    \A h \in n.held : IsOf(id, h.frame) /\ h.in_flight => g.at \in {"outbox", "todo", "finished"}
Firm(id, g) ==
    /\ Sole(id, g) /\ WellMade(id, g) /\ Named(id, g) /\ (Intact(g) => Unseen(id))
    /\ ~Loose(id) /\ Tied(id, a, g)
Once(id, q) == \A i, j \in DOMAIN q : IsOf(id, q[i]) /\ IsOf(id, q[j]) => i = j
HeldOnce(id, n) == \A g, h \in n.held : IsOf(id, g.frame) /\ IsOf(id, h.frame) => g = h

\* A message not composed yet, or gone, is nowhere.
Absent(id) == GripsOn(id) = {} /\ Unseen(id) /\ \A f \in AllFrames : ~IsOf(id, f)
GripOK(id) ==
    /\ HeldOnce(id, a)
    /\ Single(GripsOn(id)) /\ \A g \in GripsOn(id) : Firm(id, g)
    /\ GripsOn(id) # {} => \A r \in Relays : Once(id, mailbox[r])
    /\ a.hist[id].kind \in {"none", "gone"} => Absent(id)
NotYet(id) ==
    a.hist[id].kind = "none" =>
        id \notin a.awaiting_receipt /\ (\A f \in AllFrames : f.id # id) /\ \A k \in calls : k.id # id

\* What the queues and the calls hold.
CopiesOf(d, f) == (\A c \in d.copies : c.frame = f) /\ (d.via # "Relay" => d.copies = {})
Queued(o) == o.done = "Held" \/ (o.done = "Unconfirmed" /\ IsMessage(o.frame))
QueuesAreOwn ==
    /\ \A f \in a.pending_sends \cup planned : IsMessage(f)
    /\ \A o \in outcomes : IsMessage(o.frame) /\ \A c \in o.copies : c.frame = o.frame
    /\ \A o \in a.outbox \cup round.todo : Queued(o)
    /\ \A x \in round.finished : Queued(x.out) /\ CopiesOf(x.delivery, x.out.frame)
    /\ \A id \in Ids : \A c \in a.relay_receipts[id] : IsOf(id, c.frame)
CallIsOwn(k) ==
    /\ \A o \in k.out :
         /\ o.frame.id = k.id /\ CopiesOf(k.delivery, o.frame)
         /\ \/ o.done = "Caller" /\ ~IsMessage(o.frame)
            \/ o.done = "CallerRecords" /\ IsMessage(o.frame)
                 /\ o.route = "RelayOnly" /\ k.delivery.via # "Direct"
    /\ \A o, p \in k.out : o = p
    /\ k.phase \in {"recall", "finish"} => k.out = {}
    /\ k.phase \in {"send", "apply"} => k.copies = {}
    /\ k.phase # "apply" => k.delivery = NotSent
    /\ k.phase = "finish" => k.recalled # "yes"
    /\ \A c \in k.copies : IsOf(k.id, c.frame)
GripInv ==
    /\ QueuesAreOwn /\ \A k \in calls : CallIsOwn(k)
    /\ \A id \in Ids : GripOK(id) /\ NotYet(id)

\* The texts: an edit's text is in one frame, or in one call that has not sealed
\* it yet, and none is newer than the message's.
Editing(k) == k.op = "edit" /\ k.phase \in {"recall", "finish"}
Current(id, t) == t # Blank /\ (a.hist[id].kind = "text" => t <= a.hist[id].text)
Used(id, t) ==
    \/ \E e \in AllFrames : IsEdit(id, e) /\ e.text = t
    \/ \E k \in calls : Editing(k) /\ k.id = id /\ k.text = t
GripTexts(id) ==
    GripsOn(id) # {} =>
        \A f \in AllFrames : IsOf(id, f) => Current(id, f.text) /\ ~Used(id, f.text)
EditTexts(id) ==
    /\ \A e \in AllFrames : IsEdit(id, e) => Current(id, e.text)
    /\ \A k \in calls : Editing(k) /\ k.id = id =>
         /\ Current(id, k.text)
         /\ \A e \in AllFrames : IsEdit(id, e) => e.text # k.text
         /\ \A j \in calls : Editing(j) /\ j.id = id /\ j.text = k.text => j = k
NotShownNow(n, id, t) == ~(n.inbox[id].kind = "text" /\ n.inbox[id].text = t)
RetiredOK(id, t) ==
    /\ \A f \in AllFrames : IsOf(id, f) => f.text # t
    /\ NotShownNow(b, id, t) /\ NotShownNow(bDisk, id, t)
    /\ a.hist[id].kind # "none"
    /\ a.hist[id].kind # "gone" => Current(id, t) /\ t # a.hist[id].text /\ ~Used(id, t)
RetiredTexts(id) == \A t \in Texts : <<id, t>> \in retired => RetiredOK(id, t)
TextsOK(id) == GripTexts(id) /\ EditTexts(id) /\ RetiredTexts(id)

\* The inductive invariant behind RetiredNeverShown: while a copy of a message
\* can still be taken back, the sender has one grip on it (GripInv), and what
\* it takes back is a text no frame and no edit under way carries.
RecallInv ==
    GripInv /\ \A id \in Ids : TextsOK(id)

\* A node and the grips X elsewhere on a message: one grip in all, and no held
\* frame of it counts as on its way unless the grip does.
AtHome(id, n, X) ==
    /\ HeldOnce(id, n) /\ Single(NodeGrips(id, n) \cup X)
    /\ \A g \in NodeGrips(id, n) \cup X : Tied(id, n, g)
    /\ \A g \in X : g.at \notin {"pending", "held", "outbox", "receipts"}

\* A grip that moved leaves none behind.
LEMMA GripMoves ==
    ASSUME NEW G, NEW H, NEW g \in G, NEW h, Single(G), \A x \in H : x = h \/ (x \in G /\ x # g)
    PROVE  (\A x \in H : x = h) /\ Single(H)
BY DEF Single

\* Nothing new in the node's queues.
LEMMA HomeStays ==
    ASSUME NEW id, NEW n, NEW m, NEW X, NEW Y, Y \subseteq X, AtHome(id, n, X),
           NodeGrips(id, m) \subseteq NodeGrips(id, n) \cup X,
           \A h \in m.held : IsOf(id, h.frame) => h \in n.held
    PROVE  AtHome(id, m, Y) /\ From(NodeGrips(id, m) \cup Y, NodeGrips(id, n) \cup X)
<1>1. HeldOnce(id, m)
  BY DEF AtHome, HeldOnce
<1>2. Single(NodeGrips(id, m) \cup Y)
  BY DEF AtHome, Single
<1>3. \A g \in NodeGrips(id, m) \cup Y : Tied(id, m, g)
  BY DEF AtHome, Tied
<1>4. QED
  BY <1>1, <1>2, <1>3 DEF AtHome, From

\* flush_held_for: a held frame that goes out is gripped by the outbox instead.
LEMMA FlushHome ==
    ASSUME NEW n, NodeOK(n), NEW d, NEW r, NEW id, NEW X, AtHome(id, n, X)
    PROVE  LET m == FlushHeld(n, d, r)
           IN  /\ AtHome(id, m, X)
               /\ From(NodeGrips(id, m) \cup X, NodeGrips(id, n) \cup X)
               /\ m.awaiting_receipt = n.awaiting_receipt /\ m.hist = n.hist
<1> DEFINE idle == {h \in n.held : ~h.in_flight}
           go == IF HasRelayRoute THEN idle ELSE IF r THEN Oldest(n.held) \cap idle ELSE {}
           route == IF HasRelayRoute /\ ~d THEN "RelayOnly" ELSE "DirectThenRelay"
           up(h) == [h EXCEPT !.in_flight = TRUE]
           put(h) == [frame |-> h.frame, route |-> route, done |-> "Held"]
           held == (n.held \ go) \cup {up(h) : h \in go}
           out == n.outbox \cup {put(h) : h \in go}
           m == [n EXCEPT !.held = held, !.outbox = out]
<1>1. FlushHeld(n, d, r) = m
  BY DEF FlushHeld
<1>2. go \in SUBSET n.held /\ (\A h \in n.held : h \in HeldSend) /\ \A h \in go : ~h.in_flight
  BY NodeParts
<1>3. \A h \in go : up(h).frame = h.frame /\ up(h).in_flight
  BY <1>2 DEF HeldSend
<1>4. \A h \in go : put(h).frame = h.frame /\ put(h).done = "Held"
  OBVIOUS
<1>5. /\ \A h \in held : (h \in n.held /\ h \notin go) \/ \E g \in go : h = up(g)
      /\ \A o \in out : o \in n.outbox \/ \E g \in go : o = put(g)
  OBVIOUS
<1>v. n.outbox \subseteq out
  OBVIOUS
<1> HIDE DEF go, route, up, put, held, out
<1>6. /\ m.hist = n.hist /\ m.pending_sends = n.pending_sends /\ m.held = held /\ m.outbox = out
      /\ m.awaiting_receipt = n.awaiting_receipt /\ m.relay_receipts = n.relay_receipts
  BY NodeParts
<1> HIDE DEF m
<1>7. HeldOnce(id, m)
  <2> SUFFICES ASSUME NEW g \in held, NEW h \in held, IsOf(id, g.frame), IsOf(id, h.frame)
               PROVE  g = h
    BY <1>6 DEF HeldOnce
  <2>1. \A x \in held : \E y \in n.held : /\ y.frame = x.frame
                                          /\ IF y \in go THEN x = up(y) ELSE x = y
    BY <1>2, <1>3, <1>5
  <2>2. PICK y \in n.held : y.frame = g.frame /\ IF y \in go THEN g = up(y) ELSE g = y
    BY <2>1
  <2>3. PICK z \in n.held : z.frame = h.frame /\ IF z \in go THEN h = up(z) ELSE h = z
    BY <2>1
  <2>4. y = z
    BY <2>2, <2>3 DEF AtHome, HeldOnce
  <2>5. QED BY <2>2, <2>3, <2>4
<1>8. CASE \A h \in go : ~IsOf(id, h.frame)
  <2>1. \A h \in m.held : IsOf(id, h.frame) => h \in n.held
    BY <1>3, <1>5, <1>6, <1>8
  <2>2. IdleOf(id, m.held) \subseteq IdleOf(id, n.held)
    BY <2>1 DEF IdleOf
  <2>3. HeldOf(id, m.outbox) \subseteq HeldOf(id, n.outbox)
    BY <1>4, <1>5, <1>6, <1>8 DEF HeldOf
  <2>4. NodeGrips(id, m) \subseteq NodeGrips(id, n)
    BY <1>6, <2>2, <2>3 DEF NodeGrips, Idle, Going, Frames
  <2>5. QED BY <1>1, <1>6, <2>1, <2>4, HomeStays
<1>9. ASSUME NEW h \in go, IsOf(id, h.frame)
      PROVE  /\ AtHome(id, m, X) /\ From(NodeGrips(id, m) \cup X, NodeGrips(id, n) \cup X)
  <2> DEFINE g == Grip("held", {h.frame}, {}, {})
             k == Grip("outbox", {h.frame}, {}, {put(h)})
  <2>1. g \in NodeGrips(id, n) \cup X
    BY <1>2, <1>9 DEF NodeGrips, Idle, IdleOf, Frames
  <2>2. \A y \in n.held : IsOf(id, y.frame) => y = h
    BY <1>2, <1>9 DEF AtHome, HeldOnce
  <2>3. IdleOf(id, m.held) = {}
    BY <1>3, <1>5, <1>6, <1>9, <2>2 DEF IdleOf
  <2>4. \A o \in HeldOf(id, m.outbox) : o \in HeldOf(id, n.outbox) \/ o = put(h)
    BY <1>2, <1>4, <1>5, <1>6, <2>2 DEF HeldOf
  <2>5. g.at = "held" /\ k.at = "outbox" /\ k.frames = g.frames /\ k.copies = g.copies
    BY DEF Grip
  <2>6. \A x \in NodeGrips(id, m) : x = k \/ (x \in NodeGrips(id, n) /\ x.at # "held")
    <3>1. \A x \in Idle("pending", {f \in m.pending_sends : IsOf(id, f)}) : x \in NodeGrips(id, n) /\ x.at # "held"
      BY <1>6 DEF NodeGrips, Idle, Grip
    <3>2. \A x \in Idle("held", Frames(IdleOf(id, m.held))) : FALSE
      BY <2>3 DEF Idle, Frames
    <3>3. \A x \in Going("outbox", HeldOf(id, m.outbox)) : x = k \/ (x \in NodeGrips(id, n) /\ x.at # "held")
      BY <1>4, <2>4 DEF NodeGrips, Going, Grip
    <3>4. \A x \in ReceiptGrips(m.relay_receipts[id]) : x \in NodeGrips(id, n) /\ x.at # "held"
      BY <1>6 DEF NodeGrips, ReceiptGrips, Grip
    <3>5. QED BY <3>1, <3>2, <3>3, <3>4 DEF NodeGrips
  <2> HIDE DEF g, k
  <2>7. Single(NodeGrips(id, n) \cup X)
    BY DEF AtHome
  <2>8. \A x \in NodeGrips(id, n) \cup X : x = g
    BY <2>1, <2>7 DEF Single
  <2>9. \A x \in NodeGrips(id, m) : x = k
    BY <2>5, <2>6, <2>8
  <2>10. \A x \in X : FALSE
    BY <2>5, <2>8 DEF AtHome
  <2>11. \A x \in NodeGrips(id, m) \cup X : x = k
    BY <2>9, <2>10
  <2>12. Single(NodeGrips(id, m) \cup X) /\ From(NodeGrips(id, m) \cup X, NodeGrips(id, n) \cup X)
    BY <2>1, <2>5, <2>11 DEF Single, From
  <2>13. \A x \in NodeGrips(id, m) \cup X : Tied(id, m, x)
    BY <2>5, <2>11 DEF Tied
  <2>14. QED
    BY <1>7, <2>10, <2>12, <2>13 DEF AtHome
<1>10. QED BY <1>1, <1>6, <1>8, <1>9

\* What a hold adds: one idle entry for each frame.
LEMMA HoldAdds ==
    ASSUME NEW held, NEW frames
    PROVE  /\ held \subseteq Hold(held, frames)
           /\ \A h \in Hold(held, frames) : h \in held \/ (h.frame \in frames /\ ~h.in_flight)
           /\ \A g, h \in Hold(held, frames) : g \notin held /\ h \notin held /\ g.frame = h.frame => g = h
<1> DEFINE at(f) == Newest(held) + Cardinality({g \in frames : g.seal <= f.seal})
           new(f) == [frame |-> f, in_flight |-> FALSE, at |-> at(f)]
<1>1. Hold(held, frames) = held \cup {new(f) : f \in frames}
  BY DEF Hold
<1>2. \A f \in frames : new(f).frame = f /\ ~new(f).in_flight
  OBVIOUS
<1> HIDE DEF new
<1>3. QED BY <1>1, <1>2

\* A message gripped elsewhere is not in the node's queues.
LEMMA NotAtHome ==
    ASSUME NEW id, NEW n, NEW X, AtHome(id, n, X), NEW g \in X
    PROVE  /\ X = {g} /\ NodeGrips(id, n) = {}
           /\ \A h \in n.held : IsOf(id, h.frame) => h.in_flight /\ g.at \in {"outbox", "todo", "finished"}
<1>1. \A h \in NodeGrips(id, n) : h.at \in {"pending", "held", "outbox", "receipts"}
  BY DEF NodeGrips, Idle, Going, ReceiptGrips, Grip
<1>2. X = {g}
  BY DEF AtHome, Single
<1>3. NodeGrips(id, n) = {}
  BY <1>1 DEF AtHome, Single
<1>4. \A h \in n.held : IsOf(id, h.frame) => h.in_flight
  <2>1. \A h \in IdleOf(id, n.held) : Grip("held", {h.frame}, {}, {}) \in NodeGrips(id, n)
    BY DEF NodeGrips, Idle, Frames
  <2>2. QED BY <1>3, <2>1 DEF IdleOf
<1>5. QED
  BY <1>2, <1>3, <1>4 DEF AtHome, Tied

\* A frame gripped elsewhere is held.
LEMMA HoldHome ==
    ASSUME NEW id, NEW n, NEW m, NEW X, NEW Y, Y \subseteq X, AtHome(id, n, X),
           NEW g \in X, g \notin Y, NEW f, IsOf(id, f), g.frames = {f}, g.copies = {},
           g.at \notin {"outbox", "todo", "finished"},
           NEW S, f \in S, \A e \in S : IsOf(id, e) => e = f, m.held = Hold(n.held, S),
           m.pending_sends = n.pending_sends, m.outbox = n.outbox,
           m.relay_receipts[id] = n.relay_receipts[id]
    PROVE  AtHome(id, m, Y) /\ From(NodeGrips(id, m) \cup Y, NodeGrips(id, n) \cup X)
<1> DEFINE k == Grip("held", {f}, {}, {})
<1>1. NodeGrips(id, n) = {} /\ Y = {} /\ \A h \in n.held : ~IsOf(id, h.frame)
  BY NotAtHome
<1>2. \A h \in m.held : IsOf(id, h.frame) => h \notin n.held /\ h.frame = f /\ ~h.in_flight
  BY <1>1, HoldAdds
<1>3. HeldOnce(id, m)
  BY <1>2, HoldAdds DEF HeldOnce
<1>4. k.frames = g.frames /\ k.copies = g.copies
  BY DEF Grip
<1>5. \A x \in NodeGrips(id, m) : x = k
  <2>1. \A h \in IdleOf(id, m.held) : h.frame = f
    BY <1>2 DEF IdleOf
  <2>2. QED BY <1>1, <2>1 DEF NodeGrips, Idle, Frames
<1> HIDE DEF k
<1>6. QED
  BY <1>1, <1>2, <1>3, <1>4, <1>5 DEF AtHome, Single, From, Tied

\* The copies of a frame gripped elsewhere are put on record.
LEMMA LandHome ==
    ASSUME NEW id, NEW n, NEW m, NEW X, NEW Y, Y \subseteq X, AtHome(id, n, X),
           NEW g \in X, g \notin Y, NEW f, g.frames = {f}, \A c \in g.copies : c.frame = f,
           \A h \in m.held : IsOf(id, h.frame) => h \in n.held /\ ~h.in_flight,
           m.pending_sends = n.pending_sends, m.outbox = n.outbox,
           m.relay_receipts[id] = g.copies
    PROVE  AtHome(id, m, Y) /\ From(NodeGrips(id, m) \cup Y, NodeGrips(id, n) \cup X)
<1> DEFINE k == Grip("receipts", FramesIn(g.copies), g.copies, {})
<1>1. NodeGrips(id, n) = {} /\ Y = {} /\ \A h \in m.held : ~IsOf(id, h.frame)
  BY NotAtHome
<1>2. \A x \in NodeGrips(id, m) : x = k /\ g.copies # {}
  BY <1>1 DEF NodeGrips, Idle, Frames, IdleOf, ReceiptGrips
<1>3. g.copies # {} => k.frames = g.frames /\ k.copies = g.copies
  BY DEF Grip, FramesIn
<1> HIDE DEF k
<1>4. \A x \in NodeGrips(id, m) : x = k /\ k.frames = g.frames /\ k.copies = g.copies
  BY <1>2, <1>3
<1>5. From(NodeGrips(id, m) \cup Y, NodeGrips(id, n) \cup X)
  BY <1>1, <1>4 DEF From
<1>6. HeldOnce(id, m) /\ (\A x \in NodeGrips(id, m) \cup Y : Tied(id, m, x)) /\ \A x \in Y : FALSE
  BY <1>1 DEF HeldOnce, Tied
<1>7. Single(NodeGrips(id, m) \cup Y)
  BY <1>1, <1>4 DEF Single
<1>8. QED
  BY <1>5, <1>6, <1>7 DEF AtHome

\* Receipts move no grip.
LEMMA ReceiptedHome ==
    ASSUME NEW n, NodeOK(n), NEW ids, NEW d, NEW id, NEW X, AtHome(id, n, X)
    PROVE  LET m == Receipted(n, ids, d)
           IN  /\ AtHome(id, m, X)
               /\ From(NodeGrips(id, m) \cup X, NodeGrips(id, n) \cup X)
               /\ m.awaiting_receipt \subseteq n.awaiting_receipt
               /\ \A o \in m.outbox : o \in n.outbox \/ o.done = "Held"
<1> DEFINE h == [i \in Ids |-> IF i \in ids /\ Present(n.hist[i])
                                THEN [n.hist[i] EXCEPT !.delivery = "delivered"]
                                ELSE n.hist[i]]
           w == n.awaiting_receipt \ ids
           m == [n EXCEPT !.hist = h, !.awaiting_receipt = w]
           Keeps(p) == /\ AtHome(id, p, X)
                      /\ From(NodeGrips(id, p) \cup X, NodeGrips(id, n) \cup X)
                      /\ p.awaiting_receipt \subseteq n.awaiting_receipt
                      /\ \A o \in p.outbox : o \in n.outbox \/ o.done = "Held"
<1>1. h \in [Ids -> Sent]
  BY SetBadge, NodeParts DEF Badges
<1>2. Receipted(n, ids, d) = IF d /\ ids # {} THEN FlushHeld(m, TRUE, TRUE) ELSE m
  BY DEF Receipted
<1>3. w \in SUBSET Ids /\ w \subseteq n.awaiting_receipt
  BY NodeParts
<1> HIDE DEF h, w
<1>4. NodeOK(m)
  BY <1>1, <1>3 DEF NodeOK, Node
<1>5. /\ m.pending_sends = n.pending_sends /\ m.held = n.held /\ m.outbox = n.outbox
      /\ m.awaiting_receipt = w /\ m.relay_receipts = n.relay_receipts
  BY NodeParts
<1> HIDE DEF m
<1>6. Keeps(m)
  <2>1. NodeGrips(id, m) = NodeGrips(id, n)
    BY <1>5 DEF NodeGrips
  <2>2. QED BY <1>3, <1>5, <2>1, HomeStays
<1>7. Keeps(FlushHeld(m, TRUE, TRUE))
  <2> DEFINE p == FlushHeld(m, TRUE, TRUE)
  <2>1. \A x, y : LET q == FlushHeld(m, x, y)
                  IN  /\ AtHome(id, q, X)
                      /\ From(NodeGrips(id, q) \cup X, NodeGrips(id, m) \cup X)
                      /\ q.awaiting_receipt = m.awaiting_receipt
                      /\ \A o \in q.outbox : o \in m.outbox \/ o.done = "Held"
    BY <1>4, <1>6, FlushHome, FlushQueuesHeld
  <2>2. /\ AtHome(id, p, X)
        /\ From(NodeGrips(id, p) \cup X, NodeGrips(id, m) \cup X)
        /\ p.awaiting_receipt = m.awaiting_receipt
        /\ \A o \in p.outbox : o \in m.outbox \/ o.done = "Held"
    BY <2>1
  <2> HIDE DEF p
  <2>3. From(NodeGrips(id, p) \cup X, NodeGrips(id, n) \cup X)
    BY <1>6, <2>2 DEF From
  <2>4. QED BY <1>5, <1>6, <2>2, <2>3 DEF p
<1>8. QED
  BY <1>2, <1>6, <1>7

\* apply_send_outcomes: the copies of a send are put on record, a frame that
\* did not go out is held.
LEMMA OutcomesHome ==
    ASSUME NEW n, NodeOK(n), NEW outs \in SUBSET Outcome, NEW id \in Ids, NEW X,
           AtHome(id, n, X \cup OutcomeGrips(id, outs)), \A g \in X : g.at # "outcome",
           \A o \in outs : IsMessage(o.frame) /\ \A c \in o.copies : c.frame = o.frame,
           OutcomeGrips(id, outs) # {} => \A o \in outs : IsOf(id, o.frame) => ~o.delivered
    PROVE  LET m == ApplySendOutcomes(n, outs)
           IN  /\ AtHome(id, m, X)
               /\ From(NodeGrips(id, m) \cup X, NodeGrips(id, n) \cup (X \cup OutcomeGrips(id, outs)))
               /\ \A i \in m.awaiting_receipt :
                    i \in n.awaiting_receipt \/ \E o \in outs : o.delivered /\ o.frame.id = i
               /\ m.outbox = n.outbox
<1> DEFINE Of(i) == {o \in outs : o.frame.id = i}
           failed == {o \in outs : ~o.delivered /\ o.copies = {}}
           badge(o) == IF o.delivered THEN "sent"
                       ELSE IF o \in failed /\ ~HasRelayRoute THEN "waiting" ELSE "queued"
           h == [i \in Ids |-> IF Of(i) # {} /\ Present(n.hist[i])
                                THEN [n.hist[i] EXCEPT !.delivery =
                                        badge(CHOOSE o \in Of(i) : TRUE)]
                                ELSE n.hist[i]]
           r == [i \in Ids |-> IF \E o \in Of(i) : ~o.delivered /\ o.copies # {}
                                THEN UNION {o.copies : o \in Of(i)} ELSE n.relay_receipts[i]]
           w == n.awaiting_receipt \cup {o.frame.id : o \in {p \in outs : p.delivered}}
           S == {o.frame : o \in failed}
           q == Hold(n.held, S)
           m == ApplySendOutcomes(n, outs)
           O == OutcomeGrips(id, outs)
           Z == X \cup O
<1>1. m = [n EXCEPT !.hist = h, !.relay_receipts = r, !.awaiting_receipt = w, !.held = q]
  BY DEF ApplySendOutcomes
<1>2. \A i \in w : i \in n.awaiting_receipt \/ \E o \in outs : o.delivered /\ o.frame.id = i
  OBVIOUS
<1>3. \A o \in outs : o.frame.id = id <=> IsOf(id, o.frame)
  BY DEF IsOf
<1>4. \A o \in outs : IsOf(id, o.frame) /\ ~o.delivered =>
        /\ Grip("outcome", {o.frame}, o.copies, {}) \in O
        /\ Grip("outcome", {o.frame}, o.copies, {}).frames = {o.frame}
        /\ Grip("outcome", {o.frame}, o.copies, {}).copies = o.copies
        /\ Grip("outcome", {o.frame}, o.copies, {}).at = "outcome"
  BY DEF OutcomeGrips, Grip
<1>5. r[id] = IF \E o \in Of(id) : ~o.delivered /\ o.copies # {}
              THEN UNION {o.copies : o \in Of(id)} ELSE n.relay_receipts[id]
  OBVIOUS
<1> HIDE DEF h, r, w
<1>h. \A k \in q : k \in n.held \/ (k.frame \in S /\ ~k.in_flight)
  <2> HIDE DEF S
  <2>1. QED BY HoldAdds
<1>6. /\ m.pending_sends = n.pending_sends /\ m.held = q /\ m.outbox = n.outbox
      /\ m.awaiting_receipt = w /\ m.relay_receipts = r
  <2> HIDE DEF m, q
  <2>1. QED BY <1>1, NodeParts
<1> HIDE DEF m, O
<1>7. CASE \A o \in outs : IsOf(id, o.frame) => o.delivered
  <2>1. O = {} /\ r[id] = n.relay_receipts[id]
    BY <1>3, <1>5, <1>7 DEF O, OutcomeGrips
  <2>2. \A f \in S : ~IsOf(id, f)
    BY <1>7
  <2>3. \A g \in m.held : IsOf(id, g.frame) => g \in n.held
    BY <1>6, <1>h, <2>2
  <2>4. IdleOf(id, m.held) \subseteq IdleOf(id, n.held)
    BY <2>3 DEF IdleOf
  <2>5. NodeGrips(id, m) \subseteq NodeGrips(id, n) \cup Z
    BY <1>6, <2>1, <2>4 DEF NodeGrips, Idle, Frames
  <2>6. X \subseteq Z
    OBVIOUS
  <2> HIDE DEF Z
  <2>7. AtHome(id, n, Z)
    BY DEF Z, O
  <2>8. AtHome(id, m, X) /\ From(NodeGrips(id, m) \cup X, NodeGrips(id, n) \cup Z)
    BY <2>3, <2>5, <2>6, <2>7, HomeStays
  <2>9. QED BY <1>2, <1>6, <2>8 DEF m, O, Z
<1>8. ASSUME NEW o \in outs, IsOf(id, o.frame), ~o.delivered
      PROVE  AtHome(id, m, X) /\ From(NodeGrips(id, m) \cup X, NodeGrips(id, n) \cup Z)
  <2> DEFINE g == Grip("outcome", {o.frame}, o.copies, {})
  <2>1. g \in Z /\ g.frames = {o.frame} /\ g.copies = o.copies /\ g.at = "outcome"
    BY <1>4, <1>8
  <2>2. \A p \in outs : IsOf(id, p.frame) => ~p.delivered
    BY <1>8, <2>1 DEF O, OutcomeGrips
  <2>3. AtHome(id, n, Z) /\ X \subseteq Z
    BY DEF O
  <2>4. \A p \in outs : IsOf(id, p.frame) => p.frame = o.frame /\ p.copies = o.copies
    <3>1. ASSUME NEW p \in outs, IsOf(id, p.frame) PROVE p.frame = o.frame /\ p.copies = o.copies
      <4> DEFINE k == Grip("outcome", {p.frame}, p.copies, {})
      <4>1. k \in Z /\ k.frames = {p.frame} /\ k.copies = p.copies
        BY <1>4, <2>2, <3>1
      <4> HIDE DEF k, g, Z
      <4>2. k = g
        BY <2>1, <2>3, <4>1 DEF AtHome, Single
      <4>3. QED BY <2>1, <4>1, <4>2
    <3>2. QED BY <3>1
  <2>5. g \notin X /\ g.at \notin {"outbox", "todo", "finished"}
    BY <2>1
  <2>6. \A e \in S : IsOf(id, e) => e = o.frame
    BY <2>4
  <2>7. CASE o.copies = {}
    <3>1. o.frame \in S
      BY <1>8, <2>7
    <3>2. r[id] = n.relay_receipts[id]
      BY <1>3, <1>5, <2>4, <2>7
    <3> HIDE DEF g, Z, S
    <3>3. m.held = Hold(n.held, S) /\ m.relay_receipts[id] = n.relay_receipts[id]
      BY <1>6, <3>2
    <3>4. /\ AtHome(id, n, Z) /\ X \subseteq Z /\ g \in Z /\ g \notin X /\ g.frames = {o.frame}
          /\ g.copies = {} /\ g.at \notin {"outbox", "todo", "finished"} /\ o.frame \in S
          /\ IsOf(id, o.frame) /\ (\A e \in S : IsOf(id, e) => e = o.frame)
          /\ m.pending_sends = n.pending_sends /\ m.outbox = n.outbox
      BY <1>6, <1>8, <2>1, <2>3, <2>5, <2>6, <2>7, <3>1
    <3>5. QED BY ONLY <3>3, <3>4, HoldHome
  <2>8. CASE o.copies # {}
    <3>1. \A e \in S : ~IsOf(id, e)
      BY <2>4, <2>8
    <3>2. r[id] = o.copies
      <4>1. o \in Of(id)
        BY <1>3, <1>8
      <4>2. \A p \in Of(id) : p.copies = o.copies
        BY <1>3, <2>4
      <4>3. UNION {p.copies : p \in Of(id)} = o.copies
        BY <4>1, <4>2
      <4>4. QED BY <1>5, <1>8, <2>8, <4>1, <4>3
    <3>3. \A c \in g.copies : c.frame = o.frame
      BY <2>1
    <3> HIDE DEF g, Z
    <3>4. \A k \in m.held : IsOf(id, k.frame) => k \in n.held
      BY <1>6, <1>h, <3>1
    <3>5. \A k \in m.held : IsOf(id, k.frame) => k \in n.held /\ ~k.in_flight
      BY <2>1, <2>3, <2>5, <3>4, NotAtHome
    <3>6. /\ AtHome(id, n, Z) /\ X \subseteq Z /\ g \in Z /\ g \notin X /\ g.frames = {o.frame}
          /\ m.pending_sends = n.pending_sends /\ m.outbox = n.outbox /\ m.relay_receipts[id] = g.copies
      BY <1>6, <2>1, <2>3, <2>5, <3>2
    <3>7. QED BY ONLY <3>3, <3>5, <3>6, LandHome
  <2>9. QED BY <2>7, <2>8
<1>9. QED BY <1>2, <1>6, <1>7, <1>8 DEF m, O, Z

\* What the sweep queues is a message again, with the text it has.
Resealed(n, ids, o) ==
    /\ o.done = "Unconfirmed" /\ IsMessage(o.frame) /\ o.frame.id \in ids
    /\ Present(n.hist[o.frame.id]) /\ o.frame.text = n.hist[o.frame.id].text

\* The sweep moves no grip.
LEMMA SweepHome ==
    ASSUME NEW n, NodeOK(n), NEW ids
    PROVE  LET m == SweepUnconfirmed(n, ids)
           IN  /\ \A id \in Ids : \A X : AtHome(id, n, X) =>
                    AtHome(id, m, X) /\ From(NodeGrips(id, m) \cup X, NodeGrips(id, n) \cup X)
               /\ m.awaiting_receipt \subseteq n.awaiting_receipt
               /\ \A o \in m.outbox : o \in n.outbox \/ Resealed(n, ids, o)
               /\ m.pending_sends = n.pending_sends /\ m.held = n.held
<1> DEFINE again == Unconfirmed(n, ids)
           seal(id) == n.seal + Cardinality({j \in again : j <= id})
           route == IF HasRelayRoute THEN "RelayOnly" ELSE "DirectThenRelay"
           item(id) == [frame |-> Message(id, n.hist[id].text, seal(id)),
                                  route |-> route, done |-> "Unconfirmed"]
           out == n.outbox \cup {item(id) : id \in again}
           top == n.seal + Cardinality(again)
           w == n.awaiting_receipt \ ids
           m == SweepUnconfirmed(n, ids)
<1>1. m = [n EXCEPT !.awaiting_receipt = w, !.seal = top, !.outbox = out]
  BY DEF SweepUnconfirmed
<1>2. \A id \in again : Resealed(n, ids, item(id))
  <2> HIDE DEF seal, route
  <2>1. \A id \in again : id \in ids /\ Present(n.hist[id])
    BY DEF Unconfirmed
  <2> HIDE DEF again
  <2>2. QED BY <2>1 DEF Resealed, Message, IsMessage
<1>3. w \subseteq n.awaiting_receipt
  OBVIOUS
<1> HIDE DEF item, again
<1>4. \A o \in out : o \in n.outbox \/ Resealed(n, ids, o)
  BY <1>2
<1>o. n.outbox \subseteq out
  OBVIOUS
<1> HIDE DEF out, top, w
<1>5. /\ m.pending_sends = n.pending_sends /\ m.held = n.held
      /\ m.outbox = out /\ m.awaiting_receipt = w
      /\ m.relay_receipts = n.relay_receipts
  <2> HIDE DEF m
  <2>1. QED BY <1>1, NodeParts
<1> HIDE DEF m
<1>6. ASSUME NEW id \in Ids, NEW X, AtHome(id, n, X)
      PROVE  AtHome(id, m, X) /\ From(NodeGrips(id, m) \cup X, NodeGrips(id, n) \cup X)
  <2>1. HeldOf(id, m.outbox) = HeldOf(id, n.outbox)
    BY <1>4, <1>5, <1>o DEF HeldOf, Resealed
  <2>2. NodeGrips(id, m) = NodeGrips(id, n)
    BY <1>5, <2>1 DEF NodeGrips
  <2>3. QED BY <1>5, <1>6, <2>2, HomeStays
<1>7. QED BY <1>3, <1>4, <1>5, <1>6 DEF m

\* Grips that come from grips that come from others come from those.
LEMMA FromTwice ==
    ASSUME NEW G, NEW H, NEW K, From(H, G), From(K, H) PROVE From(K, G)
BY DEF From

\* The tick: what it does to the grips and the clocks, and the frames it makes.
LEMMA TickHome ==
    ASSUME TypeInv, QueuesAreOwn, NEW direct, NEW relayed, NEW due, NEW timed \in SUBSET Ids,
           NEW may_retry, NEW id \in Ids, NEW X,
           AtHome(id, a, X \cup OutcomeGrips(id, outcomes)), \A g \in X : g.at # "outcome",
           OutcomeGrips(id, outcomes) # {} => \A o \in outcomes : IsOf(id, o.frame) => ~o.delivered
    PROVE  LET m == TickNode(direct, relayed, due, timed, may_retry)
           IN  /\ AtHome(id, m, X)
               /\ From(NodeGrips(id, m) \cup X, NodeGrips(id, a) \cup (X \cup OutcomeGrips(id, outcomes)))
               /\ \A i \in m.awaiting_receipt :
                    i \in a.awaiting_receipt \/ \E o \in outcomes : o.delivered /\ o.frame.id = i
               /\ \A o \in m.outbox : o \in a.outbox \/ o.done = "Held" \/ Resealed(a, timed, o)
<1> DEFINE pumped == Receipted(a, direct, TRUE)
           harvested == Receipted(pumped, relayed, FALSE)
           applied == ApplySendOutcomes(harvested, outcomes)
           flushed == FlushHeld(applied, FALSE, may_retry)
           swept == SweepUnconfirmed(flushed, timed)
           O == OutcomeGrips(id, outcomes)
           Z == X \cup O
           G == NodeGrips(id, a) \cup Z
           Waits(m) == \A i \in m.awaiting_receipt :
                          i \in a.awaiting_receipt \/ \E o \in outcomes : o.delivered /\ o.frame.id = i
           Queues(m) == \A o \in m.outbox : o \in a.outbox \/ o.done = "Held" \/ Resealed(a, timed, o)
           Goal(m) == AtHome(id, m, X) /\ From(NodeGrips(id, m) \cup X, G) /\ Waits(m) /\ Queues(m)
<1>1. TickNode(direct, relayed, due, timed, may_retry) = IF due THEN swept ELSE applied
  BY DEF TickNode
<1>2. NodeOK(a) /\ outcomes \in SUBSET Outcome /\ IsFiniteSet(outcomes)
      /\ (\A o \in outcomes : IsMessage(o.frame) /\ \A c \in o.copies : c.frame = o.frame)
      /\ AtHome(id, a, Z)
  BY DEF TypeInv, TypeOK, Finite, NodeOK, QueuesAreOwn
<1> HIDE DEF Z
<1>3. /\ NodeOK(pumped) /\ AtHome(id, pumped, Z) /\ Extends(a, pumped)
      /\ From(NodeGrips(id, pumped) \cup Z, G)
      /\ pumped.awaiting_receipt \subseteq a.awaiting_receipt
      /\ \A o \in pumped.outbox : o \in a.outbox \/ o.done = "Held"
  <2>1. \A x, y : LET m == Receipted(a, x, y)
                  IN  /\ NodeOK(m) /\ AtHome(id, m, Z) /\ Extends(a, m)
                      /\ From(NodeGrips(id, m) \cup Z, NodeGrips(id, a) \cup Z)
                      /\ m.awaiting_receipt \subseteq a.awaiting_receipt
                      /\ \A o \in m.outbox : o \in a.outbox \/ o.done = "Held"
    BY <1>2, ReceiptedTyped, ReceiptedHome, ReceiptedExtends
  <2>2. QED BY <2>1
<1> HIDE DEF pumped
<1>4. /\ NodeOK(harvested) /\ AtHome(id, harvested, Z) /\ Extends(pumped, harvested)
      /\ From(NodeGrips(id, harvested) \cup Z, NodeGrips(id, pumped) \cup Z)
      /\ harvested.awaiting_receipt \subseteq pumped.awaiting_receipt
      /\ \A o \in harvested.outbox : o \in pumped.outbox \/ o.done = "Held"
  <2>1. \A x, y : LET m == Receipted(pumped, x, y)
                  IN  /\ NodeOK(m) /\ AtHome(id, m, Z) /\ Extends(pumped, m)
                      /\ From(NodeGrips(id, m) \cup Z, NodeGrips(id, pumped) \cup Z)
                      /\ m.awaiting_receipt \subseteq pumped.awaiting_receipt
                      /\ \A o \in m.outbox : o \in pumped.outbox \/ o.done = "Held"
    BY <1>3, ReceiptedTyped, ReceiptedHome, ReceiptedExtends
  <2>2. QED BY <2>1
<1> HIDE DEF harvested, G
<1>5. /\ NodeOK(applied) /\ AtHome(id, applied, X) /\ Extends(harvested, applied)
      /\ From(NodeGrips(id, applied) \cup X, NodeGrips(id, harvested) \cup Z)
      /\ \A i \in applied.awaiting_receipt :
           i \in harvested.awaiting_receipt \/ \E o \in outcomes : o.delivered /\ o.frame.id = i
      /\ applied.outbox = harvested.outbox
  <2>1. AtHome(id, harvested, X \cup OutcomeGrips(id, outcomes))
    BY <1>4 DEF Z, O
  <2>2. /\ AtHome(id, applied, X)
        /\ From(NodeGrips(id, applied) \cup X,
                NodeGrips(id, harvested) \cup (X \cup OutcomeGrips(id, outcomes)))
        /\ \A i \in applied.awaiting_receipt :
             i \in harvested.awaiting_receipt \/ \E o \in outcomes : o.delivered /\ o.frame.id = i
        /\ applied.outbox = harvested.outbox
    BY <1>2, <1>4, <2>1, OutcomesHome
  <2>3. NodeOK(applied) /\ Extends(harvested, applied)
    BY <1>2, <1>4, OutcomesTyped, OutcomesExtend
  <2>4. QED BY <2>2, <2>3 DEF Z, O
<1> HIDE DEF applied
<1>6. Goal(applied)
  <2>1. From(NodeGrips(id, applied) \cup X, G)
    BY <1>3, <1>4, <1>5, FromTwice
  <2>2. QED BY <1>3, <1>4, <1>5, <2>1
<1>7. Extends(a, applied)
  BY <1>3, <1>4, <1>5, ExtendsTwice
<1>8. /\ NodeOK(flushed) /\ AtHome(id, flushed, X) /\ Extends(applied, flushed)
      /\ From(NodeGrips(id, flushed) \cup X, NodeGrips(id, applied) \cup X)
      /\ flushed.awaiting_receipt = applied.awaiting_receipt
      /\ \A o \in flushed.outbox : o \in applied.outbox \/ o.done = "Held"
  <2>1. \A x, y : LET m == FlushHeld(applied, x, y)
                  IN  /\ AtHome(id, m, X) /\ From(NodeGrips(id, m) \cup X, NodeGrips(id, applied) \cup X)
                      /\ m.awaiting_receipt = applied.awaiting_receipt
    <3>1. NodeOK(applied) /\ AtHome(id, applied, X)
      BY <1>5
    <3>2. QED BY ONLY <3>1, FlushHome
  <2>2. \A x, y : LET m == FlushHeld(applied, x, y)
                  IN  /\ NodeOK(m) /\ Extends(applied, m)
                      /\ \A o \in m.outbox : o \in applied.outbox \/ o.done = "Held"
    BY <1>5, FlushTyped, FlushExtends, FlushQueuesHeld
  <2>3. QED BY <2>1, <2>2
<1> HIDE DEF flushed
<1>9. /\ AtHome(id, swept, X) /\ From(NodeGrips(id, swept) \cup X, NodeGrips(id, flushed) \cup X)
      /\ swept.awaiting_receipt \subseteq flushed.awaiting_receipt
      /\ \A o \in swept.outbox : o \in flushed.outbox \/ Resealed(flushed, timed, o)
  <2>1. \A ids : LET m == SweepUnconfirmed(flushed, ids)
                 IN  /\ AtHome(id, m, X) /\ From(NodeGrips(id, m) \cup X, NodeGrips(id, flushed) \cup X)
                     /\ m.awaiting_receipt \subseteq flushed.awaiting_receipt
                     /\ \A o \in m.outbox : o \in flushed.outbox \/ Resealed(flushed, ids, o)
    BY <1>8, SweepHome
  <2>2. QED BY <2>1
<1> HIDE DEF swept
<1>10. \A o : Resealed(flushed, timed, o) => Resealed(a, timed, o)
  <2>1. Extends(a, flushed)
    BY <1>7, <1>8, ExtendsTwice
  <2>2. QED BY <2>1 DEF Extends, Resealed, Present
<1>11. Goal(swept)
  <2>1. From(NodeGrips(id, swept) \cup X, G)
    BY <1>6, <1>8, <1>9, FromTwice
  <2>2. QED BY <1>6, <1>8, <1>9, <1>10, <2>1
<1>12. QED
  BY <1>1, <1>6, <1>11 DEF G, Z, O

\* The frames of a node after a function that seals nothing.
LEMMA NoNewFrames ==
    ASSUME NEW n, NodeOK(n), NEW m, NodeOK(m), NEW outs, Follows(n, m, outs), m.seal = n.seal
    PROVE  NodeFrames(m) \subseteq NodeFrames(n) \cup Frames(outs)
<1>1. \A f \in NodeFrames(m) : f.seal \in Nat
  BY NodeParts, DeliveryAssumption DEF NodeFrames, Frames, HeldSend, Outbound, Frame, Seals
<1>2. n.seal \in Nat
  BY NodeParts, DeliveryAssumption DEF Seals
<1>3. QED
  BY <1>1, <1>2 DEF Follows

\* The frames of the node after the tick.
LEMMA TickBrings ==
    ASSUME TypeInv, NEW direct, NEW relayed, NEW due, NEW timed \in SUBSET Ids, NEW may_retry
    PROVE  \A f \in NodeFrames(TickNode(direct, relayed, due, timed, may_retry)) :
             \/ f \in NodeFrames(a) \cup Frames(outcomes)
             \/ \E o \in TickNode(direct, relayed, due, timed, may_retry).outbox :
                  Resealed(a, timed, o) /\ f = o.frame
<1> DEFINE pumped == Receipted(a, direct, TRUE)
           harvested == Receipted(pumped, relayed, FALSE)
           applied == ApplySendOutcomes(harvested, outcomes)
           flushed == FlushHeld(applied, FALSE, may_retry)
           swept == SweepUnconfirmed(flushed, timed)
           D == Frames(outcomes)
<1>1. TickNode(direct, relayed, due, timed, may_retry) = IF due THEN swept ELSE applied
  BY DEF TickNode
<1>2. NodeOK(a) /\ outcomes \in SUBSET Outcome /\ IsFiniteSet(outcomes)
  BY DEF TypeInv, TypeOK, Finite, NodeOK
<1>3. NodeOK(pumped) /\ Extends(a, pumped) /\ NodeFrames(pumped) \subseteq NodeFrames(a) \cup D
  <2>1. \A x, y : LET m == Receipted(a, x, y)
                  IN  NodeOK(m) /\ Extends(a, m) /\ m.seal = a.seal /\ Follows(a, m, outcomes)
    BY <1>2, ReceiptedTyped, ReceiptedExtends, ReceiptedFollows
  <2>2. \A x, y : NodeFrames(Receipted(a, x, y)) \subseteq NodeFrames(a) \cup D
    BY <1>2, <2>1, NoNewFrames
  <2>3. QED BY <2>1, <2>2
<1> HIDE DEF pumped
<1>4. NodeOK(harvested) /\ Extends(pumped, harvested) /\ NodeFrames(harvested) \subseteq NodeFrames(pumped) \cup D
  <2>1. \A x, y : LET m == Receipted(pumped, x, y)
                  IN  NodeOK(m) /\ Extends(pumped, m) /\ m.seal = pumped.seal /\ Follows(pumped, m, outcomes)
    BY <1>3, ReceiptedTyped, ReceiptedExtends, ReceiptedFollows
  <2>2. \A x, y : NodeFrames(Receipted(pumped, x, y)) \subseteq NodeFrames(pumped) \cup D
    BY <1>3, <2>1, NoNewFrames
  <2>3. QED BY <2>1, <2>2
<1> HIDE DEF harvested
<1>5. NodeOK(applied) /\ Extends(harvested, applied) /\ NodeFrames(applied) \subseteq NodeFrames(harvested) \cup D
  BY <1>2, <1>4, OutcomesTyped, OutcomesExtend, OutcomesFollow, NoNewFrames
<1> HIDE DEF applied
<1>6. NodeOK(flushed) /\ Extends(applied, flushed) /\ NodeFrames(flushed) \subseteq NodeFrames(applied) \cup D
  <2>1. \A x, y : LET m == FlushHeld(applied, x, y)
                  IN  NodeOK(m) /\ Extends(applied, m) /\ m.seal = applied.seal /\ Follows(applied, m, outcomes)
    BY <1>5, FlushTyped, FlushExtends, FlushFollows
  <2>2. \A x, y : NodeFrames(FlushHeld(applied, x, y)) \subseteq NodeFrames(applied) \cup D
    BY <1>5, <2>1, NoNewFrames
  <2>3. QED BY <2>1, <2>2
<1> HIDE DEF flushed
<1>7. \A f \in NodeFrames(swept) : f \in NodeFrames(flushed) \/ \E o \in swept.outbox : Resealed(flushed, timed, o) /\ f = o.frame
  <2>1. /\ \A o \in swept.outbox : o \in flushed.outbox \/ Resealed(flushed, timed, o)
        /\ swept.pending_sends = flushed.pending_sends /\ swept.held = flushed.held
    BY <1>6, SweepHome
  <2> HIDE DEF swept
  <2>2. QED BY <2>1 DEF NodeFrames, Frames
<1> HIDE DEF swept
<1>8. \A o : Resealed(flushed, timed, o) => Resealed(a, timed, o)
  <2>1. Extends(a, flushed)
    BY <1>3, <1>4, <1>5, <1>6, ExtendsTwice
  <2>2. QED BY <2>1 DEF Extends, Resealed, Present
<1>9. QED
  BY <1>1, <1>3, <1>4, <1>5, <1>6, <1>7, <1>8

\* apply_outbound for a held frame: it is idle again, or its copies are on
\* record, or it is out of the sender's hands.
LEMMA HeldHome ==
    ASSUME NEW n, NodeOK(n), NEW x \in Finished, x.out.done = "Held", CopiesOf(x.delivery, x.out.frame),
           NEW id \in Ids, NEW Y, AtHome(id, n, Y \cup FinishedGrips(id, {x})),
           \A g \in Y : g.at = "finished" => g.by # {x}
    PROVE  LET m == ApplyHeld(n, x)
           IN  /\ AtHome(id, m, Y)
               /\ From(NodeGrips(id, m) \cup Y, NodeGrips(id, n) \cup (Y \cup FinishedGrips(id, {x})))
               /\ \A i \in m.awaiting_receipt :
                    \/ i \in n.awaiting_receipt
                    \/ IsOf(i, x.out.frame) /\ x.delivery.via = "Direct"
<1> DEFINE f == x.out.frame
           entry == {h \in n.held : h.frame = f}
           direct == x.delivery.via = "Direct"
           named == f.kind = "Message"
           badge == IF direct THEN "sent" ELSE "queued"
           rest == n.held \ entry
           h2 == [n.hist EXCEPT ![f.id] = IF named /\ Present(@) THEN [@ EXCEPT !.delivery = badge] ELSE @]
           r2 == [n.relay_receipts EXCEPT ![f.id] = IF named /\ ~direct THEN x.delivery.copies ELSE @]
           w2 == IF named /\ direct THEN n.awaiting_receipt \cup {f.id} ELSE n.awaiting_receipt
           landed == [n EXCEPT !.held = rest, !.hist = h2, !.relay_receipts = r2,
                               !.awaiting_receipt = w2]
           idle(h) == [h EXCEPT !.in_flight = FALSE]
           again == rest \cup {idle(h) : h \in entry}
           back == [n EXCEPT !.held = again]
           F == FinishedGrips(id, {x})
           Z == Y \cup F
           Waits(m) == \A i \in m.awaiting_receipt : i \in n.awaiting_receipt \/ (IsOf(i, f) /\ direct)
           Goal(m) == /\ AtHome(id, m, Y) /\ From(NodeGrips(id, m) \cup Y, NodeGrips(id, n) \cup Z)
                      /\ Waits(m)
<1>1. ApplyHeld(n, x) = IF entry = {} THEN n
                        ELSE IF x.delivery.via = "Failed" THEN back
                        ELSE IF direct THEN FlushHeld(landed, TRUE, TRUE) ELSE landed
  BY DEF ApplyHeld, NodeOK, Node
<1>2. f.id \in Ids /\ x.delivery.via \in {"Direct", "Relay", "Failed"} /\ x.delivery.copies \in SUBSET Copy
  BY DEF Finished, Outbound, Delivery, Frame
<1>3. AtHome(id, n, Z) /\ Y \subseteq Z
  OBVIOUS
<1>4. /\ h2 \in [Ids -> Sent] /\ r2 \in [Ids -> SUBSET Copy] /\ w2 \in SUBSET Ids
      /\ rest \in SUBSET HeldSend /\ IsFiniteSet(rest)
  <2>1. rest \in SUBSET HeldSend /\ IsFiniteSet(rest)
    BY NodeParts, FS_Difference
  <2> HIDE DEF f, named, direct, rest
  <2>2. badge \in Badges
    BY DEF Badges
  <2> HIDE DEF badge
  <2>3. \A i \in Ids : [n.hist[i] EXCEPT !.delivery = badge] \in Sent
    BY <2>2, SetBadge, NodeParts
  <2>4. QED BY <1>2, <2>1, <2>3, NodeParts
<1>5. r2[id] = IF id = f.id /\ named /\ ~direct THEN x.delivery.copies ELSE n.relay_receipts[id]
  <2> HIDE DEF f, named, direct
  <2>1. QED BY <1>2, NodeParts
<1>6. \A i \in w2 : i \in n.awaiting_receipt \/ (IsOf(i, f) /\ direct)
  BY DEF IsOf, IsMessage
<1>7. \A h \in n.held : h \in HeldSend
  BY NodeParts
<1>8. \A h \in entry : idle(h).frame = f /\ ~idle(h).in_flight
  BY <1>7 DEF HeldSend
<1>9. /\ \A h \in rest : h \in n.held /\ h.frame # f
      /\ \A h \in again : h \in rest \/ \E e \in entry : h = idle(e)
      /\ \A h \in entry : h \in n.held /\ h.frame = f
  OBVIOUS
<1>10. IsOf(id, f) <=> id = f.id /\ named
  BY DEF IsOf, IsMessage
\* The grip of the entry, if it is this message's.
<1>11. ASSUME IsOf(id, f), ~direct
       PROVE  \E g \in F : /\ g.frames = {f} /\ g.copies = x.delivery.copies /\ g.at = "finished"
                           /\ g.by = {x}
  <2>1. x \in FinishedOf(id, {x})
    BY <1>11 DEF FinishedOf
  <2>2. Grip("finished", {x.out.frame}, x.delivery.copies, {x}) \in F
    BY <2>1 DEF FinishedGrips
  <2>3. QED BY <2>2 DEF Grip
<1>12. \A c \in x.delivery.copies : c.frame = f
  BY DEF CopiesOf
<1>13. x.delivery.via = "Failed" => x.delivery.copies = {}
  BY DEF CopiesOf
<1>14. ASSUME IsOf(id, f), entry # {}
       PROVE  \E e \in entry : entry = {e} /\ \A h \in n.held : IsOf(id, h.frame) => h = e
  <2>1. PICK e \in entry : TRUE
    BY <1>14
  <2>2. \A h \in n.held : IsOf(id, h.frame) => h = e
    BY <1>3, <1>9, <1>14, <2>1 DEF AtHome, HeldOnce
  <2>3. entry = {e}
    BY <1>9, <1>14, <2>1, <2>2
  <2>4. QED BY <2>2, <2>3
<1> HIDE DEF entry, rest, h2, r2, w2, again, idle, F, Z
<1>15. /\ landed.pending_sends = n.pending_sends /\ landed.held = rest /\ landed.outbox = n.outbox
       /\ landed.relay_receipts = r2 /\ landed.awaiting_receipt = w2
  BY NodeParts
<1>16. NodeOK(landed)
  BY <1>4 DEF NodeOK, Node
<1>17. /\ back.pending_sends = n.pending_sends /\ back.held = again /\ back.outbox = n.outbox
       /\ back.relay_receipts = n.relay_receipts /\ back.awaiting_receipt = n.awaiting_receipt
  BY NodeParts
<1> HIDE DEF landed, back
<1>18. Goal(n)
  BY <1>3, HomeStays
<1>19. CASE x.delivery.via = "Failed"
  <2>1. ASSUME ~IsOf(id, f) PROVE Goal(back)
    <3>1. \A h \in back.held : IsOf(id, h.frame) => h \in n.held
      BY <1>8, <1>9, <1>17, <2>1
    <3>2. IdleOf(id, back.held) \subseteq IdleOf(id, n.held)
      BY <3>1 DEF IdleOf
    <3>3. NodeGrips(id, back) \subseteq NodeGrips(id, n) \cup Z
      BY <1>17, <3>2 DEF NodeGrips, Idle, Frames
    <3>4. QED BY <1>3, <1>17, <3>1, <3>3, HomeStays
  <2>2. ASSUME IsOf(id, f), entry # {} PROVE Goal(back)
    <3> DEFINE k == Grip("held", {f}, {}, {})
    <3>1. PICK g \in Z : g.frames = {f} /\ g.copies = {} /\ g.at = "finished" /\ g.by = {x}
      BY <1>11, <1>13, <1>19, <2>2 DEF Z
    <3>2. NodeGrips(id, n) = {} /\ Z = {g}
      BY <1>3, <3>1, NotAtHome
    <3>3. Y = {}
      BY <1>3, <3>1, <3>2
    <3>4. PICK e \in entry : entry = {e} /\ \A h \in n.held : IsOf(id, h.frame) => h = e
      BY <1>14, <2>2
    <3>5. \A h \in back.held : IsOf(id, h.frame) => h = idle(e)
      BY <1>9, <1>17, <3>4
    <3>6. idle(e).frame = f /\ ~idle(e).in_flight
      BY <1>8
    <3>7. \A h \in NodeGrips(id, back) : h = k
      <4>1. \A h \in IdleOf(id, back.held) : h.frame = f
        BY <3>5, <3>6 DEF IdleOf
      <4>2. QED BY <1>17, <3>2, <4>1 DEF NodeGrips, Idle, Frames
    <3>8. k.frames = g.frames /\ k.copies = g.copies
      BY <3>1 DEF Grip
    <3> HIDE DEF k
    <3>9. From(NodeGrips(id, back) \cup Y, NodeGrips(id, n) \cup Z) /\ Single(NodeGrips(id, back) \cup Y)
      BY <3>1, <3>3, <3>7, <3>8 DEF From, Single
    <3>10. HeldOnce(id, back) /\ \A h \in NodeGrips(id, back) \cup Y : Tied(id, back, h)
      BY <3>5, <3>6 DEF HeldOnce, Tied
    <3>11. QED BY <1>17, <3>3, <3>9, <3>10 DEF AtHome
  <2>3. Goal(ApplyHeld(n, x))
    BY <1>1, <1>18, <1>19, <2>1, <2>2
  <2>4. QED BY <2>3 DEF F, Z
<1>20. CASE x.delivery.via # "Failed"
  <2>1. ASSUME ~(IsOf(id, f) /\ ~direct) PROVE Goal(landed)
    <3>1. \A h \in landed.held : h \in n.held
      BY <1>9, <1>15
    <3>2. IdleOf(id, landed.held) \subseteq IdleOf(id, n.held)
      BY <3>1 DEF IdleOf
    <3>3. landed.relay_receipts[id] = n.relay_receipts[id]
      BY <1>5, <1>10, <1>15, <2>1
    <3>4. NodeGrips(id, landed) \subseteq NodeGrips(id, n) \cup Z
      BY <1>15, <3>2, <3>3 DEF NodeGrips, Idle, Frames
    <3>5. QED BY <1>3, <1>6, <1>15, <3>1, <3>4, HomeStays
  <2>2. ASSUME IsOf(id, f), ~direct, entry # {} PROVE Goal(landed)
    <3>1. PICK g \in Z : /\ g.frames = {f} /\ g.copies = x.delivery.copies /\ g.by = {x}
                         /\ g.at = "finished"
      BY <1>11, <2>2 DEF Z
    <3>2. g \notin Y
      BY <3>1
    <3>3. \A h \in landed.held : IsOf(id, h.frame) => h \in n.held /\ ~h.in_flight
      BY <1>9, <1>14, <1>15, <2>2
    <3>4. landed.relay_receipts[id] = g.copies /\ \A c \in g.copies : c.frame = f
      BY <1>5, <1>10, <1>12, <1>15, <2>2, <3>1
    <3>5. landed.pending_sends = n.pending_sends /\ landed.outbox = n.outbox
      BY <1>15
    <3>6. AtHome(id, landed, Y) /\ From(NodeGrips(id, landed) \cup Y, NodeGrips(id, n) \cup Z)
      <4> HIDE DEF f
      <4>1. QED BY ONLY <1>3, <3>1, <3>2, <3>3, <3>4, <3>5, LandHome
    <3>7. QED BY <1>6, <1>15, <3>6
  <2>3. entry # {} => Goal(landed)
    BY <2>1, <2>2
  <2>4. entry # {} => Goal(FlushHeld(landed, TRUE, TRUE))
    <3> SUFFICES ASSUME entry # {} PROVE Goal(FlushHeld(landed, TRUE, TRUE))
      OBVIOUS
    <3>1. AtHome(id, landed, Y) /\ From(NodeGrips(id, landed) \cup Y, NodeGrips(id, n) \cup Z)
          /\ Waits(landed)
      BY <2>3
    <3>2. \A u, v : LET q == FlushHeld(landed, u, v)
                    IN  /\ AtHome(id, q, Y) /\ From(NodeGrips(id, q) \cup Y, NodeGrips(id, landed) \cup Y)
                        /\ q.awaiting_receipt = landed.awaiting_receipt
      BY ONLY <1>16, <3>1, FlushHome
    <3> DEFINE q == FlushHeld(landed, TRUE, TRUE)
    <3>3. /\ AtHome(id, q, Y) /\ From(NodeGrips(id, q) \cup Y, NodeGrips(id, landed) \cup Y)
          /\ q.awaiting_receipt = landed.awaiting_receipt
      BY <3>2
    <3> HIDE DEF q
    <3>4. From(NodeGrips(id, q) \cup Y, NodeGrips(id, n) \cup Z)
      BY <3>1, <3>3, FromTwice
    <3>5. QED BY <3>1, <3>3, <3>4 DEF q
  <2>5. Goal(ApplyHeld(n, x))
    <3> HIDE DEF Goal
    <3>1. QED BY <1>1, <1>18, <1>20, <2>3, <2>4
  <2>6. QED BY <2>5 DEF F, Z
<1>21. QED BY <1>19, <1>20

\* apply_outbound for a relay copy behind an unconfirmed message moves no grip.
LEMMA UnconfirmedHome ==
    ASSUME NEW n, NodeOK(n), NEW x \in Finished, NEW id \in Ids, NEW X, AtHome(id, n, X)
    PROVE  LET m == ApplyUnconfirmed(n, x)
           IN  /\ AtHome(id, m, X) /\ From(NodeGrips(id, m) \cup X, NodeGrips(id, n) \cup X)
               /\ m.awaiting_receipt \subseteq n.awaiting_receipt \cup {x.out.frame.id}
<1> DEFINE i == x.out.frame.id
           marked == x.delivery.copies \cup {[relay |-> Handed, frame |-> x.out.frame]}
           h2 == [n.hist EXCEPT ![i] = IF Present(@) /\ @.delivery = "sent"
                                        THEN [@ EXCEPT !.delivery = "queued"] ELSE @]
           r2 == [n.relay_receipts EXCEPT ![i] = marked]
           w2 == n.awaiting_receipt \cup {i}
           m == ApplyUnconfirmed(n, x)
<1>1. m = IF x.delivery.via = "Relay"
          THEN [n EXCEPT !.relay_receipts = r2, !.hist = h2]
          ELSE [n EXCEPT !.awaiting_receipt = w2]
  BY DEF ApplyUnconfirmed, NodeOK, Node
<1>2. ReceiptGrips(marked) = {}
  <2>1. [relay |-> Handed, frame |-> x.out.frame] \in marked
    OBVIOUS
  <2> HIDE DEF marked
  <2>2. QED BY <2>1 DEF ReceiptGrips, Recallable
<1>3. r2[id] = n.relay_receipts[id] \/ r2[id] = marked
  <2> HIDE DEF i, marked
  <2>1. QED BY NodeParts
<1> HIDE DEF h2, r2, m, marked
<1>4. /\ m.pending_sends = n.pending_sends /\ m.held = n.held /\ m.outbox = n.outbox
      /\ m.awaiting_receipt \subseteq w2
      /\ m.relay_receipts = n.relay_receipts \/ m.relay_receipts = r2
  <2> HIDE DEF w2
  <2>1. n.awaiting_receipt \subseteq w2
    BY DEF w2
  <2>2. CASE x.delivery.via = "Relay"
    BY <1>1, <2>1, <2>2, NodeParts
  <2>3. CASE x.delivery.via # "Relay"
    BY <1>1, <2>3, NodeParts
  <2>4. QED BY <2>2, <2>3
<1>5. NodeGrips(id, m) \subseteq NodeGrips(id, n)
  BY <1>2, <1>3, <1>4 DEF NodeGrips
<1>6. QED
  BY <1>4, <1>5, HomeStays DEF m

-----------------------------------------------------------------------------

\* The grips outside the sender's node, and a step that brings nothing new of
\* a message: no frame, no copy in a mailbox, no way out of the sender's hands;
\* the receiver sees it only by taking a copy out of a mailbox.
Outer(id) ==
    PlannedGrips(id, planned) \cup OutcomeGrips(id, outcomes) \cup RoundGrips(id, round)
        \cup CallGrips(id, calls)
LeftMail(id) ==
    \E r \in Relays : \E f \in FramesOf(mailbox[r]) : IsOf(id, f) /\ f \notin FramesOf(mailbox'[r])
NothingNew(id) ==
    /\ \A f \in AllFrames' : IsOf(id, f) => f \in AllFrames
    /\ \A r \in Relays : \A f \in FramesOf(mailbox'[r]) : IsOf(id, f) => f \in FramesOf(mailbox[r])
    /\ \A r \in Relays : Once(id, mailbox[r]) => Once(id, mailbox'[r])
    /\ Unseen(id) => Unseen(id)' \/ LeftMail(id)
    /\ Loose(id)' => Loose(id)
NoMessage(n, id) == n.hist[id].kind \in {"none", "gone"}

\* A step that puts no new frame of a message under a grip, and what the
\* frames of a step are when it composes and edits nothing.
Regripped(id) ==
    GripsOn(id)' # {} => GripsOn(id) # {} /\ \A f \in AllFrames' : IsOf(id, f) => f \in AllFrames
GripGoes(id) == GripOK(id)' /\ Regripped(id)
SealedAgain(f) == IsMessage(f) /\ Present(a.hist[f.id]) /\ f.text = a.hist[f.id].text
GripsGo ==
    /\ GripInv' /\ \A id \in Ids : Regripped(id)
    /\ \A f \in AllFrames' : f \in AllFrames \/ f.kind = "Unsend" \/ SealedAgain(f)

\* The grips of a message, in and out of the node.
LEMMA GripsSplit ==
    ASSUME NEW id, GripOK(id)
    PROVE  /\ AtHome(id, a, Outer(id))
           /\ GripsOn(id) = NodeGrips(id, a) \cup Outer(id)
           /\ \A g \in GripsOn(id) : Firm(id, g)
<1>1. GripsOn(id) = NodeGrips(id, a) \cup Outer(id)
  BY DEF GripsOn, Outer
<1>2. \A g \in Outer(id) : g.at \notin {"pending", "held", "outbox", "receipts"}
  BY DEF Outer, PlannedGrips, OutcomeGrips, RoundGrips, CallGrips, Idle, Going, FinishedGrips, Grip
<1>3. QED
  BY <1>1, <1>2 DEF AtHome, GripOK, Firm

\* The grips of the state a step leads to.
LEMMA GripsSplitNext ==
    ASSUME NEW id PROVE GripsOn(id)' = NodeGrips(id, a') \cup Outer(id)'
BY DEF GripsOn, Outer

\* A step that only moves the grips of a message and brings nothing new of it.
LEMMA GripKept ==
    ASSUME NEW id, GripOK(id), AtHome(id, a', Outer(id)'), From(GripsOn(id)', GripsOn(id)),
           GripsOn(id)' # {} \/ NoMessage(a', id) => NothingNew(id),
           NoMessage(a', id) => NoMessage(a, id)
    PROVE  GripGoes(id)
<1>1. GripsOn(id)' = NodeGrips(id, a') \cup Outer(id)'
  BY GripsSplitNext
<1>2. HeldOnce(id, a)' /\ Single(GripsOn(id))' /\ \A h \in GripsOn(id)' : Tied(id, a', h)
  BY <1>1 DEF AtHome, HeldOnce, Single
<1>3. ASSUME NEW h \in GripsOn(id)' PROVE Firm(id, h)'
  <2>1. PICK g \in GripsOn(id) : h.frames = g.frames /\ h.copies = g.copies
    BY <1>3 DEF From
  <2>2. Firm(id, g) /\ NothingNew(id)
    BY <1>3, <2>1 DEF GripOK
  <2>3. Sole(id, h)' /\ WellMade(id, h)'
    BY <2>1, <2>2 DEF Firm, NothingNew, Sole, WellMade
  <2>4. Named(id, h)'
    BY <2>1, <2>2 DEF Firm, NothingNew, Named
  <2>5. ~Loose(id)'
    BY <2>2 DEF Firm, NothingNew
  <2>6. Tied(id, a, h)'
    BY <1>2 DEF Tied
  <2>7. Intact(h)' => Unseen(id)'
    <3> SUFFICES ASSUME Intact(h)' PROVE Unseen(id)'
      OBVIOUS
    <3>1. \A c \in g.copies : /\ c.relay \in Relays /\ IsOf(id, c.frame)
                              /\ c.frame \in FramesOf(mailbox'[c.relay])
      BY <2>1, <2>2 DEF Intact, Firm, WellMade
    <3>2. Intact(g)
      BY <2>2, <3>1 DEF Intact, NothingNew
    <3>3. Unseen(id)
      BY <2>2, <3>2 DEF Firm
    <3>4. ~LeftMail(id)
      <4> SUFFICES ASSUME NEW r \in Relays, NEW f \in FramesOf(mailbox[r]), IsOf(id, f),
                          f \notin FramesOf(mailbox'[r])
                   PROVE  FALSE
        BY DEF LeftMail
      <4>1. PICK c \in g.copies : c.relay = r
        BY <2>2 DEF Firm, Named
      <4>2. f \in AllFrames
        BY DEF AllFrames, InTransit
      <4>3. c.frame = f
        BY <2>2, <4>2 DEF Firm, Sole, WellMade
      <4>4. QED BY <3>1, <4>1, <4>3
    <3>5. QED BY <2>2, <3>3, <3>4 DEF NothingNew
  <2>8. QED
    BY <2>3, <2>4, <2>5, <2>6, <2>7 DEF Firm
<1>4. GripsOn(id)' # {} => \A r \in Relays : Once(id, mailbox'[r])
  BY DEF From, GripOK, NothingNew
<1>5. NoMessage(a', id) => Absent(id)'
  <2> SUFFICES ASSUME NoMessage(a', id) PROVE Absent(id)'
    OBVIOUS
  <2>1. Absent(id) /\ NothingNew(id)
    BY DEF GripOK, NoMessage
  <2>2. GripsOn(id)' = {}
    BY <2>1 DEF From, Absent
  <2>3. ~LeftMail(id)
    <3>1. \A r \in Relays : \A f \in FramesOf(mailbox[r]) : f \in AllFrames
      BY DEF AllFrames, InTransit
    <3>2. QED BY <2>1, <3>1 DEF LeftMail, Absent
  <2>4. QED
    BY <2>1, <2>2, <2>3 DEF Absent, NothingNew
<1>6. Regripped(id)
  BY DEF Regripped, From, NothingNew
<1>7. QED
  BY <1>2, <1>3, <1>4, <1>5, <1>6 DEF GripGoes, GripOK, NoMessage, Once

\* A step that makes a message out of nothing: one new frame, one grip on it.
LEMMA GripMade ==
    ASSUME NEW id, NEW f, IsOf(id, f), AtHome(id, a', Outer(id)'), ~NoMessage(a', id),
           \A h \in GripsOn(id)' : h.frames = {f} /\ h.copies = {},
           \A e \in AllFrames' : IsOf(id, e) => e = f,
           \A e \in InTransit : ~IsOf(id, e), Unseen(id), ~Loose(id)',
           UNCHANGED <<wire, mailbox, drained, b, bDisk>>
    PROVE  GripOK(id)'
<1>1. GripsOn(id)' = NodeGrips(id, a') \cup Outer(id)'
  BY GripsSplitNext
<1>2. HeldOnce(id, a)' /\ Single(GripsOn(id))' /\ \A h \in GripsOn(id)' : Tied(id, a', h)
  BY <1>1 DEF AtHome, HeldOnce, Single
<1>3. Unseen(id)'
  BY DEF Unseen, Received
<1>4. \A r \in Relays : \A e \in FramesOf(mailbox'[r]) : ~IsOf(id, e)
  BY DEF InTransit
<1>5. ASSUME NEW h \in GripsOn(id)' PROVE Firm(id, h)'
  <2>1. h.frames = {f} /\ h.copies = {}
    BY <1>5
  <2>2. Sole(id, h)' /\ WellMade(id, h)' /\ Named(id, h)'
    BY <1>4, <2>1 DEF Sole, WellMade, Named
  <2>3. Tied(id, a, h)'
    BY <1>2, <1>5 DEF Tied
  <2>4. QED BY <1>3, <2>2, <2>3 DEF Firm
<1>6. \A r \in Relays : Once(id, mailbox'[r])
  BY <1>4 DEF Once, FramesOf
<1>7. QED
  BY <1>2, <1>5, <1>6 DEF GripOK, NoMessage, Once

\* A frame added to the end of a mailbox.
LEMMA AppendOnce ==
    ASSUME NEW q \in Seq(Frame), NEW f \in Frame, NEW id
    PROVE  /\ (\A e \in FramesOf(q) : ~IsOf(id, e)) => Once(id, Append(q, f))
           /\ ~IsOf(id, f) /\ Once(id, q) => Once(id, Append(q, f))
<1> DEFINE p == Append(q, f)
<1>1. /\ DOMAIN p = 1 .. (Len(q) + 1) /\ DOMAIN q = 1 .. Len(q) /\ Len(q) \in Nat
      /\ p[Len(q) + 1] = f /\ \A i \in 1 .. Len(q) : p[i] = q[i]
  OBVIOUS
<1> HIDE DEF p
<1>2. \A i \in 1 .. (Len(q) + 1) : i \in 1 .. Len(q) \/ i = Len(q) + 1
  BY <1>1
<1>3. ASSUME \A e \in FramesOf(q) : ~IsOf(id, e) PROVE Once(id, p)
  <2>1. \A i \in 1 .. Len(q) : ~IsOf(id, p[i])
    BY <1>1, <1>3 DEF FramesOf
  <2>2. QED BY <1>1, <1>2, <2>1 DEF Once
<1>4. ASSUME ~IsOf(id, f), Once(id, q) PROVE Once(id, p)
  <2>1. \A i \in 1 .. (Len(q) + 1) : IsOf(id, p[i]) => i \in 1 .. Len(q)
    BY <1>1, <1>2, <1>4
  <2>2. QED BY <1>1, <1>4, <2>1 DEF Once
<1>5. QED BY <1>3, <1>4 DEF p

\* One copy on each relay that took the frame.
LEMMA CopiesTook ==
    ASSUME NEW f, NEW took
    PROVE  /\ \A c \in Copies(f, took) : c.relay \in took /\ c.frame = f
           /\ \A r \in took : \E c \in Copies(f, took) : c.relay = r
<1> DEFINE copy(r) == [relay |-> r, frame |-> f]
<1>1. Copies(f, took) = {copy(r) : r \in took}
  BY DEF Copies
<1>2. \A r \in took : copy(r).relay = r /\ copy(r).frame = f
  OBVIOUS
<1> HIDE DEF copy
<1>3. \A r \in took : copy(r) \in Copies(f, took)
  BY <1>1
<1>4. QED BY <1>1, <1>2, <1>3

\* A frame gripped outside the relays goes to some of them: the grip names
\* where.
LEMMA GripPosted ==
    ASSUME NEW id, GripOK(id), NEW g \in GripsOn(id), NEW f \in Frame, IsOf(id, f),
           g.frames = {f}, g.copies = {}, NEW took, took \subseteq Relays,
           \A r \in Relays : mailbox[r] \in Seq(Frame),
           \A r \in Relays : mailbox'[r] = IF r \in took THEN Append(mailbox[r], f) ELSE mailbox[r],
           AtHome(id, a', Outer(id)'), a' = a,
           \A h \in GripsOn(id)' : h.frames = {f} /\ h.copies = Copies(f, took),
           \A e \in AllFrames' : IsOf(id, e) => e \in AllFrames,
           UNCHANGED <<wire, drained, b, bDisk>>, Loose(id)' => Loose(id)
    PROVE  GripGoes(id)
<1>1. GripsOn(id)' = NodeGrips(id, a') \cup Outer(id)'
  BY GripsSplitNext
<1>2. HeldOnce(id, a)' /\ Single(GripsOn(id))' /\ \A h \in GripsOn(id)' : Tied(id, a', h)
  BY <1>1 DEF AtHome, HeldOnce, Single
<1>3. Firm(id, g) /\ ~Absent(id)
  BY DEF GripOK, Absent
<1>4. Unseen(id)'
  <2>1. Unseen(id)
    BY <1>3 DEF Firm, Intact
  <2>2. QED BY <2>1 DEF Unseen, Received
<1>5. \A r \in Relays : \A e \in FramesOf(mailbox[r]) : ~IsOf(id, e)
  BY <1>3 DEF Firm, Named
<1>6. \A r \in Relays : /\ r \in took => FramesOf(mailbox'[r]) = FramesOf(mailbox[r]) \cup {f}
                        /\ r \notin took => mailbox'[r] = mailbox[r]
  BY QueueFrames
<1>7. ASSUME NEW h \in GripsOn(id)' PROVE Firm(id, h)'
  <2>1. h.frames = {f} /\ h.copies = Copies(f, took)
    BY <1>7
  <2>2. \A c \in h.copies : c.relay \in took /\ c.frame = f
    BY <2>1, CopiesTook
  <2>3. \A r \in took : \E c \in h.copies : c.relay = r
    BY <2>1, CopiesTook
  <2>4. Sole(id, h)'
    BY <1>3, <2>1 DEF Firm, Sole
  <2>5. WellMade(id, h)'
    BY <2>1, <2>2 DEF WellMade
  <2>6. Named(id, h)'
    BY <1>5, <1>6, <2>3 DEF Named
  <2>7. Tied(id, a, h)'
    BY <1>2, <1>7 DEF Tied
  <2>8. QED BY <1>3, <1>4, <2>4, <2>5, <2>6, <2>7 DEF Firm
<1>8. \A r \in Relays : Once(id, mailbox'[r])
  <2> SUFFICES ASSUME NEW r \in Relays PROVE Once(id, mailbox'[r])
    OBVIOUS
  <2>1. Once(id, mailbox[r])
    BY DEF GripOK
  <2>2. QED BY <1>5, <2>1, AppendOnce
<1>9. a'.hist[id].kind \notin {"none", "gone"}
  BY <1>3 DEF GripOK
<1>10. Regripped(id)
  BY DEF Regripped
<1>11. QED
  BY <1>2, <1>7, <1>8, <1>9, <1>10 DEF GripGoes, GripOK, Once

\* A frame of another message changes nothing for this one.
LEMMA OtherPosted ==
    ASSUME NEW id, NEW f \in Frame, ~IsOf(id, f), NEW S,
           \A r \in Relays : mailbox[r] \in Seq(Frame),
           \A r \in Relays : mailbox'[r] = IF r \in S THEN Append(mailbox[r], f) ELSE mailbox[r]
    PROVE  /\ \A r \in Relays : \A e \in FramesOf(mailbox'[r]) : IsOf(id, e) => e \in FramesOf(mailbox[r])
           /\ \A r \in Relays : Once(id, mailbox[r]) => Once(id, mailbox'[r])
<1>1. \A r \in Relays : FramesOf(mailbox'[r]) \subseteq FramesOf(mailbox[r]) \cup {f}
  BY QueueFrames
<1>2. \A r \in Relays : Once(id, mailbox[r]) => Once(id, mailbox'[r])
  BY AppendOnce
<1>3. QED BY <1>1, <1>2

\* A recall takes the one copy of a message out of a mailbox.
LEMMA RecallOnce ==
    ASSUME NetOK, NEW c \in Copy, RecallOk(c), NEW id
    PROVE  /\ Once(id, mailbox[c.relay]) => Once(id, Recalled(c))
           /\ Once(id, mailbox[c.relay]) /\ IsOf(id, c.frame) =>
                \A f \in FramesOf(Recalled(c)) : ~IsOf(id, f)
<1> DEFINE q == mailbox[c.relay]
           last == CHOOSE i \in Places(c) : \A j \in Places(c) : j <= i
           at(j) == IF j < last THEN j ELSE j + 1
<1>1. q \in Seq(Frame) /\ Places(c) # {}
  BY DEF RecallOk, NetOK
<1>2. DOMAIN q = 1 .. Len(q) /\ Len(q) \in Nat
  BY <1>1
<1>3. last \in 1 .. Len(q) /\ q[last] = c.frame
  <2>1. Places(c) \in SUBSET (1 .. Len(q)) /\ \A i \in Places(c) : q[i] = c.frame
    BY <1>2 DEF Places
  <2>2. IsFiniteSet(Places(c)) /\ Places(c) \in SUBSET Nat
    <3>1. 1 \in Int /\ Len(q) \in Int
      BY <1>2
    <3>2. IsFiniteSet(1 .. Len(q))
      BY <3>1, FS_Interval
    <3>3. QED BY <1>2, <2>1, <3>2, FS_Subset
  <2>3. \E i \in Places(c) : \A j \in Places(c) : j <= i
    BY <1>1, <2>2, LargestOf
  <2>4. last \in Places(c)
    BY <2>3
  <2>5. QED BY <2>1, <2>4
<1>4. Recalled(c) = [j \in 1 .. (Len(q) - 1) |-> q[IF j < last THEN j ELSE j + 1]]
  BY DEF Recalled
<1> HIDE DEF q, last
<1>5. /\ DOMAIN Recalled(c) = 1 .. (Len(q) - 1)
      /\ \A j \in 1 .. (Len(q) - 1) : Recalled(c)[j] = q[at(j)]
  BY <1>4
<1>6. \A j \in 1 .. (Len(q) - 1) : at(j) \in 1 .. Len(q) /\ at(j) # last
  BY <1>2, <1>3
<1>7. \A i, j \in 1 .. (Len(q) - 1) : at(i) = at(j) => i = j
  BY <1>2, <1>3
<1> HIDE DEF at
<1>8. Once(id, q) => Once(id, Recalled(c))
  BY <1>2, <1>5, <1>6, <1>7 DEF Once
<1>9. Once(id, q) /\ IsOf(id, c.frame) => \A j \in 1 .. (Len(q) - 1) : ~IsOf(id, Recalled(c)[j])
  BY <1>2, <1>3, <1>5, <1>6 DEF Once
<1>10. Once(id, q) /\ IsOf(id, c.frame) => \A f \in FramesOf(Recalled(c)) : ~IsOf(id, f)
  BY <1>5, <1>9 DEF FramesOf
<1>11. QED
  BY <1>8, <1>10 DEF q

\* Where frames are at work, but for the held ones.
Elsewhere ==
    a.pending_sends \cup planned \cup Frames(outcomes) \cup Frames(a.outbox)
        \cup RoundFrames \cup CallFrames

\* A message in the sender's hands that lies in one of these queues is gripped
\* outside the held ones, the receipts and the recalls.
LEMMA AtRest ==
    ASSUME QueuesAreOwn, \A k \in calls : CallIsOwn(k), NEW id, ~Loose(id), NEW f \in Elsewhere, IsOf(id, f)
    PROVE  \E g \in GripsOn(id) : g.at \notin {"held", "receipts", "recall"}
<1> DEFINE There == \E g \in GripsOn(id) : g.at \notin {"held", "receipts", "recall"}
<1>1. CASE f \in a.pending_sends
  <2>1. Grip("pending", {f}, {}, {}) \in GripsOn(id)
    BY <1>1 DEF GripsOn, NodeGrips, Idle
  <2>2. QED BY <2>1 DEF Grip
<1>2. CASE f \in planned
  <2>1. Grip("planned", {f}, {}, {}) \in GripsOn(id)
    BY <1>2 DEF GripsOn, PlannedGrips, Idle
  <2>2. QED BY <2>1 DEF Grip
<1>3. ASSUME NEW o \in outcomes, f = o.frame PROVE There
  <2>1. ~o.delivered
    BY <1>3 DEF Loose
  <2>2. Grip("outcome", {o.frame}, o.copies, {}) \in GripsOn(id)
    BY <1>3, <2>1 DEF GripsOn, OutcomeGrips
  <2>3. QED BY <2>2 DEF Grip
<1>4. ASSUME NEW o \in a.outbox, f = o.frame PROVE There
  <2>1. o.done = "Held"
    BY <1>4 DEF Loose, Again, QueuesAreOwn, Queued
  <2>2. Grip("outbox", {o.frame}, {}, {o}) \in GripsOn(id)
    BY <1>4, <2>1 DEF GripsOn, NodeGrips, Going, HeldOf
  <2>3. QED BY <2>2 DEF Grip
<1>5. ASSUME NEW o \in round.todo, f = o.frame PROVE There
  <2>1. o.done = "Held"
    BY <1>5 DEF Loose, Again, QueuesAreOwn, Queued
  <2>2. Grip("todo", {o.frame}, {}, {o}) \in GripsOn(id)
    BY <1>5, <2>1 DEF GripsOn, RoundGrips, Going, HeldOf
  <2>3. QED BY <2>2 DEF Grip
<1>6. ASSUME NEW x \in round.finished, f = x.out.frame PROVE There
  <2>1. x.out.done = "Held" /\ x.delivery.via # "Direct"
    BY <1>6 DEF Loose, Again, QueuesAreOwn, Queued
  <2>2. Grip("finished", {x.out.frame}, x.delivery.copies, {x}) \in GripsOn(id)
    BY <1>6, <2>1 DEF GripsOn, RoundGrips, FinishedGrips, FinishedOf
  <2>3. QED BY <2>2 DEF Grip
<1>7. ASSUME NEW k \in calls, NEW o \in k.out, f = o.frame PROVE There
  <2>1. CallIsOwn(k)
    OBVIOUS
  <2>2. o.done = "CallerRecords" /\ k.id = id
    BY <1>7, <2>1 DEF CallIsOwn, IsOf
  <2>3. Grip("repost", Frames(k.out), k.delivery.copies, {k}) \in GripsOn(id)
    BY <2>2 DEF GripsOn, CallGrips, Reposts
  <2>4. QED BY <2>3 DEF Grip
<1>8. QED
  BY <1>1, <1>2, <1>3, <1>4, <1>5, <1>6, <1>7 DEF Elsewhere, RoundFrames, CallFrames, Frames

\* A message held or recalled is at work nowhere else.
LEMMA AtHand ==
    ASSUME QueuesAreOwn, \A k \in calls : CallIsOwn(k), NEW id, GripOK(id),
           NEW g \in GripsOn(id), g.at \in {"held", "receipts", "recall"}
    PROVE  /\ \A f \in Elsewhere : ~IsOf(id, f)
           /\ \A h \in a.held : IsOf(id, h.frame) => ~h.in_flight /\ g.at = "held"
           /\ \A x \in GripsOn(id) : x = g
<1>1. Firm(id, g) /\ \A x \in GripsOn(id) : x = g
  BY DEF GripOK, Single
<1>2. \A f \in Elsewhere : ~IsOf(id, f)
  BY <1>1, AtRest DEF Firm
<1>3. ASSUME NEW h \in a.held, IsOf(id, h.frame) PROVE ~h.in_flight /\ g.at = "held"
  <2>1. ~h.in_flight
    BY <1>1, <1>3 DEF Firm, Tied
  <2>2. Grip("held", {h.frame}, {}, {}) \in GripsOn(id)
    BY <1>3, <2>1 DEF GripsOn, NodeGrips, Idle, IdleOf, Frames
  <2>3. QED BY <1>1, <2>1, <2>2 DEF Grip
<1>4. QED BY <1>1, <1>2, <1>3

\* A step of the sender that posts nothing.
LEMMA NothingPosted ==
    ASSUME NEW id, UNCHANGED <<wire, mailbox, drained, b, bDisk>>,
           \A f \in AllFrames' : IsOf(id, f) => f \in AllFrames, Loose(id)' => Loose(id)
    PROVE  NothingNew(id)
<1>1. Unseen(id) => Unseen(id)'
  BY DEF Unseen, Received
<1>2. QED
  BY <1>1 DEF NothingNew

\* A run without lost answers: a direct hand-over, or a copy on each relay
\* that the delivery names.
PostedOn(f, took) ==
    \A r \in Relays : mailbox'[r] = IF r \in took THEN Append(mailbox[r], f) ELSE mailbox[r]

\* Without lost answers a post puts the frame on the relays of the delivery only.
LEMMA PostIs ==
    ASSUME RecallSafe, NEW f, NEW took \in SUBSET Relays, NEW stray \in SUBSET Relays,
           Post(f, took, stray)
    PROVE  PostedOn(f, took)
<1>1. stray = {}
  BY DEF Post, Pay, PostFaults, RecallSafe
<1>2. QED
  BY <1>1 DEF Post, PostedOn

\* What a run may do to the wire and the mailboxes, by the road it took.
LEMMA RunIs ==
    ASSUME RecallSafe, NEW f, NEW route, NEW d, Run(f, route, d)
    PROVE  \/ /\ route = "DirectThenRelay" /\ wire' = wire \cup {f} /\ mailbox' = mailbox
              /\ d.via = "Direct" /\ d.copies = {}
           \/ /\ wire' = wire /\ d.via # "Direct" /\ (d.via = "Failed" => d.copies = {})
              /\ \E took \in SUBSET Relays : PostedOn(f, took) /\ d.copies = Copies(f, took)
<1>1. CASE RunDirect(f, route, d)
  BY <1>1 DEF RunDirect
<1>2. ASSUME NEW took \in SUBSET Relays, NEW stray \in SUBSET Relays, RunRelay(f, took, stray, d)
      PROVE  /\ wire' = wire /\ d.via # "Direct" /\ (d.via = "Failed" => d.copies = {})
             /\ \E S \in SUBSET Relays : PostedOn(f, S) /\ d.copies = Copies(f, S)
  <2>1. wire' = wire /\ PostedOn(f, took)
    BY <1>2, PostIs DEF RunRelay
  <2>2. took = {} => Copies(f, took) = {}
    BY DEF Copies
  <2>3. d = IF took = {} THEN NotSent ELSE [via |-> "Relay", copies |-> Copies(f, took)]
    BY <1>2 DEF RunRelay
  <2>4. d.via # "Direct" /\ (d.via = "Failed" => d.copies = {}) /\ d.copies = Copies(f, took)
    BY <2>2, <2>3 DEF NotSent
  <2>5. QED BY <2>1, <2>4
<1>3. QED
  BY <1>1, <1>2 DEF Run

\* A message that is not composed stays nowhere, as long as frames, clocks and
\* calls are only of composed ones.
LEMMA NotYetKept ==
    ASSUME \A id \in Ids : NotYet(id),
           \A id \in Ids : a'.hist[id].kind = "none" => a.hist[id].kind = "none",
           \A id \in Ids : a'.hist[id].kind = "none" /\ id \in a'.awaiting_receipt => id \in a.awaiting_receipt,
           \A f \in AllFrames' : (\E e \in AllFrames : e.id = f.id) \/ a'.hist[f.id].kind # "none",
           \A k \in calls' : (\E j \in calls : j.id = k.id) \/ a'.hist[k.id].kind # "none"
    PROVE  \A id \in Ids : NotYet(id)'
BY DEF NotYet

\* What there is of a message means it was composed.
LEMMA Composed ==
    ASSUME GripInv, TypeInv
    PROVE  /\ \A f \in AllFrames : a.hist[f.id].kind # "none"
           /\ \A k \in calls : k.id \in Ids /\ a.hist[k.id].kind # "none"
           /\ \A id \in a.awaiting_receipt : a.hist[id].kind # "none"
<1>1. \A f \in AllFrames : f.id \in Ids
  BY FramesAreFrames
<1>2. (\A k \in calls : k.id \in Ids) /\ a.awaiting_receipt \subseteq Ids
  BY DEF TypeInv, TypeOK, Call, Node
<1>3. QED
  BY <1>1, <1>2 DEF GripInv, NotYet

\* Processing shows a message the receiver did not have only from a frame of it.
LEMMA ProcessedSeen ==
    ASSUME NEW n, DOMAIN n.inbox = Ids, NEW f, NEW id \in Ids, Received(ProcessFrame(n, f), id)
    PROVE  Received(n, id) \/ IsOf(id, f)
<1> DEFINE m == n.inbox[f.id]
           open == m.kind = "text" /\ f.id \notin closed
           shown == CASE f.kind = "Message" /\ m.kind = "none" /\ ~full -> [kind |-> "text", text |-> f.text]
                    [] f.kind = "Edit" /\ open -> [kind |-> "text", text |-> f.text]
                    [] f.kind = "Unsend" /\ open -> [kind |-> "deleted", text |-> Blank]
                    [] OTHER -> m
<1>1. ProcessFrame(n, f) = IF f.seal \in n.spent THEN n
             ELSE [inbox |-> [n.inbox EXCEPT ![f.id] = shown], spent |-> n.spent \cup {f.seal}]
  BY DEF ProcessFrame
<1>2. f.kind # "Message" /\ m.kind = "none" => shown = m
  OBVIOUS
<1> HIDE DEF shown
<1>3. CASE f.id = id /\ f.kind = "Message"
  BY <1>3 DEF IsOf, IsMessage
<1>4. CASE f.id = id /\ f.kind # "Message"
  BY <1>1, <1>2, <1>4 DEF Received
<1>5. CASE f.id # id
  BY <1>1, <1>5 DEF Received
<1>6. QED BY <1>3, <1>4, <1>5

\* A step of the network or the receiver: what it takes away it takes in.
LEMMA GripReceiver ==
    ASSUME GripInv, TypeInv, UNCHANGED senderVars, wire' \subseteq wire, InTransit' \subseteq InTransit,
           \A r \in Relays : FramesOf(mailbox'[r]) \subseteq FramesOf(mailbox[r]),
           \A id \in Ids : \A r \in Relays : Once(id, mailbox[r]) => Once(id, mailbox'[r]),
           \A id \in Ids : (\A f \in wire : ~IsOf(id, f)) /\ Unseen(id) => Unseen(id)' \/ LeftMail(id)
    PROVE  GripsGo
<1>u. UNCHANGED <<a, planned, outcomes, round, calls>>
  BY DEF senderVars
<1>1. AllFrames' \subseteq AllFrames
  <2>1. RoundFrames' = RoundFrames /\ CallFrames' = CallFrames /\ NodeFrames(a') = NodeFrames(a)
    BY <1>u DEF RoundFrames, CallFrames
  <2>2. QED BY <1>u, <2>1, FramePlaces, FramePlacesNext
<1>2. QueuesAreOwn' /\ \A k \in calls' : CallIsOwn(k)
  BY <1>u DEF GripInv, QueuesAreOwn
<1>3. \A id \in Ids : NotYet(id)'
  <2>1. \A id \in Ids : NotYet(id)
    BY DEF GripInv
  <2>2. QED BY <1>u, <1>1, <2>1 DEF NotYet
<1>4. ASSUME NEW id \in Ids PROVE GripGoes(id)
  <2>1. GripOK(id)
    BY DEF GripInv
  <2>2. Outer(id)' = Outer(id) /\ GripsOn(id)' = GripsOn(id)
    BY <1>u DEF Outer, GripsOn
  <2>3. AtHome(id, a', Outer(id)') /\ From(GripsOn(id)', GripsOn(id))
    BY <1>u, <2>1, <2>2, GripsSplit DEF From
  <2>4. Loose(id)' => Loose(id)
    <3>1. Again' = Again
      BY <1>u DEF Again
    <3>2. QED BY <1>u, <3>1 DEF Loose
  <2>5. GripsOn(id)' # {} \/ NoMessage(a', id) => \A f \in wire : ~IsOf(id, f)
    <3>1. wire \subseteq AllFrames
      BY DEF AllFrames, InTransit
    <3>2. GripsOn(id) # {} => ~Loose(id)
      BY <2>1 DEF GripOK, Firm
    <3>3. QED BY <1>u, <2>1, <2>2, <3>1, <3>2 DEF GripOK, NoMessage, Absent, Loose
  <2>6. GripsOn(id)' # {} \/ NoMessage(a', id) => NothingNew(id)
    BY <1>1, <2>4, <2>5 DEF NothingNew
  <2>7. NoMessage(a', id) => NoMessage(a, id)
    BY <1>u
  <2>8. QED BY <2>1, <2>3, <2>6, <2>7, GripKept
<1>5. QED
  BY <1>1, <1>2, <1>3, <1>4 DEF GripInv, GripsGo, GripGoes

\* What the receiver does loosens no grip on a message.
LEMMA GripReceiverSteps ==
    ASSUME GripInv, TypeInv, ReceiverStep PROVE GripsGo
<1>t. ReceiverOK /\ NetOK
  BY TypeGroups
<1>d. drained \in Seq(Frame) /\ (\A r \in Relays : mailbox[r] \in Seq(Frame)) /\ mailbox \in [Relays -> Seq(Frame)]
  BY <1>t DEF ReceiverOK, NetOK
<1>b. DOMAIN b.inbox = Ids
  BY <1>t DEF ReceiverOK, Receiver
<1>s. ASSUME NEW f, NEW id \in Ids, Unseen(id), ~IsOf(id, f), b' = ProcessFrame(b, f),
             bDisk' = bDisk \/ bDisk' = b', FramesOf(drained') \subseteq FramesOf(drained)
      PROVE  Unseen(id)'
  BY <1>b, <1>s, ProcessedSeen DEF Unseen, Received
<1>1. ASSUME NEW f \in wire, Pump(f) PROVE GripsGo
  <2>1. /\ wire' \subseteq wire /\ UNCHANGED senderVars /\ UNCHANGED <<drained, mailbox>>
        /\ b' = ProcessFrame(b, f) /\ (bDisk' = bDisk \/ bDisk' = b')
    BY <1>1 DEF Pump, Processes, ReceiverSaves
  <2>2. InTransit' \subseteq InTransit
    BY <1>1, <1>t, TakenIn
  <2>3. \A id \in Ids : (\A e \in wire : ~IsOf(id, e)) /\ Unseen(id) => Unseen(id)'
    BY <1>1, <1>s, <2>1
  <2>4. QED BY <2>1, <2>2, <2>3, GripReceiver
<1>2. ASSUME NEW r \in Relays, TakeMailbox(r) PROVE GripsGo
  <2>1. /\ UNCHANGED senderVars /\ UNCHANGED <<wire, b, bDisk>>
        /\ drained' = drained \o mailbox[r]
        /\ \A s \in Relays : mailbox'[s] = IF s = r THEN <<>> ELSE mailbox[s]
    BY <1>2, <1>d DEF TakeMailbox
  <2>2. InTransit' \subseteq InTransit
    BY <1>2, <1>t, TakenIn
  <2>3. FramesOf(drained') = FramesOf(drained) \cup FramesOf(mailbox[r]) /\ FramesOf(<<>>) = {}
    BY <1>d, <2>1, QueueFrames
  <2>4. \A s \in Relays : FramesOf(mailbox'[s]) \subseteq FramesOf(mailbox[s])
    BY <2>1, <2>3
  <2>5. \A id \in Ids : \A s \in Relays : Once(id, mailbox[s]) => Once(id, mailbox'[s])
    <3>1. \A id \in Ids : Once(id, <<>>)
      BY DEF Once
    <3>2. QED BY <2>1, <3>1
  <2>6. ASSUME NEW id \in Ids, Unseen(id) PROVE Unseen(id)' \/ LeftMail(id)
    <3>1. CASE \E f \in FramesOf(mailbox[r]) : IsOf(id, f)
      BY <2>1, <2>3, <3>1 DEF LeftMail
    <3>2. CASE \A f \in FramesOf(mailbox[r]) : ~IsOf(id, f)
      BY <2>1, <2>3, <2>6, <3>2 DEF Unseen, Received
    <3>3. QED BY <3>1, <3>2
  <2>7. QED BY <2>1, <2>2, <2>4, <2>5, <2>6, GripReceiver
<1>3. ASSUME ApplyHarvest PROVE GripsGo
  <2>1. /\ UNCHANGED senderVars /\ UNCHANGED <<wire, mailbox>>
        /\ drained # <<>> /\ drained' = Tail(drained)
        /\ b' = ProcessFrame(b, Head(drained)) /\ (bDisk' = bDisk \/ bDisk' = b')
    BY <1>3 DEF ApplyHarvest, Processes, netVars, ReceiverSaves
  <2>2. InTransit' \subseteq InTransit
    BY <1>3, <1>t, TakenIn
  <2>3. FramesOf(drained) = FramesOf(drained') \cup {Head(drained)}
    BY <1>d, <2>1, QueueFrames
  <2>4. \A id \in Ids : Unseen(id) => ~IsOf(id, Head(drained))
    BY <2>3 DEF Unseen
  <2>5. FramesOf(drained') \subseteq FramesOf(drained)
    BY <2>3
  <2>6. \A id \in Ids : Unseen(id) => Unseen(id)'
    BY <1>s, <2>1, <2>4, <2>5
  <2>7. QED BY <2>1, <2>2, <2>6, GripReceiver
<1>4. ASSUME SendReceipts PROVE GripsGo
  <2>1. UNCHANGED senderVars /\ UNCHANGED <<wire, mailbox, drained, b, bDisk>>
    BY <1>4 DEF SendReceipts
  <2>2. InTransit' = InTransit /\ \A id \in Ids : Unseen(id) => Unseen(id)'
    BY <2>1 DEF InTransit, Unseen, Received
  <2>3. QED BY <2>1, <2>2, GripReceiver
<1>5. QED
  BY <1>1, <1>2, <1>3, <1>4 DEF ReceiverStep

\* Nor does a frame, a receipt or a take that is lost, or the end of the receiver.
LEMMA GripFailures ==
    ASSUME RecallSafe, GripInv, TypeInv, Failure PROVE GripsGo
<1>t. ReceiverOK /\ NetOK
  BY TypeGroups
<1>d. \A r \in Relays : mailbox[r] \in Seq(Frame)
  BY <1>t DEF NetOK
<1>0. FramesOf(<<>>) = {} /\ \A id \in Ids : Once(id, <<>>)
  BY DEF FramesOf, Once
<1>1. ASSUME NEW f \in wire, LoseFrame(f) PROVE GripsGo
  <2>1. UNCHANGED senderVars /\ wire' \subseteq wire /\ UNCHANGED <<mailbox, drained, b, bDisk>>
    BY <1>1 DEF LoseFrame, receiverVars
  <2>2. InTransit' \subseteq InTransit /\ \A id \in Ids : Unseen(id) => Unseen(id)'
    BY <2>1 DEF InTransit, Unseen, Received
  <2>3. QED BY <2>1, <2>2, GripReceiver
<1>2. ASSUME NEW id \in acks, LoseReceipt(id) PROVE GripsGo
  <2>1. UNCHANGED senderVars /\ UNCHANGED <<wire, mailbox, drained, b, bDisk>>
    BY <1>2 DEF LoseReceipt, receiverVars
  <2>2. InTransit' = InTransit /\ \A i \in Ids : Unseen(i) => Unseen(i)'
    BY <2>1 DEF InTransit, Unseen, Received
  <2>3. QED BY <2>1, <2>2, GripReceiver
<1>3. ASSUME NEW r \in Relays, LoseTake(r) PROVE GripsGo
  <2>1. /\ UNCHANGED senderVars /\ UNCHANGED <<wire, drained, b, bDisk>>
        /\ \A s \in Relays : mailbox'[s] = IF s = r THEN <<>> ELSE mailbox[s]
    BY <1>3, <1>t DEF LoseTake, receiverVars, NetOK
  <2>2. \A s \in Relays : FramesOf(mailbox'[s]) \subseteq FramesOf(mailbox[s])
    BY <1>0, <2>1
  <2>3. InTransit' \subseteq InTransit /\ \A id \in Ids : Unseen(id) => Unseen(id)'
    BY <2>1, <2>2 DEF InTransit, Unseen, Received
  <2>4. \A id \in Ids : \A s \in Relays : Once(id, mailbox[s]) => Once(id, mailbox'[s])
    BY <1>0, <2>1
  <2>5. QED BY <2>1, <2>2, <2>3, <2>4, GripReceiver
<1>4. ASSUME ReceiverRestarts PROVE GripsGo
  <2>1. /\ UNCHANGED senderVars /\ UNCHANGED <<wire, mailbox, bDisk>> /\ b' = bDisk /\ drained' = <<>>
    BY <1>4 DEF ReceiverRestarts
  <2>2. InTransit' \subseteq InTransit /\ \A id \in Ids : Unseen(id) => Unseen(id)'
    BY <1>0, <2>1 DEF InTransit, Unseen, Received
  <2>3. QED BY <2>1, <2>2, GripReceiver
<1>5. ~SenderRestarts
  BY DEF SenderRestarts, Pay, RecallSafe
<1>6. QED
  BY <1>1, <1>2, <1>3, <1>4, <1>5 DEF Failure

\* A step that leaves a message no grip it had not.
LEMMA HomeKept ==
    ASSUME NEW id, GripOK(id), NodeGrips(id, a') \subseteq NodeGrips(id, a) \cup Outer(id),
           Outer(id)' \subseteq Outer(id), \A h \in a'.held : IsOf(id, h.frame) => h \in a.held
    PROVE  AtHome(id, a', Outer(id)') /\ From(GripsOn(id)', GripsOn(id))
<1> DEFINE X == Outer(id)
           Y == Outer(id)'
           m == a'
<1>1. /\ AtHome(id, a, X) /\ GripsOn(id) = NodeGrips(id, a) \cup X
      /\ GripsOn(id)' = NodeGrips(id, m) \cup Y
  BY GripsSplit, GripsSplitNext
<1>2. /\ Y \subseteq X /\ NodeGrips(id, m) \subseteq NodeGrips(id, a) \cup X
      /\ \A h \in m.held : IsOf(id, h.frame) => h \in a.held
  OBVIOUS
<1> HIDE DEF X, Y, m
<1>3. AtHome(id, m, Y) /\ From(NodeGrips(id, m) \cup Y, NodeGrips(id, a) \cup X)
  BY ONLY <1>1, <1>2, HomeStays
<1>4. From(GripsOn(id)', GripsOn(id))
  BY ONLY <1>1, <1>3
<1>5. QED BY <1>3, <1>4 DEF Y, m

\* A step that leaves a message no grip it had not, and brings nothing new of it.
LEMMA GripStays ==
    ASSUME NEW id, GripOK(id), NodeGrips(id, a') \subseteq NodeGrips(id, a) \cup Outer(id),
           Outer(id)' \subseteq Outer(id), \A h \in a'.held : IsOf(id, h.frame) => h \in a.held,
           NothingNew(id), NoMessage(a', id) => NoMessage(a, id)
    PROVE  GripGoes(id)
<1>1. AtHome(id, a', Outer(id)') /\ From(GripsOn(id)', GripsOn(id))
  BY HomeKept
<1>2. QED BY <1>1, GripKept

\* A message is taken back for good: nothing of it is left.
LEMMA GripGone ==
    ASSUME NEW id, GripsOn(id)' = {}, Unseen(id), \A e \in AllFrames' : ~IsOf(id, e),
           UNCHANGED <<drained, b, bDisk>>
    PROVE  GripGoes(id)
<1>1. Absent(id)'
  BY DEF Absent, Unseen, Received
<1>2. HeldOnce(id, a)'
  BY DEF HeldOnce, AllFrames, AtWork, Frames
<1>3. QED
  BY <1>1, <1>2 DEF GripGoes, Regripped, GripOK, Single, Absent

\* The grips of the calls when one of them moves on.
CallGrip(m) ==
    IF m.phase = "recall" THEN Grip("recall", FramesIn(m.copies), m.copies, {m})
    ELSE Grip("repost", Frames(m.out), m.delivery.copies, {m})

\* The grips outside the node are those there were, but for the ones of the call.
LEMMA CallMoves ==
    ASSUME \A j \in calls' : CallIsOwn(j), UNCHANGED <<planned, outcomes, round>>,
           NEW k, NEW m, \A j \in calls' : (j \in calls /\ j # k) \/ j = m
    PROVE  \A i : \A x \in Outer(i)' :
              \/ x \in Outer(i) /\ (x.at \in {"recall", "repost"} => x.by # {k})
              \/ m \in calls' /\ (Recalls(i, m) \/ Reposts(i, m)) /\ x = CallGrip(m)
<1> SUFFICES ASSUME NEW i, NEW x \in Outer(i)'
             PROVE  \/ x \in Outer(i) /\ (x.at \in {"recall", "repost"} => x.by # {k})
                    \/ m \in calls' /\ (Recalls(i, m) \/ Reposts(i, m)) /\ x = CallGrip(m)
  OBVIOUS
<1>1. CASE x \in PlannedGrips(i, planned) \cup OutcomeGrips(i, outcomes) \cup RoundGrips(i, round)
  <2>1. x.at \notin {"recall", "repost"}
    BY <1>1 DEF PlannedGrips, OutcomeGrips, RoundGrips, Idle, Going, FinishedGrips, Grip
  <2>2. QED BY <1>1, <2>1 DEF Outer
<1>2. CASE x \in CallGrips(i, calls')
  <2>1. ASSUME NEW j \in calls', Recalls(i, j), x = Grip("recall", FramesIn(j.copies), j.copies, {j})
        PROVE  \/ x \in Outer(i) /\ x.by # {k}
               \/ m \in calls' /\ (Recalls(i, m) \/ Reposts(i, m)) /\ x = CallGrip(m)
    <3>1. CASE j = m
      BY <2>1, <3>1 DEF CallGrip, Recalls
    <3>2. CASE j \in calls /\ j # k
      BY <2>1, <3>2 DEF Outer, CallGrips, Grip
    <3>3. QED BY <3>1, <3>2
  <2>2. ASSUME NEW j \in calls', Reposts(i, j), x = Grip("repost", Frames(j.out), j.delivery.copies, {j})
        PROVE  \/ x \in Outer(i) /\ x.by # {k}
               \/ m \in calls' /\ (Recalls(i, m) \/ Reposts(i, m)) /\ x = CallGrip(m)
    <3>1. CASE j = m
      <4>1. m.phase # "recall"
        BY <2>2, <3>1 DEF CallIsOwn, Reposts
      <4>2. QED BY <2>2, <3>1, <4>1 DEF CallGrip
    <3>2. CASE j \in calls /\ j # k
      BY <2>2, <3>2 DEF Outer, CallGrips, Grip
    <3>3. QED BY <3>1, <3>2
  <2>3. QED BY <1>2, <2>1, <2>2 DEF CallGrips
<1>3. QED
  BY <1>1, <1>2 DEF Outer

\* The grip of a call.
LEMMA CallGripped ==
    ASSUME NEW k \in calls, CallIsOwn(k), NEW id, Recalls(id, k) \/ Reposts(id, k)
    PROVE  /\ CallGrip(k) \in Outer(id) /\ CallGrip(k) \in GripsOn(id) /\ CallGrip(k).by = {k}
           /\ k.phase = "recall" => /\ CallGrip(k).at = "recall" /\ CallGrip(k).copies = k.copies
                                    /\ CallGrip(k).frames = FramesIn(k.copies)
           /\ k.phase # "recall" => /\ CallGrip(k).at = "repost" /\ CallGrip(k).copies = k.delivery.copies
                                    /\ CallGrip(k).frames = Frames(k.out)
<1>1. Reposts(id, k) => k.phase # "recall"
  BY DEF CallIsOwn, Reposts
<1>2. CASE Recalls(id, k)
  <2>1. k.phase = "recall"
    BY <1>2 DEF Recalls
  <2>2. CallGrip(k) \in CallGrips(id, calls)
    BY <1>2, <2>1 DEF CallGrip, CallGrips
  <2>3. QED BY <2>1, <2>2 DEF CallGrip, Outer, GripsOn, Grip
<1>3. CASE Reposts(id, k)
  <2>1. k.phase # "recall"
    BY <1>1, <1>3
  <2>2. CallGrip(k) \in CallGrips(id, calls)
    BY <1>3, <2>1 DEF CallGrip, CallGrips
  <2>3. QED BY <2>1, <2>2 DEF CallGrip, Outer, GripsOn, Grip
<1>4. QED BY <1>2, <1>3

\* All frames of the message have one text, after the step.
Remade(id, t) == \A f \in AllFrames' : IsOf(id, f) => f.text = t

\* A message is composed: it waits in one queue.
LEMMA GripSend ==
    ASSUME GripInv, TypeInv, NEW id \in Ids, SendMessage(id)
    PROVE  /\ GripInv' /\ \A i \in Ids : Regripped(i) \/ (i = id /\ Remade(id, 1))
           /\ \A e \in AllFrames' : e \in AllFrames \/ e = Message(id, 1, a.seal + 1)
<1> DEFINE f == Message(id, 1, a.seal + 1)
           msg == [kind |-> "text", text |-> 1, delivery |-> "queued"]
           g == Grip("pending", {f}, {}, {})
<1>a. NodeOK(a)
  BY TypeGroups DEF SenderOK
<1>1. /\ a'.hist = [a.hist EXCEPT ![id] = msg] /\ a'.pending_sends = a.pending_sends \cup {f}
      /\ a'.held = a.held /\ a'.outbox = a.outbox
      /\ a'.relay_receipts = a.relay_receipts /\ a'.awaiting_receipt = a.awaiting_receipt
  <2> HIDE DEF f, msg
  <2>1. a' = [a EXCEPT !.hist[id] = msg, !.seal = @ + 1, !.pending_sends = @ \cup {f}]
    BY DEF SendMessage, f, msg
  <2>2. QED BY <1>a, <2>1, NodeParts
<1>2. /\ UNCHANGED <<planned, outcomes, round, calls, b, bDisk, drained, mailbox, wire>>
      /\ a.hist[id].kind = "none"
  BY DEF SendMessage, Locked, receiverVars, netVars
<1>3. IsOf(id, f) /\ IsMessage(f) /\ f.id = id /\ \A i : IsOf(i, f) => i = id
  BY DEF Message, IsOf, IsMessage
<1>4. \A i \in Ids : a'.hist[i].kind = IF i = id THEN "text" ELSE a.hist[i].kind
  BY <1>1, <1>a, NodeParts
<1>g. g.frames = {f} /\ g.copies = {} /\ g.at = "pending"
  BY DEF Grip
<1> HIDE DEF f, msg
<1>5. AllFrames' \subseteq AllFrames \cup {f}
  <2>1. NodeFrames(a') \subseteq NodeFrames(a) \cup {f}
    BY <1>1 DEF NodeFrames
  <2>2. InTransit' = InTransit /\ RoundFrames' = RoundFrames /\ CallFrames' = CallFrames
    BY <1>2, TransitStays DEF RoundFrames, CallFrames
  <2>3. QED BY <1>2, <2>1, <2>2, FramePlaces, FramePlacesNext
<1>6. \A i : Outer(i)' = Outer(i) /\ (Loose(i)' <=> Loose(i))
  BY <1>1, <1>2 DEF Outer, Loose, Again
<1>7. QueuesAreOwn' /\ \A k \in calls' : CallIsOwn(k)
  BY <1>1, <1>2, <1>3 DEF GripInv, QueuesAreOwn
<1>8. \A i \in Ids : NotYet(i)'
  <2>1. \A e \in AllFrames' : (\E d \in AllFrames : d.id = e.id) \/ a'.hist[e.id].kind # "none"
    BY <1>3, <1>4, <1>5
  <2>2. \A i \in Ids : NotYet(i)
    BY DEF GripInv
  <2>3. QED BY <1>1, <1>2, <1>4, <2>1, <2>2, NotYetKept
<1>9. ASSUME NEW i \in Ids, i # id PROVE GripGoes(i)
  <2>1. GripOK(i)
    BY DEF GripInv
  <2>2. ~IsOf(i, f)
    BY <1>3, <1>9
  <2>3. NodeGrips(i, a') \subseteq NodeGrips(i, a)
    BY <1>1, <2>2 DEF NodeGrips, Idle
  <2>4. AtHome(i, a', Outer(i)') /\ From(GripsOn(i)', GripsOn(i))
    BY <1>1, <1>6, <2>1, <2>3, HomeKept
  <2>5. NothingNew(i)
    BY <1>2, <1>5, <1>6, <2>2, NothingPosted
  <2>6. NoMessage(a', i) => NoMessage(a, i)
    BY <1>4, <1>9 DEF NoMessage
  <2>7. QED BY <2>1, <2>4, <2>5, <2>6, GripKept
<1>10. GripOK(id)' /\ \A e \in AllFrames' : IsOf(id, e) => e = f
  <2>1. GripOK(id) /\ NotYet(id)
    BY DEF GripInv
  <2>2. Absent(id)
    BY <1>2, <2>1 DEF GripOK
  <2>3. NodeGrips(id, a) = {} /\ Outer(id) = {}
    BY <2>1, <2>2, GripsSplit DEF Absent
  <2>4. \A h \in NodeGrips(id, a') : h = g
    <3>1. \A h \in NodeGrips(id, a') : h \in NodeGrips(id, a) \/ h = g
      BY <1>1 DEF NodeGrips, Idle
    <3>2. QED BY <2>3, <3>1
  <2>5. \A h \in a.held : ~IsOf(id, h.frame)
    BY <2>2 DEF Absent, AllFrames, AtWork, Frames
  <2> HIDE DEF g
  <2>6. AtHome(id, a', Outer(id)')
    BY <1>1, <1>6, <2>3, <2>4, <2>5 DEF AtHome, HeldOnce, Single, Tied
  <2>7. \A h \in GripsOn(id)' : h.frames = {f} /\ h.copies = {}
    BY <1>6, <1>g, <2>3, <2>4, GripsSplitNext
  <2>8. (\A e \in AllFrames' : IsOf(id, e) => e = f) /\ \A e \in InTransit : ~IsOf(id, e)
    BY <1>5, <2>2 DEF Absent, AllFrames
  <2>9. ~Loose(id)
    <3>1. \A e \in AllFrames : ~IsOf(id, e)
      BY <2>2 DEF Absent
    <3>2. id \notin a.awaiting_receipt
      BY <1>2, <2>1 DEF NotYet
    <3>3. QED BY <3>1, <3>2 DEF Loose, Again, AllFrames, AtWork, InTransit, Frames
  <2>10. ~NoMessage(a', id) /\ Unseen(id)
    BY <1>4, <2>2 DEF NoMessage, Absent
  <2>11. QED
    BY <1>2, <1>3, <1>6, <2>6, <2>7, <2>8, <2>9, <2>10, GripMade
<1>11. Remade(id, 1)
  BY <1>10 DEF Remade, Message, f
<1>12. GripInv'
  BY <1>7, <1>8, <1>9, <1>10 DEF GripInv, GripGoes
<1>13. QED
  BY <1>5, <1>9, <1>11, <1>12 DEF GripGoes, f

\* A call begins: it takes the copies on record over for its recall.
LEMMA GripBegin ==
    ASSUME GripInv, TypeInv, NEW id \in Ids, NEW op, NEW text, calls' = calls \cup {NewCall(op, id, text)},
           a.hist[id].kind # "none", \A i \in Ids : a'.hist[i].kind = a.hist[i].kind,
           a'.pending_sends = a.pending_sends, a'.held = a.held, a'.outbox = a.outbox,
           a'.awaiting_receipt = a.awaiting_receipt,
           a'.relay_receipts = [a.relay_receipts EXCEPT ![id] =
                                   IF a.hist[id].delivery = "queued" THEN {} ELSE @],
           UNCHANGED <<planned, outcomes, round, b, bDisk, drained, mailbox, wire>>
    PROVE  GripsGo
<1> DEFINE copies == IF a.hist[id].delivery = "queued" THEN a.relay_receipts[id] ELSE {}
           k == NewCall(op, id, text)
           h == Grip("recall", FramesIn(k.copies), k.copies, {k})
<1>a. NodeOK(a)
  BY TypeGroups DEF SenderOK
<1>k. /\ k.id = id /\ k.out = {} /\ k.copies = copies /\ k.delivery = NotSent
      /\ k.phase = IF a.hist[id].delivery = "queued" THEN "recall" ELSE "finish"
      /\ k.recalled = IF a.hist[id].delivery # "queued" THEN "none"
                      ELSE IF copies = {} THEN "no" ELSE "yes"
  BY DEF NewCall
<1>h. h.at = "recall" /\ h.copies = k.copies /\ h.frames = FramesIn(k.copies)
  BY DEF Grip
<1>r. /\ \A i \in Ids : i # id => a'.relay_receipts[i] = a.relay_receipts[i]
      /\ a'.relay_receipts[id] = IF a.hist[id].delivery = "queued" THEN {} ELSE a.relay_receipts[id]
  BY <1>a, NodeParts
<1> HIDE DEF k, h
<1>1. AllFrames' \subseteq AllFrames
  <2>1. NodeFrames(a') = NodeFrames(a)
    BY DEF NodeFrames
  <2>2. InTransit' = InTransit /\ RoundFrames' = RoundFrames
    BY TransitStays DEF RoundFrames
  <2>3. CallFrames' \subseteq CallFrames
    BY <1>k DEF CallFrames, Frames, k
  <2>4. QED BY <2>1, <2>2, <2>3, FramePlaces, FramePlacesNext
<1>2. \A i : Loose(i)' => Loose(i)
  BY DEF Loose, Again
<1>3. QueuesAreOwn'
  <2>1. \A i \in Ids : a'.relay_receipts[i] \subseteq a.relay_receipts[i]
    BY <1>r
  <2>2. QED BY <2>1 DEF GripInv, QueuesAreOwn
<1>4. \A j \in calls' : CallIsOwn(j)
  <2>1. \A c \in k.copies : IsOf(k.id, c.frame)
    BY <1>k DEF GripInv, QueuesAreOwn
  <2>2. CallIsOwn(k)
    BY <1>k, <2>1 DEF CallIsOwn
  <2>3. QED BY <2>2 DEF GripInv, k
<1>5. \A i \in Ids : NotYet(i)'
  <2>1. \A i \in Ids : NotYet(i)
    BY DEF GripInv
  <2>2. \A j \in calls' : (\E m \in calls : m.id = j.id) \/ a'.hist[j.id].kind # "none"
    BY <1>k DEF k
  <2>3. \A e \in AllFrames' : \E d \in AllFrames : d.id = e.id
    BY <1>1
  <2>4. QED BY <2>1, <2>2, <2>3, NotYetKept
<1>6. \A i : Outer(i) \subseteq Outer(i)' /\ \A x \in Outer(i)' : x \in Outer(i) \/ (x = h /\ Recalls(i, k))
  <2>1. \A i : ~Reposts(i, k)
    BY <1>k DEF Reposts
  <2>2. calls' = calls \cup {k}
    BY DEF k
  <2>3. ASSUME NEW i
        PROVE  /\ CallGrips(i, calls) \subseteq CallGrips(i, calls')
               /\ \A x \in CallGrips(i, calls') : x \in CallGrips(i, calls) \/ (x = h /\ Recalls(i, k))
    <3> DEFINE R(j) == Grip("recall", FramesIn(j.copies), j.copies, {j})
               P(j) == Grip("repost", Frames(j.out), j.delivery.copies, {j})
    <3>1. \A C : \A x : x \in CallGrips(i, C) <=>
            (\E j \in C : Recalls(i, j) /\ x = R(j)) \/ (\E j \in C : Reposts(i, j) /\ x = P(j))
      BY DEF CallGrips
    <3>2. R(k) = h
      BY DEF h
    <3> HIDE DEF R, P
    <3>3. CallGrips(i, calls) \subseteq CallGrips(i, calls')
      BY <2>2, <3>1
    <3>4. ASSUME NEW x \in CallGrips(i, calls') PROVE x \in CallGrips(i, calls) \/ (x = h /\ Recalls(i, k))
      BY <2>1, <2>2, <3>1, <3>2, <3>4
    <3>5. QED BY <3>3, <3>4
  <2>4. QED BY <2>3 DEF Outer
<1>7. ASSUME NEW i \in Ids PROVE GripGoes(i)
  <2>1. GripOK(i)
    BY DEF GripInv
  <2>2. /\ Idle("pending", {f \in a'.pending_sends : IsOf(i, f)}) = Idle("pending", {f \in a.pending_sends : IsOf(i, f)})
        /\ IdleOf(i, a'.held) = IdleOf(i, a.held) /\ HeldOf(i, a'.outbox) = HeldOf(i, a.outbox)
    OBVIOUS
  <2>3. CASE ~Recalls(i, k)
    <3>1. NodeGrips(i, a') \subseteq NodeGrips(i, a)
      <4>1. ReceiptGrips(a'.relay_receipts[i]) \subseteq ReceiptGrips(a.relay_receipts[i])
        BY <1>r DEF ReceiptGrips
      <4>2. QED BY <2>2, <4>1 DEF NodeGrips
    <3>2. Outer(i)' \subseteq Outer(i)
      BY <1>6, <2>3
    <3>3. AtHome(i, a', Outer(i)') /\ From(GripsOn(i)', GripsOn(i))
      BY <2>1, <3>1, <3>2, HomeKept
    <3>4. NothingNew(i) /\ (NoMessage(a', i) => NoMessage(a, i))
      BY <1>1, <1>2, NothingPosted DEF NoMessage
    <3>5. QED BY <2>1, <3>3, <3>4, GripKept
  <2>4. CASE Recalls(i, k)
    <3> DEFINE g == Grip("receipts", FramesIn(copies), copies, {})
    <3>1. i = id /\ a.hist[id].delivery = "queued" /\ copies # {} /\ copies = a.relay_receipts[id]
      BY <1>k, <2>4 DEF Recalls
    <3>2. g \in NodeGrips(i, a)
      BY <1>k, <2>4, <3>1 DEF NodeGrips, ReceiptGrips, Recalls
    <3>3. g.at = "receipts" /\ g.frames = h.frames /\ g.copies = h.copies
      BY <1>h, <1>k DEF Grip
    <3>4. \A x \in NodeGrips(i, a') : x \in NodeGrips(i, a) /\ x.at # "receipts"
      <4>1. ReceiptGrips(a'.relay_receipts[i]) = {}
        BY <1>r, <3>1 DEF ReceiptGrips
      <4>2. \A x \in NodeGrips(i, a') : x.at # "receipts" /\ x \in NodeGrips(i, a)
        BY <2>2, <4>1 DEF NodeGrips, Idle, Going, Grip
      <4>3. QED BY <4>2
    <3> HIDE DEF g
    <3>5. \A x \in NodeGrips(i, a) \cup Outer(i) : x = g
      BY <2>1, <3>2, GripsSplit DEF AtHome, Single
    <3>6. Outer(i) = {} /\ NodeGrips(i, a') = {}
      BY <2>1, <3>3, <3>4, <3>5, GripsSplit DEF AtHome
    <3>7. \A x \in Outer(i)' : x = h
      BY <1>6, <3>6
    <3>8. HeldOnce(i, a') /\ \A x \in Outer(i)' : Tied(i, a', x)
      BY <2>1, <3>2, <3>3, GripsSplit DEF AtHome, HeldOnce, Tied
    <3>9. AtHome(i, a', Outer(i)')
      BY <1>h, <3>6, <3>7, <3>8 DEF AtHome, Single
    <3>10. From(GripsOn(i)', GripsOn(i))
      BY <2>1, <3>2, <3>3, <3>6, <3>7, GripsSplit, GripsSplitNext DEF From
    <3>11. NothingNew(i) /\ (NoMessage(a', i) => NoMessage(a, i))
      BY <1>1, <1>2, NothingPosted DEF NoMessage
    <3>12. QED BY <2>1, <3>9, <3>10, <3>11, GripKept
  <2>5. QED BY <2>3, <2>4
<1>8. QED
  BY <1>1, <1>3, <1>4, <1>5, <1>7 DEF GripInv, GripsGo, GripGoes

\* An edit or an unsend begins.
LEMMA GripUser ==
    ASSUME GripInv, TypeInv, NEW id \in Ids, BeginEdit(id) \/ BeginUnsend(id) PROVE GripsGo
<1>a. NodeOK(a)
  BY TypeGroups DEF SenderOK
<1>2. ASSUME BeginEdit(id) PROVE GripsGo
  <2> DEFINE r == IF a.hist[id].delivery = "queued" THEN {} ELSE a.relay_receipts[id]
             t == a.hist[id].text + 1
  <2>1. a' = [a EXCEPT !.hist[id].text = t, !.relay_receipts[id] = r]
    BY <1>2 DEF BeginEdit
  <2>2. /\ UNCHANGED <<planned, outcomes, round, b, bDisk, drained, mailbox, wire>>
        /\ a.hist[id].kind = "text" /\ calls' = calls \cup {NewCall("edit", id, t)}
    BY <1>2 DEF BeginEdit, Locked, receiverVars, netVars
  <2> HIDE DEF r, t
  <2>3. /\ a'.hist = [a.hist EXCEPT ![id] = [a.hist[id] EXCEPT !.text = t]]
        /\ a'.pending_sends = a.pending_sends /\ a'.held = a.held /\ a'.outbox = a.outbox
        /\ a'.awaiting_receipt = a.awaiting_receipt
        /\ a'.relay_receipts = [a.relay_receipts EXCEPT ![id] = r]
    BY <1>a, <2>1, NodeParts
  <2>4. \A i \in Ids : a'.hist[i].kind = a.hist[i].kind
    BY <1>a, <2>3, NodeParts DEF Sent
  <2>5. a'.relay_receipts = [a.relay_receipts EXCEPT ![id] =
                                   IF a.hist[id].delivery = "queued" THEN {} ELSE @]
    BY <2>3 DEF r
  <2>6. QED BY <2>2, <2>3, <2>4, <2>5, GripBegin
<1>3. ASSUME BeginUnsend(id) PROVE GripsGo
  <2> DEFINE r == IF a.hist[id].delivery = "queued" THEN {} ELSE a.relay_receipts[id]
  <2>1. a' = [a EXCEPT !.relay_receipts[id] = r]
    BY <1>3 DEF BeginUnsend
  <2>2. /\ UNCHANGED <<planned, outcomes, round, b, bDisk, drained, mailbox, wire>>
        /\ a.hist[id].kind = "text" /\ calls' = calls \cup {NewCall("unsend", id, Blank)}
    BY <1>3 DEF BeginUnsend, Locked, receiverVars, netVars
  <2> HIDE DEF r
  <2>3. /\ a'.hist = a.hist
        /\ a'.pending_sends = a.pending_sends /\ a'.held = a.held /\ a'.outbox = a.outbox
        /\ a'.awaiting_receipt = a.awaiting_receipt
        /\ a'.relay_receipts = [a.relay_receipts EXCEPT ![id] = r]
    BY <1>a, <2>1, NodeParts
  <2>4. a'.relay_receipts = [a.relay_receipts EXCEPT ![id] =
                                   IF a.hist[id].delivery = "queued" THEN {} ELSE @]
    BY <2>3 DEF r
  <2>5. QED BY <2>2, <2>3, <2>4, GripBegin
<1>4. QED
  BY <1>2, <1>3

\* One copy is recalled: as long as every answer was a yes, the call's grip is
\* on the copies that are left.
LEMMA GripRecall ==
    ASSUME GripInv, TypeInv, NEW k \in calls, NEW c \in k.copies, RecallCopy(k, c) PROVE GripsGo
<1>t. NetOK /\ ReceiverOK
  BY TypeGroups
<1>k. k \in Call /\ CallIsOwn(k) /\ k.id \in Ids /\ c \in Copy
  BY DEF TypeInv, TypeOK, Call, GripInv
<1>1. PICK ok \in BOOLEAN :
        /\ calls' = (calls \ {k}) \cup {[k EXCEPT !.copies = @ \ {c}, !.recalled = IF ok THEN @ ELSE "no"]}
        /\ mailbox' = mailbox \/ (RecallOk(c) /\ mailbox' = [mailbox EXCEPT ![c.relay] = Recalled(c)])
        /\ ok => RecallOk(c) /\ mailbox' = [mailbox EXCEPT ![c.relay] = Recalled(c)]
  BY DEF RecallCopy
<1>2. /\ UNCHANGED <<a, planned, outcomes, round, wire, drained, b, bDisk>> /\ k.phase = "recall"
  BY DEF RecallCopy, receiverVars
<1> DEFINE m == [k EXCEPT !.copies = @ \ {c}, !.recalled = IF ok THEN @ ELSE "no"]
           h == CallGrip(m)
<1>m. /\ m.id = k.id /\ m.phase = "recall" /\ m.copies = k.copies \ {c} /\ m.out = k.out
      /\ m.delivery = k.delivery /\ m.recalled = (IF ok THEN k.recalled ELSE "no")
  BY <1>k, <1>2 DEF Call
<1> HIDE DEF m
<1>3. calls' = (calls \ {k}) \cup {m}
  BY <1>1 DEF m
<1>4. /\ \A r \in Relays : FramesOf(mailbox'[r]) \subseteq FramesOf(mailbox[r])
      /\ \A i : \A r \in Relays : Once(i, mailbox[r]) => Once(i, mailbox'[r])
  <2>1. CASE mailbox' = mailbox
    BY <2>1
  <2>2. CASE RecallOk(c) /\ mailbox' = [mailbox EXCEPT ![c.relay] = Recalled(c)]
    <3>1. \A s \in Relays : mailbox'[s] = IF s = c.relay THEN Recalled(c) ELSE mailbox[s]
      BY <1>t, <2>2 DEF NetOK
    <3>2. FramesOf(Recalled(c)) \subseteq FramesOf(mailbox[c.relay])
      BY <1>k, <1>t, <2>2, RecallTakesOne
    <3>3. \A i : Once(i, mailbox[c.relay]) => Once(i, Recalled(c))
      BY <1>k, <1>t, <2>2, RecallOnce
    <3>4. QED BY <3>1, <3>2, <3>3
  <2>3. QED BY <1>1, <2>1, <2>2
<1>5. InTransit' \subseteq InTransit /\ Elsewhere' \subseteq Elsewhere /\ AllFrames' \subseteq AllFrames
  <2>1. InTransit' \subseteq InTransit
    BY <1>2, <1>4 DEF InTransit
  <2>2. CallFrames' \subseteq CallFrames
    BY <1>3, <1>m DEF CallFrames
  <2>3. RoundFrames' = RoundFrames /\ NodeFrames(a') = NodeFrames(a)
    BY <1>2 DEF RoundFrames
  <2>4. QED
    BY <1>2, <2>1, <2>2, <2>3, FramePlaces, FramePlacesNext DEF Elsewhere
<1>6. QueuesAreOwn' /\ \A j \in calls' : CallIsOwn(j)
  <2>1. CallIsOwn(m)
    BY <1>k, <1>m, <1>2 DEF CallIsOwn
  <2>2. QED BY <1>2, <1>3, <2>1 DEF GripInv, QueuesAreOwn
<1>7. \A i \in Ids : NotYet(i)'
  <2>1. \A i \in Ids : NotYet(i)
    BY DEF GripInv
  <2>2. \A j \in calls' : \E l \in calls : l.id = j.id
    BY <1>3, <1>m
  <2>3. \A e \in AllFrames' : \E d \in AllFrames : d.id = e.id
    BY <1>5
  <2>4. QED BY <1>2, <2>1, <2>2, <2>3, NotYetKept
<1>8. \A i : \A x \in Outer(i)' :
        \/ x \in Outer(i) /\ (x.at \in {"recall", "repost"} => x.by # {k})
        \/ (Recalls(i, m) \/ Reposts(i, m)) /\ x = h
  <2>1. \A j \in calls' : (j \in calls /\ j # k) \/ j = m
    BY <1>3
  <2>2. QED BY <1>2, <1>6, <2>1, CallMoves
<1>9. \A i : ~Reposts(i, m) /\ (Recalls(i, m) => ok /\ i = k.id /\ Recalls(i, k))
  <2>1. k.out = {} /\ "no" # "yes"
    BY <1>k, <1>2 DEF CallIsOwn
  <2>2. ok => c.relay # Handed
    BY <1>1, DeliveryAssumption DEF RecallOk
  <2>3. ok /\ Recallable(m.copies) => Recallable(k.copies)
    BY <1>m, <2>2 DEF Recallable
  <2>4. QED BY <1>m, <1>2, <2>1, <2>3 DEF Reposts, Recalls
<1>w. \A i : Loose(i)' <=> Loose(i)
  BY <1>2 DEF Loose, Again
<1>u. \A i : Unseen(i) => Unseen(i)'
  BY <1>2 DEF Unseen, Received
<1>10. ASSUME NEW i \in Ids PROVE GripGoes(i)
  <2>1. GripOK(i)
    BY DEF GripInv
  <2>2. CASE ~Recalls(i, m)
    <3>1. Outer(i)' \subseteq Outer(i)
      BY <1>8, <1>9, <2>2
    <3>2. NothingNew(i)
      BY <1>4, <1>5, <1>w, <1>u DEF NothingNew
    <3>3. QED BY <1>2, <2>1, <3>1, <3>2, GripStays
  <2>3. CASE Recalls(i, m)
    <3> DEFINE g == CallGrip(k)
    <3>1. ok /\ i = k.id /\ Recalls(i, k)
      BY <1>9, <2>3
    <3>2. /\ g \in Outer(i) /\ g \in GripsOn(i) /\ g.by = {k} /\ g.at = "recall"
          /\ g.copies = k.copies /\ g.frames = FramesIn(k.copies)
      BY <1>k, <1>2, <3>1, CallGripped
    <3>3. h.at = "recall" /\ h.copies = k.copies \ {c} /\ h.frames = FramesIn(k.copies \ {c})
      BY <1>m DEF CallGrip, Grip
    <3> HIDE DEF g, h
    <3>4. Firm(i, g) /\ (\A r \in Relays : Once(i, mailbox[r])) /\ ~NoMessage(a, i)
      BY <2>1, <3>2 DEF GripOK, NoMessage, Absent
    <3>5. /\ \A f \in Elsewhere : ~IsOf(i, f)
          /\ \A x \in a.held : ~IsOf(i, x.frame)
          /\ \A x \in GripsOn(i) : x = g
      BY <2>1, <3>2, AtHand DEF GripInv
    <3>6. \A x \in Outer(i)' : x = h
      BY <1>8, <3>2, <3>5, GripsSplit, <2>1
    <3>7. NodeGrips(i, a') = {}
      <4>1. AtHome(i, a, Outer(i))
        BY <2>1, GripsSplit
      <4>2. QED BY <1>2, <3>2, <4>1, NotAtHome
    <3>8. \A x \in GripsOn(i)' : x = h
      BY <3>6, <3>7, GripsSplitNext
    \* All copies are of one frame, and the mailbox of this one is empty of it.
    <3>9. IsOf(i, c.frame) /\ \A d \in k.copies : d.frame = c.frame /\ d.relay \in Relays
      BY <1>k, <3>1, <3>2, <3>4 DEF Firm, WellMade, CallIsOwn
    <3>10. \A e \in AllFrames : IsOf(i, e) => e = c.frame
      BY <3>2, <3>4, <3>9 DEF Firm, Sole, FramesIn
    <3>11. /\ \A s \in Relays : mailbox'[s] = IF s = c.relay THEN Recalled(c) ELSE mailbox[s]
           /\ \A f \in FramesOf(Recalled(c)) : ~IsOf(i, f)
           /\ c.relay \in Relays /\ c.frame \in FramesOf(mailbox[c.relay])
      <4>1. RecallOk(c) /\ mailbox' = [mailbox EXCEPT ![c.relay] = Recalled(c)]
        BY <1>1, <3>1
      <4>2. \A s \in Relays : mailbox'[s] = IF s = c.relay THEN Recalled(c) ELSE mailbox[s]
        BY <1>t, <4>1 DEF NetOK
      <4>3. \A f \in FramesOf(Recalled(c)) : ~IsOf(i, f)
        BY <1>k, <1>t, <3>4, <3>9, <4>1, RecallOnce DEF RecallOk
      <4>4. c.relay \in Relays /\ c.frame \in FramesOf(mailbox[c.relay])
        BY <4>1 DEF RecallOk, Places, FramesOf
      <4>5. QED BY <4>2, <4>3, <4>4
    <3>12. Named(i, h)'
      <4> SUFFICES ASSUME NEW r \in Relays, NEW f \in FramesOf(mailbox'[r]), IsOf(i, f)
                   PROVE  \E d \in h.copies : d.relay = r
        BY DEF Named
      <4>1. r # c.relay /\ f \in FramesOf(mailbox[r])
        BY <3>11
      <4>2. PICK d \in g.copies : d.relay = r
        BY <3>4, <4>1 DEF Firm, Named
      <4>3. QED BY <3>2, <3>3, <4>1, <4>2
    <3>13. Sole(i, h)'
      <4> SUFFICES ASSUME NEW e \in AllFrames', IsOf(i, e) PROVE e \in h.frames
        BY DEF Sole
      <4>1. e = c.frame
        BY <1>5, <3>10
      <4>2. CASE k.copies \ {c} # {}
        BY <3>3, <3>9, <4>1, <4>2 DEF FramesIn
      <4>3. CASE k.copies \ {c} = {}
        <5>1. Intact(g)
          BY <3>2, <3>11, <4>3 DEF Intact
        <5>2. Unseen(i)
          BY <3>4, <5>1 DEF Firm
        <5>3. e \notin Elsewhere' /\ e \notin Frames(a'.held)
          BY <1>2, <1>5, <3>5 DEF Frames
        <5>4. e \notin wire'
          BY <1>2, <3>4 DEF Firm, Loose
        <5>5. e \notin FramesOf(drained')
          BY <1>2, <5>2 DEF Unseen
        <5>6. \A r \in Relays : e \notin FramesOf(mailbox'[r])
          BY <3>3, <3>12, <4>3 DEF Named
        <5>7. e \notin InTransit'
          BY <5>4, <5>5, <5>6 DEF InTransit
        <5>8. QED
          BY <5>3, <5>7, FramePlacesNext DEF Elsewhere, NodeFrames
      <4>4. QED BY <4>2, <4>3
    <3>14. WellMade(i, h)'
      BY <3>3, <3>9 DEF WellMade, FramesIn
    <3>15. Intact(h)' => Unseen(i)'
      <4>1. Intact(h)' => Intact(g)
        BY <1>4, <3>2, <3>3, <3>9, <3>11 DEF Intact
      <4>2. QED BY <1>u, <3>4, <4>1 DEF Firm
    <3>16. HeldOnce(i, a)' /\ Tied(i, a, h)'
      BY <1>2, <3>5 DEF HeldOnce, Tied
    <3>17. Firm(i, h)'
      BY <1>w, <3>4, <3>12, <3>13, <3>14, <3>15, <3>16 DEF Firm
    <3>18. Single(GripsOn(i))' /\ \A x \in GripsOn(i)' : Firm(i, x)'
      BY <3>8, <3>17 DEF Single
    <3>19. \A r \in Relays : Once(i, mailbox'[r])
      BY <1>4, <3>4
    <3>20. Regripped(i)
      BY <1>5, <3>2 DEF Regripped
    <3>21. QED
      BY <1>2, <3>4, <3>16, <3>18, <3>19, <3>20 DEF GripGoes, GripOK, NoMessage, Once
  <2>4. QED BY <2>2, <2>3
<1>11. QED
  BY <1>5, <1>6, <1>7, <1>10 DEF GripInv, GripsGo, GripGoes

\* A step under the sender's lock that neither grips nor seals a message.
LEMMA SealedStays ==
    ASSUME NEW i, GripOK(i), UNCHANGED <<planned, outcomes, round, wire, mailbox, drained, b, bDisk>>,
           a'.pending_sends = a.pending_sends, a'.outbox = a.outbox,
           a'.awaiting_receipt = a.awaiting_receipt, a'.relay_receipts[i] = a.relay_receipts[i],
           \A h \in a'.held : IsOf(i, h.frame) => h \in a.held, Outer(i)' \subseteq Outer(i),
           \A e \in AllFrames' : IsOf(i, e) => e \in AllFrames,
           NoMessage(a', i) => NoMessage(a, i)
    PROVE  GripGoes(i)
<1>1. IdleOf(i, a'.held) \subseteq IdleOf(i, a.held)
  BY DEF IdleOf
<1>2. NodeGrips(i, a') \subseteq NodeGrips(i, a)
  BY <1>1 DEF NodeGrips, Idle, Frames
<1>3. Loose(i)' => Loose(i)
  BY DEF Loose, Again
<1>4. NothingNew(i)
  BY <1>3, NothingPosted
<1>5. QED
  BY <1>2, <1>4, GripStays

\* A grip without copies: nothing of the message is on its way.
LEMMA NoCopies ==
    ASSUME NEW id, NEW g, Firm(id, g), g.copies = {}
    PROVE  Unseen(id) /\ \A e \in InTransit : ~IsOf(id, e)
<1>1. Unseen(id) /\ ~Loose(id) /\ Named(id, g)
  BY DEF Firm, Intact
<1>2. \A e \in wire \cup FramesOf(drained) : ~IsOf(id, e)
  BY <1>1 DEF Loose, Unseen
<1>3. \A r \in Relays : \A e \in FramesOf(mailbox[r]) : ~IsOf(id, e)
  BY <1>1 DEF Named
<1>4. QED BY <1>1, <1>2, <1>3 DEF InTransit

\* The held copy of a message that a finish finds: there is no other.
LEMMA FoundHeld ==
    ASSUME GripInv, NEW id \in Ids, HeldUnsent(a, id) # {}
    PROVE  \E h \in a.held :
             /\ HeldUnsent(a, id) = {h} /\ IsOf(id, h.frame) /\ ~h.in_flight
             /\ \A j \in a.held : IsOf(id, j.frame) => j = h
             /\ \A e \in Elsewhere \cup InTransit : ~IsOf(id, e)
             /\ Outer(id) = {} /\ Unseen(id) /\ ~Loose(id) /\ ~NoMessage(a, id)
             /\ \A x \in NodeGrips(id, a) : x = Grip("held", {h.frame}, {}, {})
<1>1. HeldUnsent(a, id) = IdleOf(id, a.held)
  BY DEF HeldUnsent, IdleOf, IsOf, IsMessage
<1>2. PICK h \in a.held : h \in HeldUnsent(a, id) /\ IsOf(id, h.frame) /\ ~h.in_flight
  BY <1>1 DEF IdleOf
<1>3. GripOK(id)
  BY DEF GripInv
<1>4. \A j \in a.held : IsOf(id, j.frame) => j = h
  BY <1>2, <1>3 DEF GripOK, HeldOnce
<1> DEFINE g == Grip("held", {h.frame}, {}, {})
<1>5. g.at = "held" /\ g.copies = {} /\ g \in GripsOn(id)
  BY <1>1, <1>2 DEF GripsOn, NodeGrips, Idle, Frames, Grip
<1> HIDE DEF g
<1>6. (\A e \in Elsewhere : ~IsOf(id, e)) /\ \A x \in GripsOn(id) : x = g
  BY <1>3, <1>5, AtHand DEF GripInv
<1>7. Firm(id, g) /\ ~NoMessage(a, id)
  BY <1>3, <1>5 DEF GripOK, NoMessage, Absent
<1>8. Unseen(id) /\ \A e \in InTransit : ~IsOf(id, e)
  BY <1>5, <1>7, NoCopies
<1>9. Outer(id) = {} /\ \A x \in NodeGrips(id, a) : x = g
  BY <1>3, <1>5, <1>6, GripsSplit DEF AtHome
<1>10. HeldUnsent(a, id) = {h}
  BY <1>1, <1>2, <1>4 DEF IdleOf
<1>11. ~Loose(id)
  BY <1>7 DEF Firm
<1>12. QED
  BY <1>2, <1>4, <1>6, <1>7, <1>8, <1>9, <1>10, <1>11 DEF g

\* The message a recall in full took back: there is nothing left of it.
LEMMA FoundRecalled ==
    ASSUME GripInv, NEW k \in calls, k.id \in Ids, RecallDone(k), k.recalled = "yes"
    PROVE  /\ \A e \in AllFrames : ~IsOf(k.id, e)
           /\ NodeGrips(k.id, a) = {} /\ \A x \in Outer(k.id) : x.at = "recall" /\ x.by = {k}
           /\ Unseen(k.id) /\ ~Loose(k.id) /\ ~NoMessage(a, k.id)
<1> DEFINE g == CallGrip(k)
           id == k.id
<1>1. GripOK(id) /\ CallIsOwn(k)
  BY DEF GripInv
<1>2. k.phase = "recall" /\ k.copies = {}
  BY <1>1 DEF RecallDone, CallIsOwn
<1>3. Recalls(id, k)
  BY <1>2 DEF Recalls, Recallable
<1>4. /\ g \in Outer(id) /\ g \in GripsOn(id) /\ g.by = {k} /\ g.at = "recall"
      /\ g.copies = {} /\ g.frames = {}
  BY <1>1, <1>2, <1>3, CallGripped DEF FramesIn
<1> HIDE DEF g
<1>5. Firm(id, g) /\ ~NoMessage(a, id)
  BY <1>1, <1>4 DEF GripOK, NoMessage, Absent
<1>6. Outer(id) = {g} /\ NodeGrips(id, a) = {}
  BY <1>1, <1>4, GripsSplit, NotAtHome
<1>7. QED
  BY <1>4, <1>5, <1>6, NoCopies DEF Firm, Sole

\* What an edit's finish does to the grips: the held copy is sealed again, or
\* the call has the new frame to post.
LEMMA GripFinishEdit ==
    ASSUME GripInv, TypeInv, NEW k \in calls, FinishEdit(k)
    PROVE  /\ GripInv'
           /\ \A i \in Ids : IF i = k.id /\ (HeldUnsent(a, i) # {} \/ k.recalled = "yes")
                             THEN Remade(i, k.text) ELSE Regripped(i)
           /\ \A d \in AllFrames' : \/ d \in AllFrames \/ d = Message(k.id, k.text, a.seal + 1)
                                    \/ /\ d = Edit(k.id, k.text, a.seal + 1)
                                       /\ HeldUnsent(a, k.id) = {} /\ k.recalled # "yes"
<1> DEFINE s == a.seal + 1
           id == k.id
           mine == HeldUnsent(a, id)
           f == Message(id, k.text, s)
           e == Edit(id, k.text, s)
<1>a. NodeOK(a)
  BY TypeGroups DEF SenderOK
<1>k. k \in Call /\ CallIsOwn(k) /\ id \in Ids
  BY DEF TypeInv, TypeOK, Call, GripInv
<1>o. k.out = {} /\ k.delivery = NotSent /\ k.copies = {}
  BY <1>k DEF FinishEdit, RecallDone, CallIsOwn
<1>u. /\ UNCHANGED <<planned, outcomes, round, b, bDisk, drained, mailbox, wire>>
      /\ RecallDone(k)
  BY DEF FinishEdit, Locked, receiverVars, netVars
<1>f. IsOf(id, f) /\ IsMessage(f) /\ f.id = id /\ (\A i : IsOf(i, f) => i = id)
      /\ (\A i : ~IsOf(i, e)) /\ ~IsMessage(e) /\ e.id = id
  BY DEF Message, Edit, IsOf, IsMessage
<1>c. a.hist[id].kind # "none"
  BY Composed
<1>w. /\ a'.hist = a.hist /\ a'.pending_sends = a.pending_sends /\ a'.outbox = a.outbox
      /\ a'.awaiting_receipt = a.awaiting_receipt /\ a'.relay_receipts = a.relay_receipts
      /\ a'.held = IF mine = {} THEN a.held
                   ELSE (a.held \ mine) \cup {[h EXCEPT !.frame = f] : h \in mine}
  <2> DEFINE held == (a.held \ mine) \cup {[h EXCEPT !.frame = f] : h \in mine}
  <2>1. \/ mine = {} /\ a' = [a EXCEPT !.seal = s]
        \/ mine # {} /\ a' = [a EXCEPT !.seal = s, !.held = held]
    BY DEF FinishEdit
  <2> HIDE DEF held, s, mine
  <2>2. CASE mine = {} /\ a' = [a EXCEPT !.seal = s]
    BY <1>a, <2>2, NodeParts
  <2>3. CASE mine # {} /\ a' = [a EXCEPT !.seal = s, !.held = held]
    <3>1. /\ a'.hist = a.hist /\ a'.pending_sends = a.pending_sends /\ a'.outbox = a.outbox
          /\ a'.awaiting_receipt = a.awaiting_receipt /\ a'.relay_receipts = a.relay_receipts
          /\ a'.held = held
      BY <1>a, <2>3, NodeParts
    <3>2. QED BY <2>3, <3>1 DEF held
  <2>4. QED BY <2>1, <2>2, <2>3
<1> DEFINE Goal ==
             /\ GripInv'
             /\ \A i \in Ids : IF i = id /\ (mine # {} \/ k.recalled = "yes")
                               THEN Remade(i, k.text) ELSE Regripped(i)
             /\ \A d \in AllFrames' : \/ d \in AllFrames \/ d = f
                                      \/ d = e /\ mine = {} /\ k.recalled # "yes"
<1>g. SUFFICES Goal
  BY DEF Goal
<1>t. f.text = k.text
  BY DEF Message
<1> HIDE DEF f, e, Goal
<1>q. QueuesAreOwn'
  BY <1>u, <1>w DEF GripInv, QueuesAreOwn
<1>l. \A i : Loose(i)' <=> Loose(i)
  BY <1>u, <1>w DEF Loose, Again
<1>r. InTransit' = InTransit /\ RoundFrames' = RoundFrames
  BY <1>u, TransitStays DEF RoundFrames
<1>y. \A i \in Ids : NotYet(i)
  BY DEF GripInv
<1>ok. \A i \in Ids : GripOK(i)
  BY DEF GripInv
<1>1. CASE mine # {}
  <2>1. calls' = calls \ {k}
    BY <1>1 DEF FinishEdit, CallEnds
  <2>2. \A j \in calls' : CallIsOwn(j)
    BY <2>1 DEF GripInv
  <2>3. \A i : Outer(i)' \subseteq Outer(i)
    <3>1. \A j \in calls' : (j \in calls /\ j # k) \/ j = k
      BY <2>1
    <3>2. k \notin calls'
      BY <2>1
    <3>3. QED BY <1>u, <2>2, <3>1, <3>2, CallMoves
  <2>4. PICK h \in a.held :
           /\ mine = {h} /\ IsOf(id, h.frame) /\ ~h.in_flight
           /\ \A j \in a.held : IsOf(id, j.frame) => j = h
           /\ \A d \in Elsewhere \cup InTransit : ~IsOf(id, d)
           /\ Outer(id) = {} /\ Unseen(id) /\ ~Loose(id) /\ ~NoMessage(a, id)
           /\ \A x \in NodeGrips(id, a) : x = Grip("held", {h.frame}, {}, {})
    BY <1>1, <1>k, FoundHeld
  <2> DEFINE h2 == [h EXCEPT !.frame = f]
             g2 == Grip("held", {f}, {}, {})
  <2>5. h2.frame = f /\ ~h2.in_flight
    <3>1. h \in HeldSend
      BY <1>a, NodeParts
    <3>2. QED BY <2>4, <3>1 DEF HeldSend
  <2>6. a'.held = (a.held \ {h}) \cup {h2}
    BY <1>1, <1>w, <2>4
  <2> HIDE DEF h2, mine
  <2>7. \A d \in AllFrames' : d \in Elsewhere \cup InTransit \/ d = f \/ \E j \in a.held \ {h} : d = j.frame
    <3>1. Frames(a'.held) = {j.frame : j \in a.held \ {h}} \cup {f}
      BY <2>5, <2>6 DEF Frames
    <3>2. CallFrames' \subseteq CallFrames
      BY <2>1 DEF CallFrames
    <3>3. QED BY <1>u, <1>w, <1>r, <3>1, <3>2, FramePlacesNext DEF Elsewhere, NodeFrames
  <2>8. \A d \in AllFrames' : d \in AllFrames \/ d = f
    BY <2>7 DEF AllFrames, AtWork, Elsewhere, RoundFrames, CallFrames, Frames
  <2>9. \A i \in Ids : NotYet(i)'
    <3>1. \A j \in calls' : j \in calls
      BY <2>1
    <3>2. QED BY <1>c, <1>f, <1>w, <1>y, <2>8, <3>1, NotYetKept
  <2>10. ASSUME NEW i \in Ids, i # id PROVE GripGoes(i)
    <3>1. ~IsOf(i, f)
      BY <1>f, <2>10
    <3>2. \A j \in a'.held : IsOf(i, j.frame) => j \in a.held
      BY <2>5, <2>6, <3>1
    <3>3. \A d \in AllFrames' : IsOf(i, d) => d \in AllFrames
      BY <2>8, <3>1
    <3>4. NoMessage(a', i) => NoMessage(a, i)
      BY <1>w DEF NoMessage
    <3>5. GripOK(i)
      BY <1>ok
    <3>6. QED BY <1>u, <1>w, <2>3, <3>2, <3>3, <3>4, <3>5, SealedStays
  <2>11. GripOK(id)' /\ \A d \in AllFrames' : IsOf(id, d) => d = f
    <3>1. \A j \in a'.held : IsOf(id, j.frame) => j = h2
      BY <2>4, <2>6
    <3>2. \A x \in NodeGrips(id, a') : x = g2
      <4>1. \A x \in Idle("pending", {d \in a'.pending_sends : IsOf(id, d)}) : FALSE
        BY <1>w, <2>4 DEF Idle, Elsewhere
      <4>2. \A x \in Going("outbox", HeldOf(id, a'.outbox)) : FALSE
        BY <1>w, <2>4 DEF Going, HeldOf, Elsewhere, Frames
      <4>3. \A x \in ReceiptGrips(a'.relay_receipts[id]) : x.at = "receipts" /\ x \in NodeGrips(id, a)
        BY <1>w DEF NodeGrips, ReceiptGrips, Grip
      <4>4. \A x \in ReceiptGrips(a'.relay_receipts[id]) : FALSE
        <5>1. Grip("held", {h.frame}, {}, {}).at = "held"
          BY DEF Grip
        <5>2. QED BY <2>4, <4>3, <5>1
      <4>5. \A x \in Idle("held", Frames(IdleOf(id, a'.held))) : x = g2
        <5>1. \A j \in IdleOf(id, a'.held) : j.frame = f
          BY <2>5, <3>1 DEF IdleOf
        <5>2. QED BY <5>1 DEF Idle, Frames
      <4>6. QED BY <4>1, <4>2, <4>4, <4>5 DEF NodeGrips
    <3>3. g2.frames = {f} /\ g2.copies = {}
      BY DEF Grip
    <3> HIDE DEF g2
    <3>4. Outer(id)' = {}
      BY <2>3, <2>4
    <3>5. AtHome(id, a', Outer(id)')
      BY <2>5, <3>1, <3>2, <3>4 DEF AtHome, HeldOnce, Single, Tied
    <3>6. \A x \in GripsOn(id)' : x.frames = {f} /\ x.copies = {}
      BY <3>2, <3>3, <3>4, GripsSplitNext
    <3>7. \A d \in AllFrames' : IsOf(id, d) => d = f
      BY <2>4, <2>7
    <3>8. ~NoMessage(a', id) /\ ~Loose(id)' /\ \A d \in InTransit : ~IsOf(id, d)
      BY <1>l, <1>w, <2>4 DEF NoMessage
    <3>9. QED
      BY <1>f, <1>u, <2>4, <3>5, <3>6, <3>7, <3>8, GripMade
  <2>12. GripInv'
    BY <1>q, <2>2, <2>9, <2>10, <2>11 DEF GripInv, GripGoes
  <2>13. Remade(id, k.text)
    BY <1>t, <2>11 DEF Remade
  <2>14. QED
    BY <1>1, <2>8, <2>10, <2>12, <2>13 DEF GripGoes, Goal
<1>2. ASSUME mine = {},
             NEW o, o = IF k.recalled = "yes" THEN [frame |-> f, route |-> "RelayOnly", done |-> "CallerRecords"]
                        ELSE [frame |-> e, route |-> "DirectThenRelay", done |-> "Caller"],
             calls' = (calls \ {k}) \cup {[k EXCEPT !.phase = "send", !.out = {o}]}
      PROVE  Goal
  <2> DEFINE m == [k EXCEPT !.phase = "send", !.out = {o}]
  <2>m. /\ m.id = id /\ m.phase = "send" /\ m.out = {o} /\ m.copies = {} /\ m.delivery = NotSent
    BY <1>k, <1>o DEF Call
  <2>c. calls' = (calls \ {k}) \cup {m}
    BY <1>2
  <2> HIDE DEF m, mine
  <2>o. /\ o.frame.id = id /\ o.frame = (IF k.recalled = "yes" THEN f ELSE e)
        /\ k.recalled = "yes" => o.done = "CallerRecords" /\ o.route = "RelayOnly"
        /\ k.recalled # "yes" => o.done = "Caller"
    BY <1>2, <1>f
  <2>n. NotSent.via = "Failed" /\ NotSent.copies = {}
    BY DEF NotSent
  <2>2. \A j \in calls' : CallIsOwn(j)
    <3>1. CallIsOwn(m)
      BY <1>f, <2>m, <2>n, <2>o DEF CallIsOwn, CopiesOf
    <3>2. QED BY <2>c, <3>1 DEF GripInv
  <2>3. \A i : \A x \in Outer(i)' :
          \/ x \in Outer(i) /\ (x.at \in {"recall", "repost"} => x.by # {k})
          \/ Reposts(i, m) /\ x = CallGrip(m)
    <3>1. \A j \in calls' : (j \in calls /\ j # k) \/ j = m
      BY <2>c
    <3>2. \A i : ~Recalls(i, m)
      BY <2>m DEF Recalls
    <3>3. QED BY <1>u, <2>2, <3>1, <3>2, CallMoves
  <2>4. \A i : Reposts(i, m) => i = id /\ k.recalled = "yes"
    BY <2>m, <2>o DEF Reposts
  <2>8. \A d \in AllFrames' : d \in AllFrames \/ d = o.frame
    <3>1. NodeFrames(a') = NodeFrames(a)
      BY <1>2, <1>w DEF NodeFrames
    <3>2. CallFrames' \subseteq CallFrames \cup {o.frame}
      BY <2>c, <2>m DEF CallFrames, Frames
    <3>3. QED BY <1>u, <1>r, <3>1, <3>2, FramePlaces, FramePlacesNext
  <2>9. \A i \in Ids : NotYet(i)'
    <3>1. \A j \in calls' : \E l \in calls : l.id = j.id
      BY <2>c, <2>m
    <3>2. \A d \in AllFrames' : (\E j \in AllFrames : j.id = d.id) \/ a'.hist[d.id].kind # "none"
      BY <1>c, <1>w, <2>o, <2>8
    <3>3. QED BY <1>w, <1>y, <3>1, <3>2, NotYetKept
  <2>10. ASSUME NEW i \in Ids, ~IsOf(i, o.frame), Outer(i)' \subseteq Outer(i) PROVE GripGoes(i)
    <3>2. \A j \in a'.held : IsOf(i, j.frame) => j \in a.held
      BY <1>2, <1>w
    <3>3. \A d \in AllFrames' : IsOf(i, d) => d \in AllFrames
      BY <2>8, <2>10
    <3>4. NoMessage(a', i) => NoMessage(a, i)
      BY <1>w DEF NoMessage
    <3>5. GripOK(i)
      BY <1>ok
    <3>6. QED BY <1>u, <1>w, <2>10, <3>2, <3>3, <3>4, <3>5, SealedStays
  <2>11. ASSUME NEW i \in Ids, i # id \/ k.recalled # "yes" PROVE GripGoes(i)
    <3>1. ~IsOf(i, o.frame)
      BY <1>f, <2>o, <2>11
    <3>2. Outer(i)' \subseteq Outer(i)
      BY <2>3, <2>4, <2>11
    <3>3. QED BY <2>10, <3>1, <3>2
  <2>12. ASSUME k.recalled = "yes" PROVE GripOK(id)' /\ \A d \in AllFrames' : IsOf(id, d) => d = f
    <3>1. /\ \A d \in AllFrames : ~IsOf(id, d)
          /\ NodeGrips(id, a) = {} /\ \A x \in Outer(id) : x.at = "recall" /\ x.by = {k}
          /\ Unseen(id) /\ ~Loose(id) /\ ~NoMessage(a, id)
      BY <1>k, <1>u, <2>12, FoundRecalled
    <3>2. \A x \in Outer(id)' : x = CallGrip(m)
      BY <2>3, <3>1
    <3>3. CallGrip(m).frames = {f} /\ CallGrip(m).copies = {}
      BY <2>m, <2>n, <2>o, <2>12 DEF CallGrip, Grip, Frames
    <3>4. NodeGrips(id, a') = {}
      BY <1>2, <1>w, <3>1 DEF NodeGrips
    <3>5. \A j \in a'.held : ~IsOf(id, j.frame)
      BY <1>2, <1>w, <3>1 DEF AllFrames, AtWork, Frames
    <3>6. AtHome(id, a', Outer(id)')
      <4>1. \A x \in Outer(id)' : x.at \notin {"pending", "held", "outbox", "receipts"}
        BY <2>m, <3>2 DEF CallGrip, Grip
      <4>2. QED BY <3>2, <3>4, <3>5, <4>1 DEF AtHome, HeldOnce, Single, Tied
    <3>7. \A x \in GripsOn(id)' : x.frames = {f} /\ x.copies = {}
      BY <3>2, <3>3, <3>4, GripsSplitNext
    <3>8. (\A d \in AllFrames' : IsOf(id, d) => d = f) /\ \A d \in InTransit : ~IsOf(id, d)
      BY <2>8, <2>o, <2>12, <3>1 DEF AllFrames
    <3>9. ~NoMessage(a', id) /\ ~Loose(id)'
      BY <1>l, <1>w, <3>1 DEF NoMessage
    <3>10. QED
      BY <1>f, <1>u, <3>1, <3>6, <3>7, <3>8, <3>9, GripMade
  <2>13. \A i \in Ids : GripOK(i)'
    BY <2>11, <2>12 DEF GripGoes
  <2>14. GripInv'
    BY <1>q, <2>2, <2>9, <2>13 DEF GripInv
  <2>15. k.recalled = "yes" => Remade(id, k.text)
    BY <1>t, <2>12 DEF Remade
  <2>16. QED
    BY <1>2, <2>8, <2>11, <2>14, <2>15, <2>o DEF GripGoes, Goal, mine
<1>3. CASE mine = {} /\ k.recalled = "yes"
  <2>1. calls' = (calls \ {k}) \cup {[k EXCEPT !.phase = "send",
                     !.out = {[frame |-> f, route |-> "RelayOnly", done |-> "CallerRecords"]}]}
    BY <1>3 DEF FinishEdit, CallSends, f
  <2>2. QED BY <1>2, <1>3, <2>1
<1>4. CASE mine = {} /\ k.recalled # "yes"
  <2>1. calls' = (calls \ {k}) \cup {[k EXCEPT !.phase = "send",
                     !.out = {[frame |-> e, route |-> "DirectThenRelay", done |-> "Caller"]}]}
    BY <1>4 DEF FinishEdit, CallSends, e
  <2>2. QED BY <1>2, <1>4, <2>1
<1>5. QED BY <1>1, <1>3, <1>4

\* A call that ends leaves no grip of its own.
LEMMA CallLeaves ==
    ASSUME GripInv, UNCHANGED <<planned, outcomes, round>>, NEW k \in calls, calls' = calls \ {k}
    PROVE  /\ \A j \in calls' : CallIsOwn(j)
           /\ \A i : \A x \in Outer(i)' : x \in Outer(i) /\ (x.at \in {"recall", "repost"} => x.by # {k})
<1>1. \A j \in calls' : CallIsOwn(j)
  BY DEF GripInv
<1>2. (\A j \in calls' : (j \in calls /\ j # k) \/ j = k) /\ k \notin calls'
  OBVIOUS
<1>3. \A i : \A x \in Outer(i)' : x \in Outer(i) /\ (x.at \in {"recall", "repost"} => x.by # {k})
  BY <1>1, <1>2, CallMoves
<1>4. QED BY <1>1, <1>3

\* An unsend's finish: the message is gone, with every copy of it, or it is a
\* tombstone and the call has its Unsend frame to send.
LEMMA GripFinishUnsend ==
    ASSUME GripInv, TypeInv, NEW k \in calls, FinishUnsend(k) PROVE GripsGo
<1> DEFINE id == k.id
           mine == HeldUnsent(a, id)
           u == Unsend(id, a.seal + 1)
           o == [frame |-> u, route |-> "DirectThenRelay", done |-> "Caller"]
           m == [k EXCEPT !.phase = "send", !.out = {o}]
           taken == mine # {} \/ (Present(a.hist[id]) /\ k.recalled = "yes")
           sends == mine = {} /\ Present(a.hist[id]) /\ k.recalled # "yes"
<1>a. NodeOK(a)
  BY TypeGroups DEF SenderOK
<1>k. k \in Call /\ CallIsOwn(k) /\ id \in Ids
  BY DEF TypeInv, TypeOK, Call, GripInv
<1>u. /\ UNCHANGED <<planned, outcomes, round, b, bDisk, drained, mailbox, wire>>
      /\ RecallDone(k)
  BY DEF FinishUnsend, Locked, receiverVars, netVars
<1>o. k.out = {} /\ k.delivery = NotSent /\ k.copies = {}
  BY <1>k, <1>u DEF RecallDone, CallIsOwn
<1>f. (\A i : ~IsOf(i, u)) /\ ~IsMessage(u) /\ u.id = id /\ u.kind = "Unsend"
  BY DEF Unsend, IsOf, IsMessage
<1>c. a.hist[id].kind # "none"
  BY Composed
<1>w. /\ a'.pending_sends = a.pending_sends /\ a'.outbox = a.outbox
      /\ a'.awaiting_receipt = a.awaiting_receipt /\ a'.relay_receipts = a.relay_receipts
      /\ a'.held = a.held \ mine
      /\ \A i \in Ids : i # id => a'.hist[i].kind = a.hist[i].kind
      /\ taken \/ a'.hist[id].kind \in {a.hist[id].kind, "deleted"}
      /\ a'.hist[id].kind # "none"
      /\ IF sends THEN calls' = (calls \ {k}) \cup {m} ELSE calls' = calls \ {k}
  <2> DEFINE g1 == [a.hist EXCEPT ![id] = Gone]
             g2 == [a.hist EXCEPT ![id] = make_tombstone(a.hist[id])]
             held == a.held \ mine
             s == a.seal + 1
  <2>0. /\ (\A i \in Ids : i # id => g1[i] = a.hist[i] /\ g2[i] = a.hist[i])
        /\ g1[id].kind = "gone" /\ g2[id].kind = "deleted"
    BY <1>a, <1>k, NodeParts DEF Gone, make_tombstone
  <2>1. \/ mine # {} /\ a' = [a EXCEPT !.held = held, !.hist = g1] /\ calls' = calls \ {k}
        \/ mine = {} /\ ~Present(a.hist[id]) /\ a' = a /\ calls' = calls \ {k}
        \/ mine = {} /\ Present(a.hist[id]) /\ k.recalled = "yes" /\ a' = [a EXCEPT !.hist = g1] /\ calls' = calls \ {k}
        \/ sends /\ a' = [a EXCEPT !.hist = g2, !.seal = s] /\ calls' = (calls \ {k}) \cup {m}
    BY <1>a DEF FinishUnsend, CallEnds, CallSends, NodeOK, Node
  <2> HIDE DEF g1, g2, held, s, mine, m
  <2>2. CASE mine # {} /\ a' = [a EXCEPT !.held = held, !.hist = g1] /\ calls' = calls \ {k}
    <3>1. /\ a'.pending_sends = a.pending_sends /\ a'.outbox = a.outbox
          /\ a'.awaiting_receipt = a.awaiting_receipt /\ a'.relay_receipts = a.relay_receipts
          /\ a'.held = held /\ a'.hist = g1
      BY <1>a, <2>2, NodeParts
    <3>2. QED BY <2>0, <2>2, <3>1 DEF held
  <2>3. CASE mine = {} /\ ~Present(a.hist[id]) /\ a' = a /\ calls' = calls \ {k}
    BY <1>c, <2>3
  <2>4. CASE mine = {} /\ Present(a.hist[id]) /\ k.recalled = "yes" /\ a' = [a EXCEPT !.hist = g1] /\ calls' = calls \ {k}
    <3>1. /\ a'.pending_sends = a.pending_sends /\ a'.outbox = a.outbox
          /\ a'.awaiting_receipt = a.awaiting_receipt /\ a'.relay_receipts = a.relay_receipts
          /\ a'.held = a.held /\ a'.hist = g1
      BY <1>a, <2>4, NodeParts
    <3>2. QED BY <2>0, <2>4, <3>1
  <2>5. CASE sends /\ a' = [a EXCEPT !.hist = g2, !.seal = s] /\ calls' = (calls \ {k}) \cup {m}
    <3>1. /\ a'.pending_sends = a.pending_sends /\ a'.outbox = a.outbox
          /\ a'.awaiting_receipt = a.awaiting_receipt /\ a'.relay_receipts = a.relay_receipts
          /\ a'.held = a.held /\ a'.hist = g2
      BY <1>a, <2>5, NodeParts
    <3>2. QED BY <2>0, <2>5, <3>1
  <2>6. QED BY <2>1, <2>2, <2>3, <2>4, <2>5
<1>m. /\ m.id = id /\ m.phase = "send" /\ m.out = {o} /\ m.copies = {} /\ m.delivery = NotSent
      /\ o.frame = u /\ o.done = "Caller"
  BY <1>k, <1>o DEF Call
<1> HIDE DEF m, o, u, mine
<1>n. NotSent.via = "Failed" /\ NotSent.copies = {}
  BY DEF NotSent
<1>p. /\ \A j \in calls' : CallIsOwn(j)
      /\ \A i : \A x \in Outer(i)' : x \in Outer(i) /\ (x.at \in {"recall", "repost"} => x.by # {k})
  <2>1. CASE ~sends
    <3>1. calls' = calls \ {k} /\ UNCHANGED <<planned, outcomes, round>>
      BY <1>u, <1>w, <2>1
    <3>2. QED BY <3>1, CallLeaves
  <2>2. CASE sends
    <3>1. calls' = (calls \ {k}) \cup {m}
      BY <1>w, <2>2
    <3>2. CallIsOwn(m)
      BY <1>f, <1>m, <1>n DEF CallIsOwn, CopiesOf
    <3>3. \A j \in calls' : CallIsOwn(j)
      BY <3>1, <3>2 DEF GripInv
    <3>4. \A i : ~Recalls(i, m) /\ ~Reposts(i, m)
      BY <1>m DEF Recalls, Reposts
    <3>5. \A j \in calls' : (j \in calls /\ j # k) \/ j = m
      BY <3>1
    <3>6. \A i : \A x \in Outer(i)' :
              \/ x \in Outer(i) /\ (x.at \in {"recall", "repost"} => x.by # {k})
              \/ m \in calls' /\ (Recalls(i, m) \/ Reposts(i, m)) /\ x = CallGrip(m)
      BY <1>u, <3>3, <3>5, CallMoves
    <3>7. QED BY <3>3, <3>4, <3>6
  <2>3. QED BY <2>1, <2>2
<1>q. QueuesAreOwn'
  BY <1>u, <1>w DEF GripInv, QueuesAreOwn
<1>h. a'.held \subseteq a.held
  BY <1>w
<1>e. \A d \in AllFrames' : d \in AllFrames \/ d = u
  <2>1. NodeFrames(a') \subseteq NodeFrames(a)
    BY <1>h, <1>w DEF NodeFrames, Frames
  <2>2. CallFrames' \subseteq CallFrames \cup {u}
    BY <1>m, <1>w DEF CallFrames, Frames
  <2>3. InTransit' = InTransit /\ RoundFrames' = RoundFrames
    BY <1>u, TransitStays DEF RoundFrames
  <2>4. QED BY <1>u, <2>1, <2>2, <2>3, FramePlaces, FramePlacesNext
<1>y. \A i \in Ids : NotYet(i)'
  <2>1. \A j \in calls' : \E l \in calls : l.id = j.id
    BY <1>m, <1>w
  <2>2. \A d \in AllFrames' : (\E j \in AllFrames : j.id = d.id) \/ a'.hist[d.id].kind # "none"
    BY <1>e, <1>f, <1>w
  <2>3. (\A i \in Ids : NotYet(i)) /\ \A i \in Ids : a'.hist[i].kind = "none" => a.hist[i].kind = "none"
    BY <1>w DEF GripInv
  <2>4. QED BY <1>w, <2>1, <2>2, <2>3, NotYetKept
<1>1. ASSUME NEW i \in Ids, i # id \/ ~taken PROVE GripGoes(i)
  <2>1. GripOK(i)
    BY DEF GripInv
  <2>2. Outer(i)' \subseteq Outer(i)
    BY <1>p
  <2>3. \A j \in a'.held : IsOf(i, j.frame) => j \in a.held
    BY <1>h
  <2>4. \A d \in AllFrames' : IsOf(i, d) => d \in AllFrames
    BY <1>e, <1>f
  <2>5. NoMessage(a', i) => NoMessage(a, i)
    <3>1. CASE i # id
      BY <1>w, <3>1 DEF NoMessage
    <3>2. CASE i = id
      <4>1. a'.hist[i].kind \in {a.hist[i].kind, "deleted"}
        BY <1>w, <1>1, <3>2
      <4>2. QED BY <4>1 DEF NoMessage
    <3>3. QED BY <3>1, <3>2
  <2>6. QED BY <1>u, <1>w, <2>1, <2>2, <2>3, <2>4, <2>5, SealedStays
<1>2. ASSUME taken PROVE GripGoes(id)
  <2>1. /\ GripsOn(id)' = {} /\ Unseen(id) /\ \A d \in AllFrames : IsOf(id, d) => d \notin AllFrames'
    <3>1. CASE mine # {}
      <4>1. PICK h \in a.held :
               /\ mine = {h} /\ IsOf(id, h.frame) /\ ~h.in_flight
               /\ \A j \in a.held : IsOf(id, j.frame) => j = h
               /\ \A d \in Elsewhere \cup InTransit : ~IsOf(id, d)
               /\ Outer(id) = {} /\ Unseen(id) /\ ~Loose(id) /\ ~NoMessage(a, id)
               /\ \A x \in NodeGrips(id, a) : x = Grip("held", {h.frame}, {}, {})
        BY <1>k, <3>1, FoundHeld DEF mine
      <4>2. \A j \in a'.held : ~IsOf(id, j.frame)
        BY <1>w, <4>1
      <4>3. Outer(id)' = {}
        BY <1>p, <4>1
      <4>4. NodeGrips(id, a') = {}
        <5>1. Idle("pending", {d \in a'.pending_sends : IsOf(id, d)}) = {}
          BY <1>w, <4>1 DEF Idle, Elsewhere
        <5>2. Going("outbox", HeldOf(id, a'.outbox)) = {}
          <6>1. \A p \in a'.outbox : ~IsOf(id, p.frame)
            BY <1>w, <4>1 DEF Elsewhere, Frames
          <6>2. HeldOf(id, a'.outbox) = {}
            BY <6>1 DEF HeldOf
          <6>3. QED BY <6>2 DEF Going
        <5>3. \A x \in ReceiptGrips(a'.relay_receipts[id]) : x.at = "receipts" /\ x \in NodeGrips(id, a)
          BY <1>w DEF NodeGrips, ReceiptGrips, Grip
        <5>4. Grip("held", {h.frame}, {}, {}).at = "held"
          BY DEF Grip
        <5>5. ReceiptGrips(a'.relay_receipts[id]) = {}
          BY <4>1, <5>3, <5>4
        <5>6. Idle("held", Frames(IdleOf(id, a'.held))) = {}
          BY <4>2 DEF Idle, Frames, IdleOf
        <5>7. QED BY <5>1, <5>2, <5>5, <5>6 DEF NodeGrips
      <4>5. \A d \in AllFrames' : ~IsOf(id, d)
        <5>1. Frames(a'.held) = {j.frame : j \in a'.held}
          BY DEF Frames
        <5>2. CallFrames' \subseteq CallFrames \cup {u}
          BY <1>m, <1>w DEF CallFrames, Frames
        <5>3. InTransit' = InTransit /\ RoundFrames' = RoundFrames
          BY <1>u, TransitStays DEF RoundFrames
        <5>4. QED
          BY <1>f, <1>u, <1>w, <4>1, <4>2, <5>1, <5>2, <5>3, FramePlacesNext DEF Elsewhere, NodeFrames
      <4>6. QED BY <4>1, <4>3, <4>4, <4>5, GripsSplitNext
    <3>2. CASE mine = {}
      <4>1. k.recalled = "yes"
        BY <1>2, <3>2
      <4>2. /\ \A d \in AllFrames : ~IsOf(id, d)
            /\ NodeGrips(id, a) = {} /\ \A x \in Outer(id) : x.at = "recall" /\ x.by = {k}
            /\ Unseen(id)
        BY <1>k, <1>u, <4>1, FoundRecalled
      <4>3. Outer(id)' = {}
        BY <1>p, <4>2
      <4>4. NodeGrips(id, a') = {}
        <5>1. a'.held = a.held
          BY <1>w, <3>2
        <5>2. QED BY <1>w, <4>2, <5>1 DEF NodeGrips
      <4>5. QED BY <4>2, <4>3, <4>4, GripsSplitNext
    <3>3. QED BY <3>1, <3>2
  <2>2. \A d \in AllFrames' : ~IsOf(id, d)
    BY <1>e, <1>f, <2>1
  <2>3. QED BY <1>u, <2>1, <2>2, GripGone
<1>3. \A i \in Ids : GripGoes(i)
  BY <1>1, <1>2
<1>4. QED
  BY <1>e, <1>f, <1>p, <1>q, <1>y, <1>3 DEF GripInv, GripsGo, GripGoes

\* A frame goes out that is not of this message.
LEMMA OthersQuiet ==
    ASSUME NetOK, NEW f \in Frame, NEW S, PostedOn(f, S), NEW id, ~IsOf(id, f),
           UNCHANGED <<drained, b, bDisk>>, \A e \in AllFrames' : IsOf(id, e) => e \in AllFrames,
           Loose(id)' => Loose(id)
    PROVE  NothingNew(id)
<1>1. /\ \A r \in Relays : mailbox[r] \in Seq(Frame)
      /\ \A r \in Relays : mailbox'[r] = IF r \in S THEN Append(mailbox[r], f) ELSE mailbox[r]
  BY DEF NetOK, PostedOn
<1>2. /\ \A r \in Relays : \A e \in FramesOf(mailbox'[r]) : IsOf(id, e) => e \in FramesOf(mailbox[r])
      /\ \A r \in Relays : Once(id, mailbox[r]) => Once(id, mailbox'[r])
  BY <1>1, OtherPosted
<1>3. Unseen(id) => Unseen(id)'
  BY DEF Unseen, Received
<1>4. QED
  BY <1>2, <1>3 DEF NothingNew

\* A message handed over: the sender has no grip on it any more.
LEMMA GripHanded ==
    ASSUME NEW id, GripsOn(id)' = {}, HeldOnce(id, a'), ~NoMessage(a', id)
    PROVE  GripGoes(id)
BY DEF GripGoes, Regripped, GripOK, HeldOnce, Single, NoMessage

\* The receipts of a delivery name the frame that was sent.
LEMMA DeliveriesOwn ==
    ASSUME NEW f, NEW d \in Deliveries(f) PROVE CopiesOf(d, f)
<1>1. CASE d = NotSent
  BY <1>1 DEF NotSent, CopiesOf
<1>2. CASE d = [via |-> "Direct", copies |-> {}]
  BY <1>2 DEF CopiesOf
<1>3. ASSUME NEW took, d = [via |-> "Relay", copies |-> Copies(f, took)] PROVE CopiesOf(d, f)
  <2>1. \A c \in Copies(f, took) : c.frame = f
    BY CopiesTook
  <2>2. d.via = "Relay" /\ d.copies = Copies(f, took)
    BY <1>3
  <2>3. QED BY <2>1, <2>2 DEF CopiesOf
<1>4. QED BY <1>1, <1>2, <1>3 DEF Deliveries

\* A caller's frame goes out.
LEMMA GripRunCall ==
    ASSUME RecallSafe, GripInv, TypeInv, NEW k \in calls, NEW o \in k.out, RunCall(k, o) PROVE GripsGo
<1> DEFINE id == k.id
           f == o.frame
<1>t. NetOK
  BY TypeGroups
<1>k. k \in Call /\ CallIsOwn(k) /\ id \in Ids /\ k.out \in SUBSET Outbound
  BY DEF TypeInv, TypeOK, Call, GripInv
<1>f. f \in Frame /\ f.id = id
  BY <1>k DEF Outbound, CallIsOwn
<1>u. UNCHANGED <<a, planned, outcomes, round, drained, b, bDisk>> /\ k.phase = "send"
  BY DEF RunCall, receiverVars
<1>o. k.out = {o} /\ k.copies = {} /\ k.delivery.copies = {}
  BY <1>k, <1>u DEF CallIsOwn, NotSent
<1>1. PICK d \in Deliveries(f) :
         /\ Run(f, o.route, d)
         /\ calls' = (calls \ {k}) \cup {[k EXCEPT !.phase = "apply", !.delivery = d]}
  BY DEF RunCall
<1> DEFINE m == [k EXCEPT !.phase = "apply", !.delivery = d]
<1>m. /\ m.id = id /\ m.phase = "apply" /\ m.out = {o} /\ m.copies = {} /\ m.delivery = d
      /\ calls' = (calls \ {k}) \cup {m}
  BY <1>k, <1>o, <1>1 DEF Call
<1> HIDE DEF m, f
<1>2. CopiesOf(d, f) /\ \A c \in d.copies : c.frame = f
  BY DeliveriesOwn DEF CopiesOf
<1>3. \/ /\ o.route = "DirectThenRelay" /\ wire' = wire \cup {f} /\ mailbox' = mailbox
         /\ d.via = "Direct" /\ d.copies = {}
      \/ /\ wire' = wire /\ d.via # "Direct" /\ (d.via = "Failed" => d.copies = {})
         /\ \E took \in SUBSET Relays : PostedOn(f, took) /\ d.copies = Copies(f, took)
  BY <1>1, RunIs
<1>4. PICK S \in SUBSET Relays : PostedOn(f, S) /\ (d.via = "Direct" \/ d.copies = Copies(f, S))
  <2>1. mailbox' = mailbox => PostedOn(f, {})
    BY DEF PostedOn
  <2>2. {} \in SUBSET Relays
    OBVIOUS
  <2>3. QED BY <1>3, <2>1, <2>2
<1>c. o.done = "CallerRecords" => IsMessage(f) /\ wire' = wire /\ d.via # "Direct"
  BY <1>k, <1>3 DEF CallIsOwn, f
<1>c2. o.done # "CallerRecords" => ~IsMessage(f)
  BY <1>k DEF CallIsOwn, f
<1>5. AllFrames' \subseteq AllFrames
  <2>1. InTransit' \subseteq InTransit \cup {f}
    BY <1>1, <1>f, <1>t, <1>u, RunAdds
  <2>2. CallFrames' \subseteq CallFrames /\ f \in CallFrames
    BY <1>m, <1>o DEF CallFrames, Frames, f
  <2>3. RoundFrames' = RoundFrames /\ NodeFrames(a') = NodeFrames(a)
    BY <1>u DEF RoundFrames
  <2>4. QED BY <1>u, <2>1, <2>2, <2>3, FramePlaces, FramePlacesNext
<1>6. \A j \in calls' : CallIsOwn(j)
  <2>1. CallIsOwn(m)
    BY <1>k, <1>m, <1>2, <1>c DEF CallIsOwn, f
  <2>2. QED BY <1>m, <2>1 DEF GripInv
<1>7. QueuesAreOwn'
  BY <1>u DEF GripInv, QueuesAreOwn
<1>8. \A i \in Ids : NotYet(i)'
  <2>1. \A j \in calls' : \E l \in calls : l.id = j.id
    BY <1>m
  <2>2. \A e \in AllFrames' : \E x \in AllFrames : x.id = e.id
    BY <1>5
  <2>3. \A i \in Ids : NotYet(i)
    BY DEF GripInv
  <2>4. QED BY <1>u, <2>1, <2>2, <2>3, NotYetKept
<1>9. \A i : \A x \in Outer(i)' :
        \/ x \in Outer(i) /\ (x.at \in {"recall", "repost"} => x.by # {k})
        \/ Reposts(i, m) /\ x = CallGrip(m)
  <2>1. \A j \in calls' : (j \in calls /\ j # k) \/ j = m
    BY <1>m
  <2>2. \A i : ~Recalls(i, m)
    BY <1>m DEF Recalls
  <2>3. QED BY <1>u, <1>6, <2>1, <2>2, CallMoves
<1>10. \A i : Reposts(i, m) => i = id /\ o.done = "CallerRecords"
  BY <1>m DEF Reposts
<1>11. \A i : (IsOf(i, f) => i = id /\ o.done = "CallerRecords") /\ (o.done = "CallerRecords" => IsOf(id, f))
  BY <1>c, <1>c2, <1>f DEF IsOf
<1>12. \A i : (~IsOf(i, f) \/ o.done = "CallerRecords") /\ Loose(i)' => Loose(i)
  <2>1. Again' = Again
    BY <1>u DEF Again
  <2>2. wire' = wire \/ wire' = wire \cup {f}
    BY <1>3
  <2>3. QED BY <1>u, <1>c, <2>1, <2>2 DEF Loose
<1>13. ASSUME NEW i \in Ids, ~IsOf(i, f) PROVE GripGoes(i)
  <2>1. GripOK(i)
    BY DEF GripInv
  <2>2. Outer(i)' \subseteq Outer(i)
    BY <1>9, <1>10, <1>11, <1>13
  <2>3. Loose(i)' => Loose(i)
    BY <1>12, <1>13
  <2>4. NothingNew(i)
    BY <1>t, <1>f, <1>u, <1>4, <1>5, <1>13, <2>3, OthersQuiet
  <2>5. QED BY <1>u, <2>1, <2>2, <2>4, GripStays
<1>14. ASSUME o.done = "CallerRecords" PROVE GripGoes(id)
  <2> DEFINE g == CallGrip(k)
             h == CallGrip(m)
  <2>1. GripOK(id)
    BY <1>k DEF GripInv
  <2>2. Reposts(id, k)
    BY <1>14 DEF Reposts
  <2>3. g \in Outer(id) /\ g \in GripsOn(id) /\ g.at = "repost" /\ g.by = {k} /\ g.copies = {} /\ g.frames = {f}
    <3>1. Frames(k.out) = {f}
      BY <1>o DEF Frames, f
    <3>2. QED BY <1>k, <1>o, <1>u, <2>2, <3>1, CallGripped
  <2>4. h.frames = {f} /\ h.copies = Copies(f, S) /\ h.at = "repost"
    <3>1. Frames(m.out) = {f}
      BY <1>m DEF Frames, f
    <3>2. QED BY <1>m, <1>4, <1>c, <1>14, <3>1 DEF CallGrip, Grip
  <2> HIDE DEF g, h
  <2>5. Outer(id) = {g} /\ NodeGrips(id, a) = {} /\ \A j \in a.held : ~IsOf(id, j.frame)
    <3>1. AtHome(id, a, Outer(id))
      BY <2>1, GripsSplit
    <3>2. QED BY <2>3, <3>1, NotAtHome
  <2>6. \A x \in Outer(id)' : x = h
    BY <1>9, <2>3, <2>5 DEF h
  <2>7. AtHome(id, a', Outer(id)')
    BY <1>u, <2>4, <2>5, <2>6 DEF AtHome, HeldOnce, Single, Tied
  <2>8. \A x \in GripsOn(id)' : x.frames = {f} /\ x.copies = Copies(f, S)
    <3>1. \A x \in GripsOn(id)' : x = h
      BY <1>u, <2>5, <2>6, GripsSplitNext
    <3>2. QED BY <2>4, <3>1
  <2>9. /\ \A r \in Relays : mailbox[r] \in Seq(Frame)
        /\ \A r \in Relays : mailbox'[r] = IF r \in S THEN Append(mailbox[r], f) ELSE mailbox[r]
    BY <1>t, <1>4 DEF NetOK, PostedOn
  <2>10. Loose(id)' => Loose(id)
    BY <1>12, <1>14
  <2>11. \A e \in AllFrames' : IsOf(id, e) => e \in AllFrames
    BY <1>5
  <2>12. IsOf(id, f) /\ S \subseteq Relays /\ a' = a /\ UNCHANGED <<wire, drained, b, bDisk>>
    BY <1>u, <1>c, <1>11, <1>14
  <2> HIDE DEF id
  <2>13. QED
    BY ONLY <1>f, <2>1, <2>3, <2>7, <2>8, <2>9, <2>10, <2>11, <2>12, GripPosted
<1>15. \A i \in Ids : GripGoes(i)
  BY <1>11, <1>13, <1>14
<1>16. QED
  BY <1>5, <1>6, <1>7, <1>8, <1>15 DEF GripInv, GripsGo, GripGoes

\* A caller's frame is applied: it is held, or its copies are on record, or the
\* call ends with an error.
LEMMA GripApplyCall ==
    ASSUME GripInv, TypeInv, NEW k \in calls, NEW o \in k.out, ApplyCall(k, o) PROVE GripsGo
<1> DEFINE id == k.id
           f == o.frame
           failed == k.delivery.via = "Failed"
           holds == failed /\ ~HasRelayRoute
           records == o.done = "CallerRecords" /\ ~failed
<1>a. NodeOK(a)
  BY TypeGroups DEF SenderOK
<1>k. k \in Call /\ CallIsOwn(k) /\ id \in Ids
  BY DEF TypeInv, TypeOK, Call, GripInv
<1>u. /\ UNCHANGED <<planned, outcomes, round, b, bDisk, drained, mailbox, wire>> /\ k.phase = "apply"
      /\ calls' = calls \ {k}
  BY DEF ApplyCall, Locked, receiverVars, netVars, CallEnds
<1>o. k.out = {o} /\ f.id = id /\ CopiesOf(k.delivery, f)
  BY <1>k DEF CallIsOwn
<1>c. (o.done = "CallerRecords" => IsMessage(f) /\ k.delivery.via # "Direct") /\ (o.done # "CallerRecords" => ~IsMessage(f))
  BY <1>k DEF CallIsOwn
<1>w. /\ a'.hist = a.hist /\ a'.pending_sends = a.pending_sends /\ a'.outbox = a.outbox
      /\ a'.awaiting_receipt = a.awaiting_receipt
      /\ a'.held = IF holds THEN Hold(a.held, {f}) ELSE a.held
      /\ \A i \in Ids : a'.relay_receipts[i] = IF i = id /\ records THEN k.delivery.copies ELSE a.relay_receipts[i]
  <2> DEFINE held == IF holds THEN Hold(a.held, {f}) ELSE a.held
             r == [a.relay_receipts EXCEPT ![id] = IF records THEN k.delivery.copies ELSE @]
  <2>0. \A i \in Ids : r[i] = IF i = id /\ records THEN k.delivery.copies ELSE a.relay_receipts[i]
    <3> HIDE DEF records
    <3>1. QED BY <1>a, <1>k, NodeParts
  <2>1. a' = [a EXCEPT !.held = held, !.relay_receipts = r]
    BY DEF ApplyCall
  <2> HIDE DEF held, r
  <2>2. /\ a'.hist = a.hist /\ a'.pending_sends = a.pending_sends /\ a'.outbox = a.outbox
        /\ a'.awaiting_receipt = a.awaiting_receipt /\ a'.held = held /\ a'.relay_receipts = r
    BY <1>a, <2>1, NodeParts
  <2>3. QED BY <2>0, <2>2 DEF held
<1> HIDE DEF f
<1>h. /\ \A j \in a'.held : j \in a.held \/ (j.frame = f /\ ~j.in_flight)
      /\ a.held \subseteq a'.held
  <2>1. \A j \in Hold(a.held, {f}) : j \in a.held \/ (j.frame = f /\ ~j.in_flight)
    BY HoldAdds
  <2>2. a.held \subseteq Hold(a.held, {f})
    BY HoldAdds
  <2>3. QED BY <1>w, <2>1, <2>2
<1>f. IsOf(id, f) <=> o.done = "CallerRecords"
  BY <1>c, <1>o DEF IsOf, f
<1>f2. \A i : IsOf(i, f) => i = id
  BY <1>o DEF IsOf, f
<1>d. \A c \in k.delivery.copies : c.frame = f
  BY <1>o DEF CopiesOf, f
<1> HIDE DEF holds, records, failed
<1>p. /\ \A j \in calls' : CallIsOwn(j)
      /\ \A i : \A x \in Outer(i)' : x \in Outer(i) /\ (x.at \in {"recall", "repost"} => x.by # {k})
  <2>1. calls' = calls \ {k} /\ UNCHANGED <<planned, outcomes, round>>
    BY <1>u
  <2>2. QED BY <2>1, CallLeaves
<1>q. QueuesAreOwn'
  <2>1. \A i \in Ids : \A c \in a'.relay_receipts[i] : IsOf(i, c.frame)
    <3>1. \A c \in k.delivery.copies : records => IsOf(id, c.frame)
      BY <1>d, <1>f DEF records
    <3>2. QED BY <1>w, <3>1 DEF GripInv, QueuesAreOwn
  <2>2. QED BY <1>u, <1>w, <2>1 DEF GripInv, QueuesAreOwn
<1>e. AllFrames' \subseteq AllFrames
  <2>1. f \in CallFrames /\ CallFrames' \subseteq CallFrames
    BY <1>o, <1>u DEF CallFrames, Frames, f
  <2>2. NodeFrames(a') \subseteq NodeFrames(a) \cup {f}
    BY <1>h, <1>w DEF NodeFrames, Frames
  <2>3. InTransit' = InTransit /\ RoundFrames' = RoundFrames
    BY <1>u, TransitStays DEF RoundFrames
  <2>4. QED BY <1>u, <2>1, <2>2, <2>3, FramePlaces, FramePlacesNext
<1>y. \A i \in Ids : NotYet(i)'
  <2>1. \A j \in calls' : \E l \in calls : l.id = j.id
    BY <1>u
  <2>2. \A d \in AllFrames' : \E j \in AllFrames : j.id = d.id
    BY <1>e
  <2>3. \A i \in Ids : NotYet(i)
    BY DEF GripInv
  <2>4. QED BY <1>w, <2>1, <2>2, <2>3, NotYetKept
<1>l. \A i : Loose(i)' => Loose(i)
  BY <1>u, <1>w DEF Loose, Again
<1>1. ASSUME NEW i \in Ids, i # id \/ ~records, ~IsOf(i, f) \/ ~holds PROVE GripGoes(i)
  <2>1. GripOK(i)
    BY DEF GripInv
  <2>2. Outer(i)' \subseteq Outer(i)
    BY <1>p
  <2>3. \A j \in a'.held : IsOf(i, j.frame) => j \in a.held
    BY <1>h, <1>w, <1>1
  <2>4. \A d \in AllFrames' : IsOf(i, d) => d \in AllFrames
    BY <1>e
  <2>5. NoMessage(a', i) => NoMessage(a, i)
    BY <1>w DEF NoMessage
  <2>6. a'.relay_receipts[i] = a.relay_receipts[i]
    BY <1>w, <1>1
  <2>7. QED BY <1>u, <1>w, <2>1, <2>2, <2>3, <2>4, <2>5, <2>6, SealedStays
<1>2. ASSUME o.done = "CallerRecords", holds \/ records PROVE GripGoes(id)
  <2> DEFINE g == CallGrip(k)
             X == Outer(id)
             Y == Outer(id)'
             m == a'
  <2>1. GripOK(id)
    BY <1>k DEF GripInv
  <2>2. g \in X /\ g.at = "repost" /\ g.by = {k} /\ g.copies = k.delivery.copies /\ g.frames = {f}
    <3>1. Frames(k.out) = {f} /\ Reposts(id, k)
      BY <1>2, <1>o DEF Frames, Reposts, f
    <3>2. QED BY <1>k, <1>u, <3>1, CallGripped
  <2>3. AtHome(id, a, X) /\ Y \subseteq X /\ g \notin Y
    BY <1>p, <2>1, <2>2, GripsSplit
  <2>4. \A j \in a.held : ~IsOf(id, j.frame)
    BY <2>2, <2>3, NotAtHome
  <2>5. IsOf(id, f) /\ m.pending_sends = a.pending_sends /\ m.outbox = a.outbox
    BY <1>2, <1>f, <1>w
  <2>6. g.at \notin {"outbox", "todo", "finished"}
    BY <2>2
  <2>7. holds => /\ m.held = Hold(a.held, {f}) /\ m.relay_receipts[id] = a.relay_receipts[id]
                 /\ k.delivery.copies = {}
    BY <1>k, <1>o, <1>w DEF holds, records, failed, CopiesOf
  <2>8. records => m.held = a.held /\ m.relay_receipts[id] = g.copies
    BY <1>k, <1>w, <2>2 DEF holds, records, failed
  <2> HIDE DEF g, X, Y, m, id
  <2>9. AtHome(id, m, Y) /\ From(NodeGrips(id, m) \cup Y, NodeGrips(id, a) \cup X)
    <3>1. CASE holds
      <4>1. g.copies = {} /\ m.held = Hold(a.held, {f}) /\ m.relay_receipts[id] = a.relay_receipts[id]
        BY <2>2, <2>7, <3>1
      <4>2. f \in {f} /\ \A e \in {f} : IsOf(id, e) => e = f
        OBVIOUS
      <4>3. g \in X /\ g.frames = {f}
        BY <2>2
      <4>4. QED BY ONLY <2>3, <2>5, <2>6, <4>1, <4>2, <4>3, HoldHome
    <3>2. CASE records
      <4>1. m.relay_receipts[id] = g.copies /\ \A j \in m.held : IsOf(id, j.frame) => j \in a.held /\ ~j.in_flight
        BY <2>4, <2>8, <3>2
      <4>2. g \in X /\ g.frames = {f} /\ \A c \in g.copies : c.frame = f
        BY <1>d, <2>2
      <4>3. QED BY ONLY <2>3, <2>5, <4>1, <4>2, LandHome
    <3>3. QED BY <1>2, <3>1, <3>2
  <2>10. AtHome(id, a', Outer(id)') /\ From(GripsOn(id)', GripsOn(id))
    <3>1. GripsOn(id)' = NodeGrips(id, m) \cup Y /\ GripsOn(id) = NodeGrips(id, a) \cup X
      BY <2>1, GripsSplit, GripsSplitNext DEF m, X, Y
    <3>2. QED BY <2>9, <3>1 DEF m, Y
  <2>11. NothingNew(id)
    BY <1>e, <1>l, <1>u, NothingPosted
  <2>12. NoMessage(a', id) => NoMessage(a, id)
    BY <1>w DEF NoMessage
  <2>13. QED BY <2>1, <2>10, <2>11, <2>12, GripKept
<1>3. \A i \in Ids : GripGoes(i)
  <2>1. ASSUME NEW i \in Ids PROVE GripGoes(i)
    <3>1. CASE i = id /\ o.done = "CallerRecords" /\ (holds \/ records)
      BY <1>2, <3>1
    <3>2. CASE ~(i = id /\ o.done = "CallerRecords" /\ (holds \/ records))
      <4>1. (i # id \/ ~records) /\ (~IsOf(i, f) \/ ~holds)
        BY <1>f, <1>f2, <3>2 DEF records
      <4>2. QED BY <1>1, <4>1
    <3>3. QED BY <3>1, <3>2
  <2>2. QED BY <2>1
<1>4. QED
  BY <1>e, <1>p, <1>q, <1>y, <1>3 DEF GripInv, GripsGo, GripGoes

\* The grips of one place pass to another.
LEMMA GripPasses ==
    ASSUME NEW id, GripOK(id), a'.held = a.held, NEW from, NEW to,
           from \in {"outbox", "todo", "finished"} => to \in {"outbox", "todo", "finished"},
           \A x \in GripsOn(id)' :
              \/ x \in GripsOn(id) /\ x.at # from
              \/ \E g \in GripsOn(id) : g.at = from /\ x = Grip(to, g.frames, g.copies, g.by)
    PROVE  AtHome(id, a', Outer(id)') /\ From(GripsOn(id)', GripsOn(id))
<1>1. GripsOn(id)' = NodeGrips(id, a') \cup Outer(id)'
  BY GripsSplitNext
<1>2. \A x \in Outer(id)' : x.at \notin {"pending", "held", "outbox", "receipts"}
  BY DEF Outer, PlannedGrips, OutcomeGrips, RoundGrips, CallGrips, Idle, Going, FinishedGrips, Grip
<1>3. \A g, h \in GripsOn(id) : g = h
  BY DEF GripOK, Single
<1>4. Single(GripsOn(id)')
  BY <1>3 DEF Single
<1>5. From(GripsOn(id)', GripsOn(id))
  BY DEF From, Grip
<1>6. \A x \in GripsOn(id)' : Tied(id, a', x)
  <2> SUFFICES ASSUME NEW x \in GripsOn(id)', NEW h \in a'.held, IsOf(id, h.frame), h.in_flight
               PROVE  x.at \in {"outbox", "todo", "finished"}
    BY DEF Tied
  <2>1. \A g \in GripsOn(id) : g.at \in {"outbox", "todo", "finished"}
    BY DEF GripOK, Firm, Tied
  <2>2. \A g : Grip(to, g.frames, g.copies, g.by).at = to
    BY DEF Grip
  <2>3. QED BY <2>1, <2>2
<1>7. HeldOnce(id, a')
  BY DEF GripOK, HeldOnce
<1>8. QED
  BY <1>1, <1>2, <1>4, <1>5, <1>6, <1>7 DEF AtHome

\* What is composed is planned.
LEMMA GripPlan ==
    ASSUME GripInv, TypeInv, PlanPendingSends PROVE GripsGo
<1>a. NodeOK(a)
  BY TypeGroups DEF SenderOK
<1>u. /\ UNCHANGED <<outcomes, round, calls, b, bDisk, drained, mailbox, wire>>
      /\ planned = {} /\ planned' = a.pending_sends
  BY DEF PlanPendingSends, Locked, receiverVars, netVars
<1>w. /\ a'.hist = a.hist /\ a'.pending_sends = {} /\ a'.outbox = a.outbox /\ a'.held = a.held
      /\ a'.awaiting_receipt = a.awaiting_receipt /\ a'.relay_receipts = a.relay_receipts
  BY <1>a, NodeParts DEF PlanPendingSends
<1>e. AllFrames' \subseteq AllFrames
  <2>1. InTransit' = InTransit /\ RoundFrames' = RoundFrames /\ CallFrames' = CallFrames
    BY <1>u, TransitStays DEF RoundFrames, CallFrames
  <2>2. QED BY <1>u, <1>w, <2>1, FramePlaces, FramePlacesNext DEF NodeFrames
<1>q. QueuesAreOwn' /\ \A k \in calls' : CallIsOwn(k)
  BY <1>u, <1>w DEF GripInv, QueuesAreOwn
<1>y. \A i \in Ids : NotYet(i)'
  <2>1. \A d \in AllFrames' : \E j \in AllFrames : j.id = d.id
    BY <1>e
  <2>2. \A i \in Ids : NotYet(i)
    BY DEF GripInv
  <2>3. QED BY <1>u, <1>w, <2>1, <2>2, NotYetKept
<1>l. \A i : Loose(i)' => Loose(i)
  BY <1>u, <1>w DEF Loose, Again
<1>1. ASSUME NEW i \in Ids PROVE GripGoes(i)
  <2>1. GripOK(i)
    BY DEF GripInv
  <2> DEFINE S == {f \in a.pending_sends : IsOf(i, f)}
  <2>2. \A x \in GripsOn(i)' :
              \/ x \in GripsOn(i) /\ x.at # "pending"
              \/ \E g \in GripsOn(i) : g.at = "pending" /\ x = Grip("planned", g.frames, g.copies, g.by)
    <3>1. \A x \in PlannedGrips(i, planned') :
             \E g \in GripsOn(i) : g.at = "pending" /\ x = Grip("planned", g.frames, g.copies, g.by)
      <4>1. \A f \in S : Grip("pending", {f}, {}, {}) \in GripsOn(i)
        BY DEF GripsOn, NodeGrips, Idle
      <4>2. \A f \in S : LET g == Grip("pending", {f}, {}, {})
                         IN g.at = "pending" /\ Grip("planned", {f}, {}, {}) = Grip("planned", g.frames, g.copies, g.by)
        BY DEF Grip
      <4>3. PlannedGrips(i, planned') = Idle("planned", S)
        BY <1>u DEF PlannedGrips
      <4> HIDE DEF S
      <4>4. QED BY <4>1, <4>2, <4>3 DEF Idle
    <3>2. \A x \in NodeGrips(i, a') : x \in GripsOn(i) /\ x.at # "pending"
      BY <1>w DEF GripsOn, NodeGrips, Idle, Going, ReceiptGrips, Grip
    <3>3. \A x \in OutcomeGrips(i, outcomes) \cup RoundGrips(i, round) \cup CallGrips(i, calls) :
             x \in GripsOn(i) /\ x.at # "pending"
      BY DEF GripsOn, OutcomeGrips, RoundGrips, CallGrips, Going, FinishedGrips, Grip
    <3>4. GripsOn(i)' = NodeGrips(i, a') \cup PlannedGrips(i, planned') \cup OutcomeGrips(i, outcomes)
                            \cup RoundGrips(i, round) \cup CallGrips(i, calls)
      BY <1>u DEF GripsOn
    <3>5. QED BY <3>1, <3>2, <3>3, <3>4
  <2>3. AtHome(i, a', Outer(i)') /\ From(GripsOn(i)', GripsOn(i))
    BY <1>w, <2>1, <2>2, GripPasses
  <2>4. NothingNew(i)
    BY <1>e, <1>l, <1>u, NothingPosted
  <2>5. NoMessage(a', i) => NoMessage(a, i)
    BY <1>w DEF NoMessage
  <2>6. QED BY <2>1, <2>3, <2>4, <2>5, GripKept
<1>2. QED
  BY <1>e, <1>q, <1>y, <1>1 DEF GripInv, GripsGo, GripGoes

\* The outbox is taken as the next round.
LEMMA GripTakeOutbox ==
    ASSUME GripInv, TypeInv, TakeOutbox PROVE GripsGo
<1>a. NodeOK(a)
  BY TypeGroups DEF SenderOK
<1>u. /\ UNCHANGED <<planned, outcomes, calls, b, bDisk, drained, mailbox, wire>>
      /\ round.todo = {} /\ round.finished = {} /\ round'.todo = a.outbox /\ round'.finished = {}
  BY DEF TakeOutbox, Locked, receiverVars, netVars
<1>w. /\ a'.hist = a.hist /\ a'.pending_sends = a.pending_sends /\ a'.outbox = {} /\ a'.held = a.held
      /\ a'.awaiting_receipt = a.awaiting_receipt /\ a'.relay_receipts = a.relay_receipts
  BY <1>a, NodeParts DEF TakeOutbox
<1>e. AllFrames' \subseteq AllFrames
  <2>1. InTransit' = InTransit /\ CallFrames' = CallFrames
    BY <1>u, TransitStays DEF CallFrames
  <2>2. RoundFrames' = Frames(a.outbox) /\ Frames(a'.outbox) = {}
    BY <1>u, <1>w DEF RoundFrames, Frames
  <2>3. QED BY <1>u, <1>w, <2>1, <2>2, FramePlaces, FramePlacesNext DEF NodeFrames
<1>q. QueuesAreOwn' /\ \A k \in calls' : CallIsOwn(k)
  BY <1>u, <1>w DEF GripInv, QueuesAreOwn
<1>y. \A i \in Ids : NotYet(i)'
  <2>1. \A d \in AllFrames' : \E j \in AllFrames : j.id = d.id
    BY <1>e
  <2>2. \A i \in Ids : NotYet(i)
    BY DEF GripInv
  <2>3. QED BY <1>u, <1>w, <2>1, <2>2, NotYetKept
<1>l. \A i : Loose(i)' => Loose(i)
  BY <1>u, <1>w DEF Loose, Again
<1>1. ASSUME NEW i \in Ids PROVE GripGoes(i)
  <2>1. GripOK(i)
    BY DEF GripInv
  <2>2. \A x \in GripsOn(i)' :
              \/ x \in GripsOn(i) /\ x.at # "outbox"
              \/ \E g \in GripsOn(i) : g.at = "outbox" /\ x = Grip("todo", g.frames, g.copies, g.by)
    <3>1. \A x \in RoundGrips(i, round') :
             \E g \in GripsOn(i) : g.at = "outbox" /\ x = Grip("todo", g.frames, g.copies, g.by)
      <4>1. \A o \in HeldOf(i, a.outbox) : Grip("outbox", {o.frame}, {}, {o}) \in GripsOn(i)
        BY DEF GripsOn, NodeGrips, Going
      <4>2. \A o \in HeldOf(i, a.outbox) : LET g == Grip("outbox", {o.frame}, {}, {o})
                         IN g.at = "outbox" /\ Grip("todo", {o.frame}, {}, {o}) = Grip("todo", g.frames, g.copies, g.by)
        BY DEF Grip
      <4>3. RoundGrips(i, round') = Going("todo", HeldOf(i, a.outbox))
        BY <1>u DEF RoundGrips, FinishedGrips, FinishedOf
      <4>4. QED BY <4>1, <4>2, <4>3 DEF Going
    <3>2. \A x \in NodeGrips(i, a') : x \in GripsOn(i) /\ x.at # "outbox"
      BY <1>w DEF GripsOn, NodeGrips, Idle, Going, HeldOf, ReceiptGrips, Grip
    <3>3. \A x \in OutcomeGrips(i, outcomes) \cup PlannedGrips(i, planned) \cup CallGrips(i, calls) :
             x \in GripsOn(i) /\ x.at # "outbox"
      BY DEF GripsOn, OutcomeGrips, PlannedGrips, CallGrips, Idle, Grip
    <3>4. GripsOn(i)' = NodeGrips(i, a') \cup PlannedGrips(i, planned) \cup OutcomeGrips(i, outcomes)
                            \cup RoundGrips(i, round') \cup CallGrips(i, calls)
      BY <1>u DEF GripsOn
    <3>5. QED BY <3>1, <3>2, <3>3, <3>4
  <2>3. AtHome(i, a', Outer(i)') /\ From(GripsOn(i)', GripsOn(i))
    BY <1>w, <2>1, <2>2, GripPasses
  <2>4. NothingNew(i)
    BY <1>e, <1>l, <1>u, NothingPosted
  <2>5. NoMessage(a', i) => NoMessage(a, i)
    BY <1>w DEF NoMessage
  <2>6. QED BY <2>1, <2>3, <2>4, <2>5, GripKept
<1>2. QED
  BY <1>e, <1>q, <1>y, <1>1 DEF GripInv, GripsGo, GripGoes

\* The dial of one planned send, and the relays behind it.
LEMMA GripExecute ==
    ASSUME RecallSafe, GripInv, TypeInv, NEW f \in planned, ExecuteSend(f) PROVE GripsGo
<1> DEFINE id == f.id
<1>t. NetOK /\ \A r \in Relays : mailbox[r] \in Seq(Frame)
  BY TypeGroups DEF NetOK
<1>u. /\ UNCHANGED <<a, round, calls, b, bDisk, drained>> /\ planned' = planned \ {f}
  BY DEF ExecuteSend, receiverVars
<1>f. f \in Frame /\ id \in Ids /\ IsMessage(f) /\ \A i : IsOf(i, f) <=> i = id
  BY DEF TypeInv, TypeOK, GripInv, QueuesAreOwn, IsOf, Frame
<1>1. PICK delivered \in BOOLEAN, S \in SUBSET Relays :
         /\ PostedOn(f, S)
         /\ wire' = IF delivered THEN wire \cup {f} ELSE wire
         /\ outcomes' = outcomes \cup {[frame |-> f, delivered |-> delivered, copies |-> Copies(f, S)]}
  <2>1. PICK delivered \in BOOLEAN :
           /\ wire' = IF delivered THEN wire \cup {f} ELSE wire
           /\ \/ \E took \in SUBSET Relays, stray \in SUBSET Relays :
                    /\ Post(f, took, stray)
                    /\ outcomes' = outcomes \cup
                         {[frame |-> f, delivered |-> delivered, copies |-> Copies(f, took)]}
              \/ /\ delivered /\ mailbox' = mailbox
                 /\ outcomes' = outcomes \cup
                      {[frame |-> f, delivered |-> delivered, copies |-> {}]}
    BY DEF ExecuteSend
  <2>2. CASE \E took \in SUBSET Relays, stray \in SUBSET Relays :
                /\ Post(f, took, stray)
                /\ outcomes' = outcomes \cup
                     {[frame |-> f, delivered |-> delivered, copies |-> Copies(f, took)]}
    BY <2>1, <2>2, PostIs
  <2>3. CASE /\ mailbox' = mailbox
             /\ outcomes' = outcomes \cup {[frame |-> f, delivered |-> delivered, copies |-> {}]}
    <3>1. Copies(f, {}) = {} /\ PostedOn(f, {}) /\ {} \in SUBSET Relays
      BY <2>3 DEF Copies, PostedOn
    <3>2. QED BY <2>1, <2>3, <3>1
  <2>4. QED BY <2>1, <2>2, <2>3
<1> DEFINE o == [frame |-> f, delivered |-> delivered, copies |-> Copies(f, S)]
<1>o. /\ o.frame = f /\ o.delivered = delivered /\ o.copies = Copies(f, S)
      /\ outcomes' = outcomes \cup {o} /\ \A c \in o.copies : c.frame = f
  BY <1>1, CopiesTook
<1> HIDE DEF o
<1>2. AllFrames' \subseteq AllFrames
  <2>1. InTransit' \subseteq InTransit \cup {f}
    <3>1. \A r \in Relays : FramesOf(mailbox'[r]) \subseteq FramesOf(mailbox[r]) \cup {f}
      BY <1>t, <1>f, <1>1, QueueFrames DEF PostedOn
    <3>2. QED BY <1>u, <1>1, <3>1 DEF InTransit
  <2>2. CallFrames' = CallFrames /\ RoundFrames' = RoundFrames /\ NodeFrames(a') = NodeFrames(a)
    BY <1>u DEF CallFrames, RoundFrames
  <2>3. Frames(outcomes') \subseteq Frames(outcomes) \cup {f}
    BY <1>o DEF Frames
  <2>4. QED BY <1>u, <2>1, <2>2, <2>3, FramePlaces, FramePlacesNext
<1>q. QueuesAreOwn' /\ \A k \in calls' : CallIsOwn(k)
  <2>1. \A p \in outcomes' : IsMessage(p.frame) /\ \A c \in p.copies : c.frame = p.frame
    BY <1>f, <1>o DEF GripInv, QueuesAreOwn
  <2>2. QED BY <1>u, <2>1 DEF GripInv, QueuesAreOwn
<1>y. \A i \in Ids : NotYet(i)'
  <2>1. \A d \in AllFrames' : \E j \in AllFrames : j.id = d.id
    BY <1>2
  <2>2. \A i \in Ids : NotYet(i)
    BY DEF GripInv
  <2>3. QED BY <1>u, <2>1, <2>2, NotYetKept
<1>l. \A i : (i # id \/ ~delivered) /\ Loose(i)' => Loose(i)
  <2>1. Again' = Again
    BY <1>u DEF Again
  <2>2. QED BY <1>u, <1>f, <1>1, <1>o, <2>1 DEF Loose
<1>3. ASSUME NEW i \in Ids, i # id PROVE GripGoes(i)
  <2>1. GripOK(i)
    BY DEF GripInv
  <2>2. Outer(i)' \subseteq Outer(i)
    <3>1. PlannedGrips(i, planned') \subseteq PlannedGrips(i, planned)
      BY <1>u DEF PlannedGrips, Idle
    <3>2. {p \in outcomes' : IsOf(i, p.frame) /\ ~p.delivered} = {p \in outcomes : IsOf(i, p.frame) /\ ~p.delivered}
      BY <1>f, <1>o, <1>3
    <3>3. OutcomeGrips(i, outcomes') = OutcomeGrips(i, outcomes)
      BY <3>2 DEF OutcomeGrips
    <3>4. QED BY <1>u, <3>1, <3>3 DEF Outer
  <2>3. NothingNew(i)
    BY <1>f, <1>l, <1>t, <1>u, <1>1, <1>2, <1>3, OthersQuiet
  <2>4. QED BY <1>u, <2>1, <2>2, <2>3, GripStays
<1>4. GripGoes(id)
  <2> DEFINE g == Grip("planned", {f}, {}, {})
             h == Grip("outcome", {f}, Copies(f, S), {})
  <2>1. GripOK(id)
    BY <1>f DEF GripInv
  <2>2. g \in Outer(id) /\ g \in GripsOn(id)
    BY <1>f DEF Outer, GripsOn, PlannedGrips, Idle
  <2>3. g.at = "planned" /\ g.frames = {f} /\ g.copies = {} /\ h.at = "outcome" /\ h.frames = {f} /\ h.copies = Copies(f, S)
    BY DEF Grip
  <2>4. PlannedGrips(id, planned') = {}
    <3>1. \A e \in planned : IsOf(id, e) => Grip("planned", {e}, {}, {}) \in Outer(id)
                                            /\ Grip("planned", {e}, {}, {}).frames = {e}
      BY DEF Outer, PlannedGrips, Idle, Grip
    <3> HIDE DEF g
    <3>2. \A x \in Outer(id) : x = g
      BY <2>1, <2>2, GripsSplit DEF AtHome, Single
    <3>3. \A e \in planned : IsOf(id, e) => e = f
      BY <2>3, <3>1, <3>2
    <3>4. QED BY <1>u, <3>3 DEF PlannedGrips, Idle
  <2>5. \A x \in OutcomeGrips(id, outcomes') : x \in OutcomeGrips(id, outcomes) \/ (x = h /\ ~delivered)
    BY <1>o DEF OutcomeGrips
  <2>6. \A x \in OutcomeGrips(id, outcomes) \cup RoundGrips(id, round) \cup CallGrips(id, calls) : x.at # "planned"
    BY DEF OutcomeGrips, RoundGrips, CallGrips, Going, FinishedGrips, Grip
  <2> HIDE DEF g, h
  <2>7. Outer(id) = {g} /\ NodeGrips(id, a) = {} /\ \A j \in a.held : ~IsOf(id, j.frame)
    <3>1. AtHome(id, a, Outer(id))
      BY <2>1, GripsSplit
    <3>2. QED BY <2>2, <2>3, <3>1, NotAtHome
  <2>8. \A x \in Outer(id)' : x = h /\ ~delivered
    <3>1. \A x \in OutcomeGrips(id, outcomes) \cup RoundGrips(id, round) \cup CallGrips(id, calls) : FALSE
      BY <2>3, <2>6, <2>7 DEF Outer
    <3>2. QED BY <1>u, <2>4, <2>5, <3>1 DEF Outer
  <2>9. \A x \in GripsOn(id)' : x = h /\ ~delivered
    BY <1>u, <2>7, <2>8, GripsSplitNext
  <2>10. HeldOnce(id, a') /\ ~NoMessage(a', id)
    BY <1>u, <2>1, <2>2 DEF GripOK, NoMessage, Absent, HeldOnce
  <2>11. CASE delivered
    <3>1. GripsOn(id)' = {}
      BY <2>9, <2>11
    <3>2. QED BY <2>10, <3>1, GripHanded
  <2>12. CASE ~delivered
    <3>1. AtHome(id, a', Outer(id)')
      BY <1>u, <2>3, <2>7, <2>8 DEF AtHome, HeldOnce, Single, Tied
    <3>2. \A x \in GripsOn(id)' : x.frames = {f} /\ x.copies = Copies(f, S)
      BY <2>3, <2>9
    <3>3. \A r \in Relays : mailbox'[r] = IF r \in S THEN Append(mailbox[r], f) ELSE mailbox[r]
      BY <1>1 DEF PostedOn
    <3>4. (Loose(id)' => Loose(id)) /\ \A e \in AllFrames' : IsOf(id, e) => e \in AllFrames
      BY <1>l, <1>2, <2>12
    <3>5. IsOf(id, f) /\ S \subseteq Relays /\ a' = a /\ UNCHANGED <<wire, drained, b, bDisk>>
      BY <1>f, <1>u, <1>1, <2>12
    <3> HIDE DEF id
    <3>6. QED
      BY ONLY <1>f, <1>t, <2>1, <2>2, <2>3, <3>1, <3>2, <3>3, <3>4, <3>5, GripPosted
  <2>13. QED BY <2>11, <2>12
<1>5. QED
  BY <1>2, <1>q, <1>y, <1>3, <1>4 DEF GripInv, GripsGo, GripGoes

\* One entry of the round goes out.
LEMMA GripRunOutbox ==
    ASSUME RecallSafe, GripInv, TypeInv, NEW o \in round.todo, RunOutbox(o) PROVE GripsGo
<1> DEFINE f == o.frame
           id == f.id
<1>t. NetOK /\ (\A r \in Relays : mailbox[r] \in Seq(Frame)) /\ round \in Round
  BY TypeGroups DEF NetOK, SenderOK
<1>u. UNCHANGED <<a, planned, outcomes, calls, b, bDisk, drained>>
  BY DEF RunOutbox, receiverVars
<1>f. f \in Frame /\ id \in Ids /\ \A i : IsOf(i, f) <=> i = id /\ IsMessage(f)
  BY <1>t DEF Round, Outbound, Frame, IsOf
<1>1. PICK d \in Deliveries(f) :
         /\ Run(f, o.route, d)
         /\ round' = [round EXCEPT !.todo = @ \ {o}, !.finished = @ \cup {[out |-> o, delivery |-> d]}]
  BY DEF RunOutbox
<1> DEFINE x == [out |-> o, delivery |-> d]
<1>x. /\ x.out = o /\ x.delivery = d
      /\ round'.todo = round.todo \ {o} /\ round'.finished = round.finished \cup {x}
  BY <1>t, <1>1 DEF Round
<1> HIDE DEF x, f
<1>2. CopiesOf(d, f)
  BY DeliveriesOwn
<1>3. \/ wire' = wire \cup {f} /\ mailbox' = mailbox /\ d.via = "Direct"
      \/ /\ wire' = wire /\ d.via # "Direct"
         /\ \E took \in SUBSET Relays : PostedOn(f, took) /\ d.copies = Copies(f, took)
  BY <1>1, RunIs
<1>4. PICK S \in SUBSET Relays : PostedOn(f, S) /\ (d.via = "Direct" \/ d.copies = Copies(f, S))
  <2>1. (mailbox' = mailbox => PostedOn(f, {})) /\ {} \in SUBSET Relays
    BY DEF PostedOn
  <2>2. QED BY <1>3, <2>1
<1>q0. o.done = "Held" \/ (o.done = "Unconfirmed" /\ IsMessage(f))
  BY DEF GripInv, QueuesAreOwn, Queued, f
<1>5. AllFrames' \subseteq AllFrames
  <2>1. InTransit' \subseteq InTransit \cup {f}
    BY <1>1, <1>f, <1>t, <1>u, RunAdds
  <2>2. RoundFrames' \subseteq RoundFrames /\ f \in RoundFrames
    BY <1>x DEF RoundFrames, Frames, f
  <2>3. CallFrames' = CallFrames /\ NodeFrames(a') = NodeFrames(a)
    BY <1>u DEF CallFrames
  <2>4. QED BY <1>u, <2>1, <2>2, <2>3, FramePlaces, FramePlacesNext
<1>q. QueuesAreOwn' /\ \A k \in calls' : CallIsOwn(k)
  <2>1. \A y \in round'.finished : Queued(y.out) /\ CopiesOf(y.delivery, y.out.frame)
    BY <1>x, <1>2 DEF GripInv, QueuesAreOwn, f
  <2>2. QED BY <1>u, <1>x, <2>1 DEF GripInv, QueuesAreOwn
<1>y. \A i \in Ids : NotYet(i)'
  <2>1. \A e \in AllFrames' : \E j \in AllFrames : j.id = e.id
    BY <1>5
  <2>2. \A i \in Ids : NotYet(i)
    BY DEF GripInv
  <2>3. QED BY <1>u, <2>1, <2>2, NotYetKept
<1>l. \A i : (~IsOf(i, f) \/ d.via # "Direct") /\ Loose(i)' => Loose(i)
  <2>1. Again' \subseteq Again
    BY <1>u, <1>x DEF Again
  <2>2. wire' = wire \/ (wire' = wire \cup {f} /\ d.via = "Direct")
    BY <1>3
  <2>3. QED BY <1>u, <1>x, <2>1, <2>2 DEF Loose, f
<1>r. \A i : \A z \in Outer(i)' :
         \/ z \in Outer(i) /\ (z.at = "todo" => z.by # {o})
         \/ /\ o.done = "Held" /\ IsOf(i, f) /\ d.via # "Direct" /\ z = Grip("finished", {f}, d.copies, {x})
  <2> SUFFICES ASSUME NEW i, NEW z \in Outer(i)'
               PROVE  \/ z \in Outer(i) /\ (z.at = "todo" => z.by # {o})
                      \/ /\ o.done = "Held" /\ IsOf(i, f) /\ d.via # "Direct"
                         /\ z = Grip("finished", {f}, d.copies, {x})
    OBVIOUS
  <2>1. CASE z \in PlannedGrips(i, planned) \cup OutcomeGrips(i, outcomes) \cup CallGrips(i, calls)
    <3>1. z.at # "todo"
      BY <2>1 DEF PlannedGrips, OutcomeGrips, CallGrips, Idle, Grip
    <3>2. QED BY <2>1, <3>1 DEF Outer
  <2>2. CASE z \in Going("todo", HeldOf(i, round'.todo))
    <3>1. PICK p \in HeldOf(i, round'.todo) : z = Grip("todo", {p.frame}, {}, {p})
      BY <2>2 DEF Going
    <3>2. p \in HeldOf(i, round.todo) /\ p # o
      BY <1>x, <3>1 DEF HeldOf
    <3>3. QED BY <3>1, <3>2 DEF Outer, RoundGrips, Going, Grip
  <2>3. CASE z \in FinishedGrips(i, round'.finished)
    <3>1. PICK y \in FinishedOf(i, round'.finished) : z = Grip("finished", {y.out.frame}, y.delivery.copies, {y})
      BY <2>3 DEF FinishedGrips
    <3>2. CASE y = x
      BY <1>x, <3>1, <3>2 DEF FinishedOf, f
    <3>3. CASE y # x
      <4>1. y \in FinishedOf(i, round.finished)
        BY <1>x, <3>1, <3>3 DEF FinishedOf
      <4>2. QED BY <3>1, <4>1 DEF Outer, RoundGrips, FinishedGrips, Grip
    <3>4. QED BY <3>2, <3>3
  <2>4. Outer(i)' = PlannedGrips(i, planned) \cup OutcomeGrips(i, outcomes) \cup CallGrips(i, calls)
                      \cup Going("todo", HeldOf(i, round'.todo)) \cup FinishedGrips(i, round'.finished)
    BY <1>u DEF Outer, RoundGrips
  <2>5. QED BY <2>1, <2>2, <2>3, <2>4
<1>6. ASSUME NEW i \in Ids, ~IsOf(i, f) PROVE GripGoes(i)
  <2>1. GripOK(i)
    BY DEF GripInv
  <2>2. Outer(i)' \subseteq Outer(i)
    BY <1>r, <1>6
  <2>3. NothingNew(i)
    BY <1>f, <1>l, <1>t, <1>u, <1>4, <1>5, <1>6, OthersQuiet
  <2>4. QED BY <1>u, <2>1, <2>2, <2>3, GripStays
<1>7. ASSUME IsMessage(f), o.done # "Held" PROVE GripGoes(id)
  <2>1. GripOK(id) /\ Loose(id)
    <3>1. o \in Again /\ IsOf(id, f) /\ o.done = "Unconfirmed"
      BY <1>f, <1>q0, <1>7 DEF Again
    <3>2. QED BY <1>f, <3>1 DEF GripInv, Loose, f
  <2>2. GripsOn(id) = {}
    BY <2>1 DEF GripOK, Firm
  <2>3. Outer(id)' \subseteq Outer(id)
    BY <1>r, <1>7
  <2>4. GripsOn(id)' = {}
    BY <1>u, <2>1, <2>2, <2>3, GripsSplit, GripsSplitNext
  <2>5. ~NoMessage(a, id)
    <3>1. f \in AllFrames
      BY FramePlaces DEF RoundFrames, Frames, f
    <3>2. QED BY <1>7, <1>f, <2>1, <3>1 DEF GripOK, NoMessage, Absent
  <2>6. HeldOnce(id, a')
    BY <1>u, <2>1 DEF GripOK
  <2>7. QED BY <1>u, <2>4, <2>5, <2>6, GripHanded
<1>8. ASSUME IsMessage(f), o.done = "Held" PROVE GripGoes(id)
  <2> DEFINE g == Grip("todo", {f}, {}, {o})
             h == Grip("finished", {f}, d.copies, {x})
  <2>1. GripOK(id) /\ IsOf(id, f)
    BY <1>f, <1>8 DEF GripInv
  <2>2. g \in Outer(id) /\ g \in GripsOn(id)
    BY <1>8, <2>1 DEF Outer, GripsOn, RoundGrips, Going, HeldOf, f
  <2>3. /\ g.at = "todo" /\ g.by = {o} /\ g.frames = {f} /\ g.copies = {}
        /\ h.at = "finished" /\ h.frames = {f} /\ h.copies = d.copies
    BY DEF Grip
  <2> HIDE DEF g
  <2>4. Outer(id) = {g} /\ NodeGrips(id, a) = {}
    <3>1. AtHome(id, a, Outer(id))
      BY <2>1, GripsSplit
    <3>2. QED BY <2>2, <3>1, NotAtHome
  <2>5. \A z \in Outer(id)' : z = h /\ d.via # "Direct"
    BY <1>r, <2>3, <2>4
  <2> HIDE DEF h
  <2>6. \A z \in GripsOn(id)' : z = h /\ d.via # "Direct"
    BY <1>u, <2>4, <2>5, GripsSplitNext
  <2>7. HeldOnce(id, a') /\ ~NoMessage(a', id)
    BY <1>u, <2>1, <2>2 DEF GripOK, NoMessage, Absent, HeldOnce
  <2>8. CASE d.via = "Direct"
    <3>1. GripsOn(id)' = {}
      BY <2>6, <2>8
    <3>2. QED BY <2>7, <3>1, GripHanded
  <2>9. CASE d.via # "Direct"
    <3>1. AtHome(id, a', Outer(id)')
      BY <1>u, <2>3, <2>4, <2>5, <2>7 DEF AtHome, Single, Tied
    <3>2. \A z \in GripsOn(id)' : z.frames = {f} /\ z.copies = Copies(f, S)
      BY <1>4, <2>3, <2>6, <2>9
    <3>3. \A r \in Relays : mailbox'[r] = IF r \in S THEN Append(mailbox[r], f) ELSE mailbox[r]
      BY <1>4 DEF PostedOn
    <3>4. (Loose(id)' => Loose(id)) /\ \A e \in AllFrames' : IsOf(id, e) => e \in AllFrames
      BY <1>l, <1>5, <2>9
    <3>5. S \subseteq Relays /\ a' = a /\ UNCHANGED <<wire, drained, b, bDisk>>
      BY <1>u, <1>3, <2>9
    <3> HIDE DEF id
    <3>6. QED
      BY ONLY <1>f, <1>t, <2>1, <2>2, <2>3, <3>1, <3>2, <3>3, <3>4, <3>5, GripPosted
  <2>10. QED BY <2>8, <2>9
<1>9. \A i \in Ids : GripGoes(i)
  BY <1>f, <1>6, <1>7, <1>8
<1>10. QED
  BY <1>5, <1>q, <1>y, <1>9 DEF GripInv, GripsGo, GripGoes

\* The tick: the outcomes become held frames and receipts, and what the sweep
\* seals again is loose already.
LEMMA GripTick ==
    ASSUME GripInv, TypeInv, NEW direct, NEW relayed, NEW due, NEW timed \in SUBSET Ids, NEW may_retry,
           timed \subseteq a.awaiting_receipt, Tick(direct, relayed, due, timed, may_retry)
    PROVE  GripsGo
<1> DEFINE m == TickNode(direct, relayed, due, timed, may_retry)
<1>u. /\ a' = m /\ outcomes' = {}
      /\ UNCHANGED <<planned, round, calls, wire, mailbox, drained, b, bDisk>>
  BY DEF Tick, receiverVars
<1>q0. QueuesAreOwn /\ (\A k \in calls : CallIsOwn(k)) /\ \A i \in Ids : GripOK(i) /\ NotYet(i)
  BY DEF GripInv
<1>o. \A o \in outcomes : IsMessage(o.frame) /\ \A c \in o.copies : c.frame = o.frame
  BY <1>q0 DEF QueuesAreOwn
<1>1. \A i \in Ids : \A X :
         /\ AtHome(i, a, X \cup OutcomeGrips(i, outcomes)) /\ (\A g \in X : g.at # "outcome")
         /\ OutcomeGrips(i, outcomes) # {} => \A o \in outcomes : IsOf(i, o.frame) => ~o.delivered
         => /\ AtHome(i, m, X)
            /\ From(NodeGrips(i, m) \cup X, NodeGrips(i, a) \cup (X \cup OutcomeGrips(i, outcomes)))
            /\ \A j \in m.awaiting_receipt :
                 j \in a.awaiting_receipt \/ \E o \in outcomes : o.delivered /\ o.frame.id = j
            /\ \A o \in m.outbox : o \in a.outbox \/ o.done = "Held" \/ Resealed(a, timed, o)
  BY <1>q0, TickHome
<1>2. \A f \in NodeFrames(m) : \/ f \in NodeFrames(a) \cup Frames(outcomes)
                               \/ \E o \in m.outbox : Resealed(a, timed, o) /\ f = o.frame
  BY TickBrings
<1>3. /\ Extends(a, m)
      /\ \A id \in Ids : \A c \in m.relay_receipts[id] :
           c \in a.relay_receipts[id] \/ \E o \in outcomes : o.frame.id = id /\ c \in o.copies
  <2>1. /\ Extends(a, m)
        /\ \A id \in Ids : \A c \in m.relay_receipts[id] :
             \/ c \in a.relay_receipts[id]
             \/ \E o \in outcomes : o.frame.id = id /\ c \in o.copies
        /\ \A id \in Ids \ (direct \cup relayed) :
             Present(a.hist[id]) /\ (\A o \in outcomes : o.frame.id # id)
               /\ a.hist[id].delivery = "sent" =>
                 /\ m.hist[id].delivery = "sent"
                 /\ id \in a.awaiting_receipt => OnWatch(m, id)
        /\ \A o \in outcomes : (\A p \in outcomes : p.frame.id = o.frame.id => p = o) =>
             IF o.delivered
             THEN Present(a.hist[o.frame.id]) => OnWatch(m, o.frame.id)
             ELSE o.copies = {} => o.frame \in Frames(m.held)
    BY TickExtends
  <2>2. QED BY ONLY <2>1
<1> HIDE DEF m
<1>h. /\ \A i \in Ids : a'.hist[i].kind = a.hist[i].kind
      /\ a'.pending_sends = a.pending_sends
  BY <1>u, <1>3 DEF Extends
<1>4. \A f \in AllFrames' : f \in AllFrames \/ \E o \in m.outbox : Resealed(a, timed, o) /\ f = o.frame
  <2>1. CallFrames' = CallFrames /\ RoundFrames' = RoundFrames /\ InTransit' = InTransit
    BY <1>u DEF CallFrames, RoundFrames, InTransit
  <2>2. Frames(outcomes') = {}
    BY <1>u DEF Frames
  <2>3. NodeFrames(a') = NodeFrames(m)
    BY <1>u
  <2>4. QED BY <1>2, <1>u, <2>1, <2>2, <2>3, FramePlaces, FramePlacesNext
<1>r. \A o : Resealed(a, timed, o) => /\ o.done = "Unconfirmed" /\ IsMessage(o.frame)
                                      /\ o.frame.id \in a.awaiting_receipt /\ o.frame.id \in Ids
                                      /\ Present(a.hist[o.frame.id])
  BY DEF Resealed
<1>s. \A o : Resealed(a, timed, o) => SealedAgain(o.frame)
  BY DEF Resealed, SealedAgain
<1>5. ASSUME NEW i \in Ids
      PROVE  /\ GripGoes(i)
             /\ \A j \in m.awaiting_receipt :
                  j \in a.awaiting_receipt \/ \E o \in outcomes : o.delivered /\ o.frame.id = j
             /\ \A o \in m.outbox : o \in a.outbox \/ o.done = "Held" \/ Resealed(a, timed, o)
  <2> DEFINE X == PlannedGrips(i, planned) \cup RoundGrips(i, round) \cup CallGrips(i, calls)
  <2>1. GripOK(i) /\ AtHome(i, a, Outer(i)) /\ GripsOn(i) = NodeGrips(i, a) \cup Outer(i)
        /\ \A g \in GripsOn(i) : Firm(i, g)
    BY <1>q0, GripsSplit
  <2>2. Outer(i) = X \cup OutcomeGrips(i, outcomes)
    BY DEF Outer
  <2>3. Outer(i)' = X
    BY <1>u DEF Outer, OutcomeGrips
  <2>4. \A g \in X : g.at # "outcome"
    BY DEF PlannedGrips, RoundGrips, CallGrips, Idle, Going, FinishedGrips, Grip
  <2> HIDE DEF X
  <2>5. GripsOn(i) # {} => ~Loose(i)
    BY <2>1 DEF Firm
  <2>6. OutcomeGrips(i, outcomes) # {} => \A o \in outcomes : IsOf(i, o.frame) => ~o.delivered
    BY <2>1, <2>2, <2>5 DEF Loose
  <2>7. /\ AtHome(i, m, X)
        /\ From(NodeGrips(i, m) \cup X, NodeGrips(i, a) \cup (X \cup OutcomeGrips(i, outcomes)))
        /\ \A j \in m.awaiting_receipt :
             j \in a.awaiting_receipt \/ \E o \in outcomes : o.delivered /\ o.frame.id = j
        /\ \A o \in m.outbox : o \in a.outbox \/ o.done = "Held" \/ Resealed(a, timed, o)
    <3>1. AtHome(i, a, X \cup OutcomeGrips(i, outcomes))
      BY <2>1, <2>2
    <3>2. QED BY <1>1, <2>4, <2>6, <3>1
  <2>8. AtHome(i, a', Outer(i)') /\ From(GripsOn(i)', GripsOn(i))
    BY <1>u, <2>1, <2>2, <2>3, <2>7, GripsSplitNext
  <2>9. Loose(i)' => Loose(i)
    <3>1. CASE i \in a'.awaiting_receipt
      BY <1>o, <1>u, <2>7, <3>1 DEF Loose, IsOf
    <3>2. CASE \E o \in Again' : o.done = "Unconfirmed" /\ IsOf(i, o.frame)
      <4>1. PICK o \in Again' : o.done = "Unconfirmed" /\ IsOf(i, o.frame)
        BY <3>2
      <4>2. o \in Again \/ Resealed(a, timed, o)
        BY <1>u, <2>7, <4>1 DEF Again
      <4>3. QED BY <1>r, <4>1, <4>2 DEF Loose, IsOf
    <3>3. QED BY <1>u, <3>1, <3>2 DEF Loose
  <2>10. GripsOn(i)' # {} \/ NoMessage(a', i) => \A f \in AllFrames' : IsOf(i, f) => f \in AllFrames
    <3> SUFFICES ASSUME GripsOn(i)' # {} \/ NoMessage(a', i), NEW f \in AllFrames', IsOf(i, f), f \notin AllFrames
                 PROVE  FALSE
      OBVIOUS
    <3>1. PICK o \in m.outbox : Resealed(a, timed, o) /\ f = o.frame
      BY <1>4
    <3>2. i \in a.awaiting_receipt /\ Present(a.hist[i])
      BY <1>r, <3>1 DEF IsOf
    <3>3. GripsOn(i) = {}
      BY <2>5, <3>2 DEF Loose
    <3>4. GripsOn(i)' = {}
      BY <2>8, <3>3 DEF From
    <3>5. QED BY <1>h, <3>2, <3>4 DEF NoMessage, Present
  <2>11. GripsOn(i)' # {} \/ NoMessage(a', i) => NothingNew(i)
    BY <1>u, <2>9, <2>10, NothingPosted
  <2>12. NoMessage(a', i) => NoMessage(a, i)
    BY <1>h DEF NoMessage
  <2>13. GripGoes(i)
    BY <2>1, <2>8, <2>11, <2>12, GripKept
  <2>14. QED BY <2>7, <2>13
<1>6. QueuesAreOwn'
  <2>1. \A o \in m.outbox : Ids # {} => (o \in a.outbox \/ o.done = "Held" \/ Resealed(a, timed, o))
    BY <1>5
  <2>2. \A o \in m.outbox : o.frame.id \in Ids
    <3>1. \A f \in NodeFrames(m) : f.id \in Ids
      BY <1>2, <1>r, FramesAreFrames, FramePlaces
    <3>2. QED BY <3>1 DEF NodeFrames, Frames
  <2>3. \A o \in a'.outbox \cup round'.todo : Queued(o)
    BY <1>q0, <1>r, <1>u, <2>1, <2>2 DEF QueuesAreOwn, Queued
  <2>4. \A i \in Ids : \A c \in a'.relay_receipts[i] : IsOf(i, c.frame)
    BY <1>o, <1>q0, <1>u, <1>3 DEF QueuesAreOwn, IsOf
  <2>5. \A f \in a'.pending_sends \cup planned' : IsMessage(f)
    BY <1>h, <1>q0, <1>u DEF QueuesAreOwn
  <2>6. \A x \in round'.finished : Queued(x.out) /\ CopiesOf(x.delivery, x.out.frame)
    BY <1>q0, <1>u DEF QueuesAreOwn
  <2>7. QED BY <1>u, <2>3, <2>4, <2>5, <2>6 DEF QueuesAreOwn
<1>7. \A i \in Ids : NotYet(i)'
  <2>c. /\ \A f \in AllFrames : a.hist[f.id].kind # "none"
        /\ \A i \in a.awaiting_receipt : a.hist[i].kind # "none"
    BY Composed
  <2>1. \A i \in Ids : a'.hist[i].kind = "none" => a.hist[i].kind = "none"
    BY <1>h
  <2>2. \A i \in Ids : a'.hist[i].kind = "none" /\ i \in a'.awaiting_receipt => i \in a.awaiting_receipt
    <3>1. \A o \in outcomes : o.frame \in AllFrames
      BY FramePlaces DEF Frames
    <3>2. QED BY <1>h, <1>u, <1>5, <2>c, <3>1
  <2>3. \A f \in AllFrames' : (\E e \in AllFrames : e.id = f.id) \/ a'.hist[f.id].kind # "none"
    BY <1>4, <1>h, <1>r DEF Present
  <2>4. QED BY <1>q0, <1>u, <2>1, <2>2, <2>3, NotYetKept
<1>8. QED
  BY <1>4, <1>r, <1>q0, <1>s, <1>u, <1>5, <1>6, <1>7 DEF GripInv, GripsGo, GripGoes

\* A finished entry that is applied: its grip becomes the receipts', a held
\* frame's, or none at all.
LEMMA GripApplyOutbound ==
    ASSUME GripInv, TypeInv, NEW x \in round.finished, ApplyOutbound(x) PROVE GripsGo
<1> DEFINE f == x.out.frame
<1>a. NodeOK(a) /\ round \in Round
  BY DEF TypeInv, TypeOK, Finite, NodeOK
<1>u. /\ UNCHANGED <<planned, outcomes, calls, wire, mailbox, drained, b, bDisk>>
      /\ round'.todo = round.todo /\ round'.finished = round.finished \ {x}
      /\ a' = IF x.out.done = "Held" THEN ApplyHeld(a, x) ELSE ApplyUnconfirmed(a, x)
  BY <1>a DEF ApplyOutbound, receiverVars, netVars, Round
<1>f. /\ x \in Finished /\ f \in Frame /\ f.id \in Ids
      /\ \A i : IsOf(i, f) <=> i = f.id /\ IsMessage(f)
  BY <1>a DEF Round, Finished, Outbound, Frame, IsOf
<1>q0. QueuesAreOwn /\ (\A k \in calls : CallIsOwn(k)) /\ \A i \in Ids : GripOK(i) /\ NotYet(i)
  BY DEF GripInv
<1>q. CopiesOf(x.delivery, f) /\ (x.out.done # "Held" => x.out.done = "Unconfirmed" /\ IsMessage(f))
  BY <1>q0 DEF QueuesAreOwn, Queued
<1> HIDE DEF f
<1>h. ASSUME x.out.done = "Held"
      PROVE  /\ \A i \in Ids : a'.hist[i].kind = a.hist[i].kind
             /\ a'.pending_sends = a.pending_sends /\ NodeFrames(a') \subseteq NodeFrames(a)
             /\ \A o \in a'.outbox : o \in a.outbox \/ o.done = "Held"
             /\ \A i \in Ids : \A c \in a'.relay_receipts[i] :
                  c \in a.relay_receipts[i] \/ (i = f.id /\ IsMessage(f) /\ c \in x.delivery.copies)
  <2>1. a' = ApplyHeld(a, x)
    BY <1>h, <1>u
  <2>2. /\ \A id \in Ids : a'.hist[id].kind = a.hist[id].kind
        /\ a'.pending_sends = a.pending_sends /\ a'.seal = a.seal
        /\ \A g \in Frames(a.held) : \/ g \in Frames(a'.held)
                                     \/ g = f /\ x.delivery.via # "Failed"
        /\ NodeFrames(a') \subseteq NodeFrames(a)
        /\ \A o \in a'.outbox : o \in a.outbox \/ o.done = "Held"
        /\ \A id \in Ids : \A c \in a'.relay_receipts[id] :
             \/ c \in a.relay_receipts[id]
             \/ f.kind = "Message" /\ c \in x.delivery.copies
    BY <1>a, <1>f, <2>1, HeldFollows DEF f
  <2>3. \A id \in Ids : \A c \in a'.relay_receipts[id] :
           c \in a.relay_receipts[id] \/ (id = f.id /\ c \in x.delivery.copies)
    BY <1>a, <1>f, <2>1, HeldExtends DEF f
  <2>4. QED BY <2>2, <2>3 DEF IsMessage
<1>v. ASSUME x.out.done # "Held"
      PROVE  /\ \A i \in Ids : a'.hist[i].kind = a.hist[i].kind
             /\ a'.pending_sends = a.pending_sends /\ a'.held = a.held /\ a'.outbox = a.outbox
             /\ \A i \in Ids : i # f.id => a'.relay_receipts[i] = a.relay_receipts[i]
             /\ \A c \in a'.relay_receipts[f.id] :
                  c \in a.relay_receipts[f.id] \/ c \in x.delivery.copies \/ c.frame = f
  <2>1. a' = ApplyUnconfirmed(a, x)
    BY <1>v, <1>u
  <2>2. /\ \A id \in Ids : a'.hist[id].kind = a.hist[id].kind
        /\ a'.pending_sends = a.pending_sends /\ a'.seal = a.seal
        /\ a'.held = a.held /\ a'.outbox = a.outbox
        /\ \A id \in Ids : \A c \in a'.relay_receipts[id] :
             c \in a.relay_receipts[id] \/ c \in x.delivery.copies \/ c.frame = f
    BY <1>a, <1>f, <2>1, UnconfirmedFollows DEF f
  <2>3. \A id \in Ids : id # f.id => a'.relay_receipts[id] = a.relay_receipts[id]
    BY <1>a, <1>f, <2>1, UnconfirmedExtends DEF f
  <2>4. QED BY <1>f, <2>2, <2>3
<1>k. \A i \in Ids : a'.hist[i].kind = a.hist[i].kind
  BY <1>h, <1>v
<1>o. a'.pending_sends = a.pending_sends /\ \A o \in a'.outbox : o \in a.outbox \/ o.done = "Held"
  BY <1>h, <1>v
<1>2. AllFrames' \subseteq AllFrames
  <2>1. CallFrames' = CallFrames /\ RoundFrames' \subseteq RoundFrames /\ InTransit' = InTransit
        /\ Frames(outcomes') = Frames(outcomes)
    BY <1>u DEF CallFrames, RoundFrames, InTransit, Frames
  <2>2. NodeFrames(a') \subseteq NodeFrames(a)
    BY <1>h, <1>v DEF NodeFrames
  <2>3. QED BY <1>u, <2>1, <2>2, FramePlaces, FramePlacesNext
<1>3. QueuesAreOwn'
  <2>1. \A o \in a'.outbox \cup round'.todo : Queued(o)
    BY <1>o, <1>q0, <1>u DEF QueuesAreOwn, Queued
  <2>2. \A i \in Ids : \A c \in a'.relay_receipts[i] : IsOf(i, c.frame)
    <3>1. CASE x.out.done = "Held"
      BY <1>f, <1>h, <1>q, <1>q0, <3>1 DEF QueuesAreOwn, CopiesOf
    <3>2. CASE x.out.done # "Held"
      BY <1>f, <1>v, <1>q, <1>q0, <3>2 DEF QueuesAreOwn, CopiesOf
    <3>3. QED BY <3>1, <3>2
  <2>3. \A y \in round'.finished : Queued(y.out) /\ CopiesOf(y.delivery, y.out.frame)
    BY <1>q0, <1>u DEF QueuesAreOwn
  <2>4. QED BY <1>o, <1>q0, <1>u, <2>1, <2>2, <2>3 DEF QueuesAreOwn
<1>4. ASSUME NEW i \in Ids
      PROVE  /\ AtHome(i, a', Outer(i)') /\ From(GripsOn(i)', GripsOn(i))
             /\ i \in a'.awaiting_receipt => i \in a.awaiting_receipt \/ (i = f.id /\ Loose(i))
  <2> DEFINE Y == PlannedGrips(i, planned) \cup OutcomeGrips(i, outcomes) \cup CallGrips(i, calls)
                    \cup RoundGrips(i, round')
             F == FinishedGrips(i, {x})
             n == a
  <2>1. GripOK(i) /\ AtHome(i, n, Outer(i)) /\ GripsOn(i) = NodeGrips(i, n) \cup Outer(i)
    BY <1>q0, GripsSplit
  <2>2. Outer(i)' = Y
    BY <1>u DEF Outer
  <2>3. Outer(i) = Y \cup F
    <3>1. FinishedOf(i, round.finished) = FinishedOf(i, round'.finished) \cup FinishedOf(i, {x})
      BY <1>u DEF FinishedOf
    <3>2. FinishedGrips(i, round.finished) = FinishedGrips(i, round'.finished) \cup F
      BY <3>1 DEF FinishedGrips
    <3>3. RoundGrips(i, round) = RoundGrips(i, round') \cup F
      BY <1>u, <3>2 DEF RoundGrips
    <3>4. QED BY <3>3 DEF Outer
  <2>4. \A g \in Y : g.at = "finished" => g.by # {x}
    <3>1. \A g \in FinishedGrips(i, round'.finished) : g.by # {x}
      BY <1>u DEF FinishedGrips, FinishedOf, Grip
    <3>2. QED BY <3>1 DEF PlannedGrips, OutcomeGrips, CallGrips, RoundGrips, Idle, Going, Grip
  <2>5. GripsOn(i)' = NodeGrips(i, a') \cup Y
    BY <2>2, GripsSplitNext
  <2>6. CASE x.out.done = "Held"
    <3>1. a' = ApplyHeld(n, x)
      BY <1>u, <2>6
    <3>2. NodeOK(n) /\ x \in Finished /\ x.out.done = "Held" /\ CopiesOf(x.delivery, x.out.frame)
          /\ i \in Ids /\ (\A g \in Y : g.at = "finished" => g.by # {x})
      BY <1>a, <1>f, <1>q, <2>4, <2>6 DEF f
    <3>3. AtHome(i, n, Y \cup FinishedGrips(i, {x}))
      BY <2>1, <2>3
    <3> HIDE DEF n, Y
    <3>4. LET m == ApplyHeld(n, x)
           IN  /\ AtHome(i, m, Y)
               /\ From(NodeGrips(i, m) \cup Y, NodeGrips(i, n) \cup (Y \cup FinishedGrips(i, {x})))
               /\ \A j \in m.awaiting_receipt :
                    \/ j \in n.awaiting_receipt
                    \/ IsOf(j, x.out.frame) /\ x.delivery.via = "Direct"
      BY ONLY <3>2, <3>3, HeldHome
    <3>5. /\ AtHome(i, a', Y)
          /\ From(NodeGrips(i, a') \cup Y, NodeGrips(i, n) \cup (Y \cup F))
          /\ i \in a'.awaiting_receipt => \/ i \in n.awaiting_receipt
                                          \/ IsOf(i, x.out.frame) /\ x.delivery.via = "Direct"
      BY ONLY <3>1, <3>4
    <3>6. From(GripsOn(i)', GripsOn(i))
      BY <2>1, <2>3, <2>5, <3>5
    <3>7. IsOf(i, x.out.frame) /\ x.delivery.via = "Direct" => i = f.id /\ Loose(i)
      BY <1>f, <2>6 DEF Loose, f
    <3>8. QED BY <2>2, <3>5, <3>6, <3>7 DEF n
  <2>7. CASE x.out.done # "Held"
    <3>1. a' = ApplyUnconfirmed(n, x)
      BY <1>u, <2>7
    <3>2. NodeOK(n) /\ x \in Finished /\ i \in Ids
      BY <1>a, <1>f
    <3>3. F = {}
      BY <2>7 DEF FinishedGrips, FinishedOf
    <3>4. AtHome(i, n, Y)
      BY <2>1, <2>3, <3>3
    <3> HIDE DEF n, Y, F
    <3>5. LET m == ApplyUnconfirmed(n, x)
           IN  /\ AtHome(i, m, Y) /\ From(NodeGrips(i, m) \cup Y, NodeGrips(i, n) \cup Y)
               /\ m.awaiting_receipt \subseteq n.awaiting_receipt \cup {x.out.frame.id}
      BY ONLY <3>2, <3>4, UnconfirmedHome
    <3>6. /\ AtHome(i, a', Y) /\ From(NodeGrips(i, a') \cup Y, NodeGrips(i, n) \cup Y)
          /\ i \in a'.awaiting_receipt => i \in n.awaiting_receipt \/ i = f.id
      BY <3>1, <3>5 DEF f
    <3>7. From(GripsOn(i)', GripsOn(i))
      BY <2>1, <2>3, <2>5, <3>3, <3>6
    <3>8. i = f.id => Loose(i)
      BY <1>f, <1>q, <2>7 DEF Loose, Again, f
    <3>9. QED BY <2>2, <3>6, <3>7, <3>8 DEF n
  <2>8. QED BY <2>6, <2>7
<1>5. ASSUME NEW i \in Ids PROVE GripGoes(i)
  <2>1. Loose(i)' => Loose(i)
    <3>1. CASE i \in a'.awaiting_receipt
      BY <1>4, <3>1 DEF Loose
    <3>2. \A o \in Again' : o.done = "Unconfirmed" => o \in Again
      BY <1>o, <1>u DEF Again
    <3>3. QED BY <1>u, <3>1, <3>2 DEF Loose
  <2>2. NothingNew(i)
    BY <1>2, <1>u, <2>1, NothingPosted
  <2>3. NoMessage(a', i) => NoMessage(a, i)
    BY <1>k DEF NoMessage
  <2>4. QED BY <1>4, <1>q0, <2>2, <2>3, GripKept
<1>6. \A i \in Ids : NotYet(i)'
  <2>c. \A g \in AllFrames : a.hist[g.id].kind # "none"
    BY Composed
  <2>1. f \in AllFrames
    BY FramePlaces DEF RoundFrames, f
  <2>2. \A i \in Ids : a'.hist[i].kind = "none" => a.hist[i].kind = "none"
    BY <1>k
  <2>3. \A i \in Ids : a'.hist[i].kind = "none" /\ i \in a'.awaiting_receipt => i \in a.awaiting_receipt
    BY <1>4, <2>1, <2>2, <2>c
  <2>4. \A g \in AllFrames' : \E e \in AllFrames : e.id = g.id
    BY <1>2
  <2>5. QED BY <1>q0, <1>u, <2>2, <2>3, <2>4, NotYetKept
<1>7. QED
  BY <1>2, <1>q0, <1>u, <1>3, <1>5, <1>6 DEF GripInv, GripsGo, GripGoes

\* The tick the poller makes.
LEMMA GripTicks ==
    ASSUME GripInv, TypeInv, TickStep PROVE GripsGo
<1>1. ASSUME NEW direct \in SUBSET acks, NEW due \in BOOLEAN, NEW may_retry \in BOOLEAN,
             NEW relayed \in SUBSET (acks \ direct),
             NEW timed \in SUBSET (a.awaiting_receipt \ (direct \cup relayed)),
             Tick(direct, relayed, due, timed, may_retry)
      PROVE  GripsGo
  <2>1. a.awaiting_receipt \in SUBSET Ids
    BY NodeParts DEF TypeInv, TypeOK, Finite, NodeOK
  <2>2. timed \in SUBSET Ids /\ timed \subseteq a.awaiting_receipt
    BY <2>1
  <2>3. QED BY <1>1, <2>2, GripTick
<1>2. QED
  BY <1>1 DEF TickStep

\* A step that changes none of it.
LEMMA GripStutters ==
    ASSUME GripInv, TypeInv, UNCHANGED vars PROVE GripsGo
<1>1. /\ UNCHANGED senderVars /\ UNCHANGED <<wire, mailbox, b, bDisk, drained>>
  BY DEF vars, receiverVars, netVars
<1>2. InTransit' = InTransit /\ \A id \in Ids : Unseen(id)' <=> Unseen(id)
  BY <1>1 DEF InTransit, Unseen, Received
<1>3. wire' \subseteq wire /\ InTransit' \subseteq InTransit
      /\ \A r \in Relays : FramesOf(mailbox'[r]) \subseteq FramesOf(mailbox[r])
  BY <1>1, <1>2
<1>4. /\ \A id \in Ids : \A r \in Relays : Once(id, mailbox[r]) => Once(id, mailbox'[r])
      /\ \A id \in Ids : (\A f \in wire : ~IsOf(id, f)) /\ Unseen(id) => Unseen(id)' \/ LeftMail(id)
  BY <1>1, <1>2
<1>5. QED BY ONLY <1>1, <1>3, <1>4, GripInv, TypeInv, GripReceiver

\* At the start there is nothing to grip.
LEMMA GripInit == Init => GripInv
<1> SUFFICES ASSUME Init PROVE GripInv
  OBVIOUS
<1>1. /\ a.pending_sends = {} /\ a.held = {} /\ a.outbox = {} /\ a.awaiting_receipt = {}
      /\ a.relay_receipts = [id \in Ids |-> {}] /\ a.hist = [id \in Ids |-> NotComposed]
      /\ planned = {} /\ outcomes = {} /\ round.todo = {} /\ round.finished = {} /\ calls = {}
      /\ wire = {} /\ mailbox = [r \in Relays |-> <<>>] /\ drained = <<>> /\ bDisk = b
      /\ b.inbox = [id \in Ids |-> NotShown]
  BY DEF Init, NoRound
<1>2. AllFrames = {}
  BY <1>1 DEF AllFrames, AtWork, InTransit, Frames, FramesOf
<1>3. ASSUME NEW id \in Ids PROVE GripOK(id) /\ NotYet(id)
  <2>1. GripsOn(id) = {}
    BY <1>1 DEF GripsOn, NodeGrips, PlannedGrips, OutcomeGrips, RoundGrips, CallGrips, Idle, IdleOf, Going,
                HeldOf, ReceiptGrips, FinishedGrips, FinishedOf, Frames
  <2>2. Unseen(id)
    BY <1>1 DEF Unseen, Received, NotShown, FramesOf
  <2>3. HeldOnce(id, a) /\ Single(GripsOn(id))
    BY <1>1, <2>1 DEF HeldOnce, Single
  <2>4. QED BY <1>1, <1>2, <2>1, <2>2, <2>3 DEF GripOK, Absent, NotYet
<1>4. QueuesAreOwn
  BY <1>1 DEF QueuesAreOwn
<1>5. QED
  BY <1>1, <1>3, <1>4 DEF GripInv

\* A node that shows nothing retired; one call for each edit of a message.
HidesRetired(n, id) == \A t \in Texts : <<id, t>> \in retired => NotShownNow(n, id, t)
OneEditEach(id) ==
    \A j, k \in calls : Editing(j) /\ Editing(k) /\ j.id = id /\ k.id = id /\ j.text = k.text => j = k

\* A step that composes and edits nothing of a message. What it takes back is
\* a text that is nowhere.
LEMMA TextsKept ==
    ASSUME NEW id \in Ids, TextsOK(id), Regripped(id),
           \A f \in AllFrames' : f \in AllFrames \/ f.kind = "Unsend" \/ f.id # id \/ SealedAgain(f),
           a'.hist[id].kind = a.hist[id].kind, a'.hist[id].text = a.hist[id].text,
           \A k \in calls' : Editing(k) /\ k.id = id =>
             \E j \in calls : Editing(j) /\ j.id = id /\ j.text = k.text,
           OneEditEach(id)',
           \A t \in Texts : <<id, t>> \in retired' => <<id, t>> \in retired \/ RetiredOK(id, t)',
           HidesRetired(b', id), HidesRetired(bDisk', id)
    PROVE  TextsOK(id)'
<1>1. "Unsend" # "Edit" /\ "Unsend" # "Message" /\ "Edit" # "Message"
  OBVIOUS
<1>2. \A e \in AllFrames' : IsEdit(id, e) => e \in AllFrames
  BY <1>1 DEF IsEdit, SealedAgain, IsMessage
<1>3. \A t : Used(id, t)' => Used(id, t)
  BY <1>2 DEF Used
<1>4. \A t : Current(id, t)' <=> Current(id, t)
  BY DEF Current
<1>5. GripTexts(id)'
  BY <1>3, <1>4 DEF TextsOK, GripTexts, Regripped
<1>6. EditTexts(id)'
  <2>1. ASSUME NEW k \in calls', Editing(k), k.id = id
        PROVE  /\ Current(id, k.text)'
               /\ \A e \in AllFrames' : IsEdit(id, e) => e.text # k.text
               /\ \A j \in calls' : Editing(j) /\ j.id = id /\ j.text = k.text => j = k
    <3>1. PICK j \in calls : Editing(j) /\ j.id = id /\ j.text = k.text
      BY <2>1
    <3>2. Current(id, j.text) /\ \A e \in AllFrames : IsEdit(id, e) => e.text # j.text
      BY <3>1 DEF TextsOK, EditTexts
    <3>3. QED BY <1>2, <1>4, <2>1, <3>1, <3>2 DEF OneEditEach
  <2>2. \A e \in AllFrames' : IsEdit(id, e) => Current(id, e.text)'
    BY <1>2, <1>4 DEF TextsOK, EditTexts
  <2>3. QED BY <2>1, <2>2 DEF EditTexts, Editing
<1>7. ASSUME NEW t \in Texts, <<id, t>> \in retired' PROVE RetiredOK(id, t)'
  <2>1. CASE RetiredOK(id, t)'
    BY <2>1
  <2>2. CASE <<id, t>> \in retired
    <3>1. RetiredOK(id, t)
      BY <2>2 DEF TextsOK, RetiredTexts
    <3>2. NotShownNow(b', id, t) /\ NotShownNow(bDisk', id, t)
      BY <2>2 DEF HidesRetired
    <3>3. ASSUME NEW f \in AllFrames', IsOf(id, f) PROVE f.text # t
      <4>1. f \in AllFrames \/ SealedAgain(f)
        BY <1>1, <3>3 DEF IsOf, IsMessage
      <4>2. SealedAgain(f) => f.text = a.hist[id].text /\ Present(a.hist[id])
        BY <3>3 DEF SealedAgain, IsOf
      <4>3. QED BY <3>1, <3>3, <4>1, <4>2 DEF RetiredOK, Present
    <3>4. QED
      BY <1>3, <1>4, <3>1, <3>2, <3>3 DEF RetiredOK, NotShownNow
  <2>3. QED BY <1>7, <2>1, <2>2
<1>8. RetiredTexts(id)'
  BY <1>7 DEF RetiredTexts
<1>9. QED BY <1>5, <1>6, <1>8 DEF TextsOK

\* The edits a step leaves are edits that were there.
LEMMA EditsStay ==
    ASSUME NEW id \in Ids, TextsOK(id), \A k \in calls' : Editing(k) /\ k.id = id => k \in calls
    PROVE  /\ OneEditEach(id)'
           /\ \A k \in calls' : Editing(k) /\ k.id = id =>
                \E j \in calls : Editing(j) /\ j.id = id /\ j.text = k.text
           /\ HidesRetired(b, id) /\ HidesRetired(bDisk, id)
<1>1. \A j, k \in calls : Editing(j) /\ Editing(k) /\ j.id = id /\ k.id = id /\ j.text = k.text => j = k
  BY DEF TextsOK, EditTexts
<1>2. OneEditEach(id)'
  BY <1>1 DEF OneEditEach, Editing
<1>3. HidesRetired(b, id) /\ HidesRetired(bDisk, id)
  BY DEF TextsOK, RetiredTexts, RetiredOK, HidesRetired
<1>4. QED BY <1>2, <1>3

\* A frame that arrives shows nothing that was taken back.
LEMMA ShowsNothingRetired ==
    ASSUME GripInv, NEW id \in Ids, TextsOK(id), DOMAIN b.inbox = Ids, NEW f \in AllFrames
    PROVE  HidesRetired(ProcessFrame(b, f), id)
<1> DEFINE m == ProcessFrame(b, f)
<1> SUFFICES ASSUME NEW t \in Texts, <<id, t>> \in retired, m.inbox[id].kind = "text" PROVE m.inbox[id].text # t
  BY DEF HidesRetired, NotShownNow
<1>1. /\ \A e \in AllFrames : IsOf(id, e) => e.text # t
      /\ NotShownNow(b, id, t)
      /\ a.hist[id].kind # "gone" => ~Used(id, t)
  BY DEF TextsOK, RetiredTexts, RetiredOK
<1>2. CASE m.inbox[id] = b.inbox[id]
  BY <1>1, <1>2 DEF NotShownNow
<1>3. CASE f.id = id /\ f.kind = "Message" /\ m.inbox[id].text = f.text
  BY <1>1, <1>3 DEF IsOf, IsMessage
<1>4. CASE f.id = id /\ f.kind = "Edit" /\ m.inbox[id].text = f.text /\ b.inbox[id].kind = "text"
  <2>1. a.hist[id].kind # "gone"
    BY <1>4 DEF GripInv, GripOK, Absent, Unseen, Received
  <2>2. QED BY <1>1, <1>4, <2>1 DEF Used, IsEdit
<1>5. QED
  <2>1. \/ m = b
        \/ \E shown : m.inbox = [b.inbox EXCEPT ![f.id] = shown]
             /\ \/ shown = b.inbox[f.id]
                \/ f.kind = "Message" /\ shown.text = f.text
                \/ f.kind = "Edit" /\ shown.text = f.text /\ b.inbox[f.id].kind = "text"
                \/ shown.kind = "deleted"
    <3> DEFINE old == b.inbox[f.id]
               open == old.kind = "text" /\ f.id \notin closed
               shown == CASE f.kind = "Message" /\ old.kind = "none" /\ ~full -> [kind |-> "text", text |-> f.text]
                          [] f.kind = "Edit" /\ open -> [kind |-> "text", text |-> f.text]
                          [] f.kind = "Unsend" /\ open -> [kind |-> "deleted", text |-> Blank]
                          [] OTHER -> old
    <3>1. \/ shown = old
          \/ f.kind = "Message" /\ shown.text = f.text
          \/ f.kind = "Edit" /\ shown.text = f.text /\ old.kind = "text"
          \/ shown.kind = "deleted"
      OBVIOUS
    <3>2. m = IF f.seal \in b.spent THEN b
              ELSE [inbox |-> [b.inbox EXCEPT ![f.id] = shown], spent |-> b.spent \cup {f.seal}]
      BY DEF ProcessFrame
    <3> HIDE DEF m, shown
    <3>3. m = b \/ m.inbox = [b.inbox EXCEPT ![f.id] = shown]
      BY <3>2
    <3>4. QED BY <3>1, <3>3
  <2> HIDE DEF m
  <2>2. CASE m = b
    BY <1>2, <2>2
  <2>3. ASSUME NEW shown, m.inbox = [b.inbox EXCEPT ![f.id] = shown],
               \/ shown = b.inbox[f.id]
               \/ f.kind = "Message" /\ shown.text = f.text
               \/ f.kind = "Edit" /\ shown.text = f.text /\ b.inbox[f.id].kind = "text"
               \/ shown.kind = "deleted"
        PROVE  m.inbox[id].text # t
    <3>1. m.inbox[id] = IF id = f.id THEN shown ELSE b.inbox[id]
      BY <2>3
    <3>2. CASE id # f.id
      BY <1>2, <3>1, <3>2
    <3>3. CASE id = f.id
      BY <1>2, <1>3, <1>4, <2>3, <3>1, <3>3
    <3>4. QED BY <3>2, <3>3
  <2>4. QED BY <2>1, <2>2, <2>3

\* The receiver's own steps and what is lost on the way.
LEMMA TextsReceived ==
    ASSUME RecallInv, TypeInv, GripsGo, UNCHANGED senderVars, UNCHANGED histVars,
           \/ UNCHANGED b \/ b' = bDisk \/ \E f \in InTransit : b' = ProcessFrame(b, f),
           bDisk' = bDisk \/ bDisk' = b'
    PROVE  RecallInv'
<1>1. ReceiverOK
  BY TypeGroups
<1>2. DOMAIN b.inbox = Ids
  BY <1>1 DEF ReceiverOK, Receiver
<1>3. ASSUME NEW id \in Ids PROVE TextsOK(id)'
  <2>1. TextsOK(id) /\ Regripped(id)
    BY DEF RecallInv, GripsGo
  <2>e. \A k \in calls' : Editing(k) /\ k.id = id => k \in calls
    BY DEF senderVars
  <2>2. /\ HidesRetired(b, id) /\ HidesRetired(bDisk, id) /\ OneEditEach(id)'
        /\ \A k \in calls' : Editing(k) /\ k.id = id =>
             \E j \in calls : Editing(j) /\ j.id = id /\ j.text = k.text
    BY <2>1, <2>e, EditsStay
  <2>3. HidesRetired(b', id)
    <3>1. \A f \in InTransit : f \in AllFrames
      BY DEF AllFrames
    <3>2. \A f \in AllFrames : HidesRetired(ProcessFrame(b, f), id)
      BY <1>2, <2>1, ShowsNothingRetired DEF RecallInv
    <3>3. QED BY <2>2, <3>1, <3>2
  <2>4. HidesRetired(bDisk', id)
    BY <2>2, <2>3
  <2>5. \A f \in AllFrames' : f \in AllFrames \/ f.kind = "Unsend" \/ f.id # id \/ SealedAgain(f)
    BY DEF GripsGo
  <2>6. /\ a'.hist[id].kind = a.hist[id].kind /\ a'.hist[id].text = a.hist[id].text
        /\ \A t \in Texts : <<id, t>> \in retired' => <<id, t>> \in retired \/ RetiredOK(id, t)'
    BY DEF senderVars, histVars
  <2>7. QED BY <2>1, <2>2, <2>3, <2>4, <2>5, <2>6, TextsKept
<1>4. QED BY <1>3 DEF RecallInv, GripsGo

\* A sender's step that composes, edits and takes back nothing.
LEMMA TextsQuiet ==
    ASSUME RecallInv, GripsGo, UNCHANGED <<b, bDisk, retired>>,
           \A id \in Ids : a'.hist[id].kind = a.hist[id].kind /\ a'.hist[id].text = a.hist[id].text,
           \A k \in calls' : Editing(k) => k \in calls
    PROVE  RecallInv'
<1>1. ASSUME NEW id \in Ids PROVE TextsOK(id)'
  <2>1. TextsOK(id) /\ Regripped(id)
    BY DEF RecallInv, GripsGo
  <2>2. HidesRetired(b', id) /\ HidesRetired(bDisk', id)
    BY <2>1 DEF TextsOK, RetiredTexts, RetiredOK, HidesRetired
  <2>3. \A f \in AllFrames' : f \in AllFrames \/ f.kind = "Unsend" \/ f.id # id \/ SealedAgain(f)
    BY DEF GripsGo
  <2>4. /\ a'.hist[id].kind = a.hist[id].kind /\ a'.hist[id].text = a.hist[id].text
        /\ \A t \in Texts : <<id, t>> \in retired' => <<id, t>> \in retired \/ RetiredOK(id, t)'
    OBVIOUS
  <2>5. /\ OneEditEach(id)'
        /\ \A k \in calls' : Editing(k) /\ k.id = id =>
             \E j \in calls : Editing(j) /\ j.id = id /\ j.text = k.text
    BY <2>1, EditsStay
  <2>6. QED BY <2>1, <2>2, <2>3, <2>4, <2>5, TextsKept
<1>2. QED BY <1>1 DEF RecallInv, GripsGo

\* The receiver's steps.
LEMMA RecallReceiver ==
    ASSUME RecallInv, TypeInv, ReceiverStep PROVE RecallInv'
<1>1. GripInv
  BY DEF RecallInv
<1>2. GripsGo
  BY <1>1, GripReceiverSteps
<1>3. drained \in Seq(Frame)
  BY TypeGroups DEF ReceiverOK
<1> DEFINE Arrives1 == \/ UNCHANGED b \/ b' = bDisk \/ \E f \in InTransit : b' = ProcessFrame(b, f)
           Goes == /\ UNCHANGED senderVars /\ UNCHANGED histVars /\ Arrives1
                   /\ (bDisk' = bDisk \/ bDisk' = b')
<1>4. ASSUME NEW f \in wire, Pump(f) PROVE Goes
  BY <1>4 DEF Pump, Processes, ReceiverSaves, InTransit
<1>5. ASSUME NEW r \in Relays, TakeMailbox(r) PROVE Goes
  BY <1>5 DEF TakeMailbox
<1>6. ASSUME ApplyHarvest PROVE Goes
  <2>1. Head(drained) \in FramesOf(drained)
    BY <1>3, <1>6, QueueFrames DEF ApplyHarvest
  <2>2. QED
    BY <1>6, <2>1 DEF ApplyHarvest, Processes, ReceiverSaves, InTransit
<1>7. ASSUME SendReceipts PROVE Goes
  BY <1>7 DEF SendReceipts
<1>8. Goes
  BY <1>4, <1>5, <1>6, <1>7 DEF ReceiverStep
<1>9. QED BY <1>2, <1>8, TextsReceived

\* The receiver's clock: what an allowance or a window does is decided when a
\* frame comes in.
LEMMA RecallClock ==
    ASSUME RecallInv, TypeInv, ClockStep PROVE RecallInv'
<1>1. /\ UNCHANGED senderVars /\ UNCHANGED <<wire, mailbox, b, bDisk, drained>> /\ UNCHANGED histVars
  BY DEF ClockStep, AllowanceFills, DayTurns, WindowPasses, netVars
<1>2. InTransit' = InTransit /\ \A id \in Ids : Unseen(id)' <=> Unseen(id)
  BY <1>1 DEF InTransit, Unseen, Received
<1>3. GripsGo
  <2>1. wire' \subseteq wire /\ InTransit' \subseteq InTransit
        /\ \A r \in Relays : FramesOf(mailbox'[r]) \subseteq FramesOf(mailbox[r])
    BY <1>1, <1>2
  <2>2. /\ \A id \in Ids : \A r \in Relays : Once(id, mailbox[r]) => Once(id, mailbox'[r])
        /\ \A id \in Ids : (\A f \in wire : ~IsOf(id, f)) /\ Unseen(id) => Unseen(id)' \/ LeftMail(id)
    BY <1>1, <1>2
  <2>3. GripInv
    BY DEF RecallInv
  <2>4. QED BY ONLY <1>1, <2>1, <2>2, <2>3, TypeInv, GripReceiver
<1>4. UNCHANGED <<a, calls, b, bDisk, retired>>
  BY <1>1 DEF senderVars, histVars
<1>5. QED BY <1>3, <1>4, TextsQuiet

\* The failures that may happen.
LEMMA RecallFailures ==
    ASSUME RecallSafe, RecallInv, TypeInv, Failure PROVE RecallInv'
<1>1. GripInv
  BY DEF RecallInv
<1>2. GripsGo
  BY <1>1, GripFailures
<1>3. ~SenderRestarts
  BY DEF SenderRestarts, Pay, RecallSafe
<1>4. /\ UNCHANGED senderVars /\ UNCHANGED histVars /\ (UNCHANGED b \/ b' = bDisk)
      /\ bDisk' = bDisk
  BY <1>3 DEF Failure, LoseFrame, LoseReceipt, LoseTake, ReceiverRestarts, receiverVars
<1>5. QED BY <1>2, <1>4, TextsReceived

\* The poller seals nothing but the text a message has now.
LEMMA RecallPoller ==
    ASSUME RecallSafe, RecallInv, TypeInv, PollerStep PROVE RecallInv'
<1>g. GripInv
  BY DEF RecallInv
<1>a. NodeOK(a)
  BY TypeGroups DEF SenderOK
<1> DEFINE Same == /\ UNCHANGED <<b, bDisk, retired, calls>>
                   /\ \A id \in Ids : a'.hist[id].kind = a.hist[id].kind /\ a'.hist[id].text = a.hist[id].text
<1>1. ASSUME PlanPendingSends PROVE GripsGo /\ Same
  <2>1. a'.hist = a.hist
    BY <1>1, <1>a, NodeParts DEF PlanPendingSends
  <2>2. QED
    BY <1>1, <1>g, <2>1, GripPlan DEF PlanPendingSends, Locked, receiverVars, histVars
<1>2. ASSUME NEW f \in planned, ExecuteSend(f) PROVE GripsGo /\ Same
  BY <1>2, <1>g, GripExecute DEF ExecuteSend, receiverVars, histVars
<1>3. ASSUME TickStep PROVE GripsGo /\ Same
  <2>1. GripsGo
    BY <1>3, <1>g, GripTicks
  <2>2. ASSUME NEW direct \in SUBSET acks, NEW due \in BOOLEAN, NEW may_retry \in BOOLEAN,
               NEW relayed \in SUBSET (acks \ direct),
               NEW timed \in SUBSET (a.awaiting_receipt \ (direct \cup relayed)),
               Tick(direct, relayed, due, timed, may_retry)
        PROVE  Same
    <3>1. timed \in SUBSET Ids
      BY <1>a, NodeParts
    <3>2. Extends(a, TickNode(direct, relayed, due, timed, may_retry))
      <4> DEFINE m == TickNode(direct, relayed, due, timed, may_retry)
      <4>1. /\ Extends(a, m)
            /\ \A id \in Ids : \A c \in m.relay_receipts[id] :
                 \/ c \in a.relay_receipts[id]
                 \/ \E o \in outcomes : o.frame.id = id /\ c \in o.copies
            /\ \A id \in Ids \ (direct \cup relayed) :
                 Present(a.hist[id]) /\ (\A o \in outcomes : o.frame.id # id)
                   /\ a.hist[id].delivery = "sent" =>
                     /\ m.hist[id].delivery = "sent"
                     /\ id \in a.awaiting_receipt => OnWatch(m, id)
            /\ \A o \in outcomes : (\A p \in outcomes : p.frame.id = o.frame.id => p = o) =>
                 IF o.delivered
                 THEN Present(a.hist[o.frame.id]) => OnWatch(m, o.frame.id)
                 ELSE o.copies = {} => o.frame \in Frames(m.held)
        BY <3>1, TickExtends
      <4>2. QED BY ONLY <4>1
    <3>3. QED
      BY <2>2, <3>2 DEF Tick, Extends, receiverVars, histVars
  <2>3. QED BY <1>3, <2>1, <2>2 DEF TickStep
<1>4. ASSUME TakeOutbox PROVE GripsGo /\ Same
  <2>1. a'.hist = a.hist
    BY <1>4, <1>a, NodeParts DEF TakeOutbox
  <2>2. QED
    BY <1>4, <1>g, <2>1, GripTakeOutbox DEF TakeOutbox, Locked, receiverVars, histVars
<1>5. ASSUME NEW o \in round.todo, RunOutbox(o) PROVE GripsGo /\ Same
  BY <1>5, <1>g, GripRunOutbox DEF RunOutbox, receiverVars, histVars
<1>6. ASSUME NEW x \in round.finished, ApplyOutbound(x) PROVE GripsGo /\ Same
  <2>1. GripsGo
    BY <1>6, <1>g, GripApplyOutbound
  <2>2. /\ UNCHANGED <<b, bDisk, retired, calls>> /\ x \in Finished
        /\ a' = IF x.out.done = "Held" THEN ApplyHeld(a, x) ELSE ApplyUnconfirmed(a, x)
    BY <1>6 DEF ApplyOutbound, receiverVars, histVars, TypeInv, TypeOK, Round
  <2>3. CASE x.out.done = "Held"
    <3>1. \A id \in Ids : ApplyHeld(a, x).hist[id].kind = a.hist[id].kind
      BY <1>a, <2>2, HeldFollows
    <3>2. \A id \in Ids : ApplyHeld(a, x).hist[id].text = a.hist[id].text
      BY <1>a, <2>2, HeldExtends
    <3>3. QED BY <2>1, <2>2, <2>3, <3>1, <3>2
  <2>4. CASE x.out.done # "Held"
    <3>1. \A id \in Ids : ApplyUnconfirmed(a, x).hist[id].kind = a.hist[id].kind
      BY <1>a, <2>2, UnconfirmedFollows
    <3>2. \A id \in Ids : ApplyUnconfirmed(a, x).hist[id].text = a.hist[id].text
      BY <1>a, <2>2, UnconfirmedExtends
    <3>3. QED BY <2>1, <2>2, <2>4, <3>1, <3>2
  <2>5. QED BY <2>3, <2>4
<1>7. GripsGo /\ Same
  BY <1>1, <1>2, <1>3, <1>4, <1>5, <1>6 DEF PollerStep
<1>8. QED BY <1>7, TextsQuiet

\* The texts of the frames and of the edits under way are numbers.
LEMMA TextsAreNumbers ==
    ASSUME TypeInv
    PROVE  /\ \A f \in AllFrames : f.text \in Nat
           /\ \A k \in calls : k.text \in Nat
           /\ \A id \in Ids : a.hist[id].text \in Nat
           /\ \A t \in Texts : t \in Nat
<1>1. \A t \in Texts : t \in Nat
  BY DeliveryAssumption DEF Texts, Blank
<1>2. AllFrames \subseteq Frame
  BY FramesAreFrames
<1>3. calls \subseteq Call /\ a.hist \in [Ids -> Sent]
  BY NodeParts DEF TypeInv, TypeOK, Finite, NodeOK
<1>4. QED
  BY <1>1, <1>2, <1>3 DEF Frame, Call, Sent

\* The other messages of a step under the sender's lock.
LEMMA TextsOfOthers ==
    ASSUME NEW id \in Ids, TextsOK(id), Regripped(id), UNCHANGED <<b, bDisk>>,
           \A f \in AllFrames' : f \in AllFrames \/ f.kind = "Unsend" \/ f.id # id \/ SealedAgain(f),
           a'.hist[id].kind = a.hist[id].kind, a'.hist[id].text = a.hist[id].text,
           \A k \in calls' : Editing(k) /\ k.id = id => k \in calls,
           \A t \in Texts : <<id, t>> \in retired' => <<id, t>> \in retired
    PROVE  TextsOK(id)'
<1>1. /\ OneEditEach(id)'
      /\ \A k \in calls' : Editing(k) /\ k.id = id =>
           \E j \in calls : Editing(j) /\ j.id = id /\ j.text = k.text
      /\ HidesRetired(b', id) /\ HidesRetired(bDisk', id)
  BY EditsStay
<1>2. \A t \in Texts : <<id, t>> \in retired' => <<id, t>> \in retired \/ RetiredOK(id, t)'
  OBVIOUS
<1>3. QED BY <1>1, <1>2, TextsKept

\* A message is composed: nothing of it was anywhere before.
LEMMA RecallSend ==
    ASSUME RecallInv, TypeInv, NEW id \in Ids, SendMessage(id) PROVE RecallInv'
<1> DEFINE f == Message(id, 1, a.seal + 1)
<1>a. NodeOK(a)
  BY TypeGroups DEF SenderOK
<1>0. GripInv /\ \A i \in Ids : TextsOK(i)
  BY DEF RecallInv
<1>1. /\ GripInv' /\ \A i \in Ids : Regripped(i) \/ (i = id /\ Remade(id, 1))
      /\ \A e \in AllFrames' : e \in AllFrames \/ e = f
  BY <1>0, GripSend
<1>2. f.id = id /\ IsMessage(f) /\ f.text = 1 /\ ~IsEdit(id, f)
  BY DEF Message, IsMessage, IsEdit
<1> DEFINE msg == [kind |-> "text", text |-> 1, delivery |-> "queued"]
<1>3. a'.hist = [a.hist EXCEPT ![id] = msg]
  <2> HIDE DEF f, msg
  <2>1. a' = [a EXCEPT !.hist[id] = msg, !.seal = @ + 1, !.pending_sends = @ \cup {f}]
    BY DEF SendMessage, f, msg
  <2>2. QED BY <1>a, <2>1, NodeParts
<1>4. UNCHANGED <<calls, retired, b, bDisk>> /\ a.hist[id].kind = "none"
  BY DEF SendMessage, Locked, receiverVars, histVars
<1> HIDE DEF f
<1>5. ASSUME NEW i \in Ids, i # id PROVE TextsOK(i)'
  <2>1. a'.hist[i] = a.hist[i]
    BY <1>3, <1>5, <1>a, NodeParts
  <2>2. \A e \in AllFrames' : e \in AllFrames \/ e.kind = "Unsend" \/ e.id # i \/ SealedAgain(e)
    BY <1>1, <1>2, <1>5
  <2>3. Regripped(i) /\ TextsOK(i)
    BY <1>0, <1>1, <1>5
  <2>4. /\ \A k \in calls' : Editing(k) /\ k.id = i => k \in calls
        /\ \A t \in Texts : <<i, t>> \in retired' => <<i, t>> \in retired
    BY <1>4
  <2>5. QED BY <1>4, <2>1, <2>2, <2>3, <2>4, TextsOfOthers
<1>6. TextsOK(id)'
  <2>1. (\A e \in AllFrames : e.id # id) /\ \A k \in calls : k.id # id
    BY <1>0, <1>4 DEF GripInv, NotYet
  <2>2. \A t \in Texts : <<id, t>> \notin retired
    BY <1>0, <1>4 DEF TextsOK, RetiredTexts, RetiredOK
  <2>3. a'.hist[id] = msg
    BY <1>3, <1>a, NodeParts
  <2>4. \A e \in AllFrames' : e.id = id => e = f
    BY <1>1, <2>1
  <2>5. \A t : ~Used(id, t)'
    BY <1>2, <1>4, <2>1, <2>4 DEF Used, IsEdit
  <2>6. Current(id, 1)'
    BY <2>3 DEF Current, Blank
  <2>7. GripTexts(id)'
    BY <1>2, <2>4, <2>5, <2>6 DEF GripTexts, IsOf
  <2>8. EditTexts(id)'
    <3>1. \A e \in AllFrames' : ~IsEdit(id, e)
      BY <1>2, <2>4 DEF IsEdit
    <3>2. \A k \in calls' : k.id # id
      BY <1>4, <2>1
    <3>3. QED BY <3>1, <3>2 DEF EditTexts
  <2>9. RetiredTexts(id)'
    BY <1>4, <2>2 DEF RetiredTexts
  <2>10. QED BY <2>7, <2>8, <2>9 DEF TextsOK
<1>7. QED BY <1>1, <1>5, <1>6 DEF RecallInv

\* An edit begins: its text is newer than all there are.
LEMMA RecallBeginEdit ==
    ASSUME RecallInv, TypeInv, NEW id \in Ids, BeginEdit(id) PROVE RecallInv'
<1> DEFINE T == a.hist[id].text
           k == NewCall("edit", id, T + 1)
<1>a. NodeOK(a)
  BY TypeGroups DEF SenderOK
<1>0. GripInv /\ \A i \in Ids : TextsOK(i)
  BY DEF RecallInv
<1>g. GripsGo
  BY <1>0, GripUser
<1>n. /\ \A e \in AllFrames : e.text \in Nat
      /\ \A j \in calls : j.text \in Nat
      /\ T \in Nat /\ \A t \in Texts : t \in Nat
  BY TextsAreNumbers
<1>1. UNCHANGED <<retired, b, bDisk>> /\ a.hist[id].kind = "text" /\ calls' = calls \cup {k}
  BY DEF BeginEdit, Locked, receiverVars
<1>2. k.id = id /\ k.text = T + 1 /\ k.op = "edit"
  BY DEF NewCall
<1>3. a'.hist = [a.hist EXCEPT ![id] = [a.hist[id] EXCEPT !.text = T + 1]]
  <2> DEFINE r == IF a.hist[id].delivery = "queued" THEN {} ELSE a.relay_receipts[id]
             t == T + 1
  <2>1. a' = [a EXCEPT !.hist[id].text = t, !.relay_receipts[id] = r]
    BY DEF BeginEdit
  <2> HIDE DEF r, t
  <2>2. a'.hist = [a.hist EXCEPT ![id] = [a.hist[id] EXCEPT !.text = t]]
    BY <1>a, <2>1, NodeParts
  <2>3. QED BY <2>2 DEF t
<1>4. a'.hist[id].kind = "text" /\ a'.hist[id].text = T + 1
  BY <1>1, <1>3, <1>a, NodeParts DEF Sent
<1> HIDE DEF k
<1>5. ASSUME NEW i \in Ids, i # id PROVE TextsOK(i)'
  <2>1. a'.hist[i] = a.hist[i]
    BY <1>3, <1>5, <1>a, NodeParts
  <2>2. \A e \in AllFrames' : e \in AllFrames \/ e.kind = "Unsend" \/ e.id # i \/ SealedAgain(e)
    BY <1>g DEF GripsGo
  <2>3. Regripped(i) /\ TextsOK(i)
    BY <1>0, <1>g DEF GripsGo
  <2>4. /\ \A j \in calls' : Editing(j) /\ j.id = i => j \in calls
        /\ \A t \in Texts : <<i, t>> \in retired' => <<i, t>> \in retired
    BY <1>1, <1>2, <1>5
  <2>5. QED BY <1>1, <2>1, <2>2, <2>3, <2>4, TextsOfOthers
<1>6. TextsOK(id)'
  <2>0. GripTexts(id) /\ EditTexts(id) /\ RetiredTexts(id) /\ Regripped(id)
    BY <1>0, <1>g DEF TextsOK, GripsGo
  <2> HIDE DEF T
  <2>h. a.hist[id].text = T
    BY DEF T
  <2>1. \A t \in Nat : Current(id, t) => Current(id, t)' /\ t # T + 1
    BY <1>1, <1>4, <1>n, <2>h DEF Current
  <2>2. \A t : t = T + 1 => Current(id, t)'
    <3> SUFFICES ASSUME NEW t, t = T + 1 PROVE Current(id, t)'
      OBVIOUS
    <3>1. t \in Nat /\ t # 0 /\ t <= a'.hist[id].text
      BY <1>4, <1>n
    <3>2. QED BY <3>1 DEF Current, Blank
  <2>3. \A e \in AllFrames' : e \in AllFrames \/ e.kind = "Unsend" \/ SealedAgain(e)
    BY <1>g DEF GripsGo
  <2>4. \A e \in AllFrames' : IsEdit(id, e) => e \in AllFrames
    BY <2>3 DEF IsEdit, SealedAgain, IsMessage
  <2>5. \A t : Used(id, t)' => Used(id, t) \/ t = T + 1
    BY <1>1, <1>2, <2>4 DEF Used
  <2>6. GripTexts(id)'
    <3> SUFFICES ASSUME GripsOn(id)' # {}, NEW e \in AllFrames', IsOf(id, e)
                 PROVE  Current(id, e.text)' /\ ~Used(id, e.text)'
      BY DEF GripTexts
    <3>1. e \in AllFrames /\ Current(id, e.text) /\ ~Used(id, e.text)
      BY <2>0 DEF Regripped, GripTexts
    <3>2. e.text \in Nat
      BY <1>n, <3>1
    <3>3. QED BY <2>1, <2>5, <3>1, <3>2
  <2>7. EditTexts(id)'
    <3>1. ASSUME NEW e \in AllFrames', IsEdit(id, e) PROVE Current(id, e.text)' /\ e.text # T + 1
      BY <1>n, <2>0, <2>1, <2>4, <3>1 DEF EditTexts
    <3>2. ASSUME NEW j \in calls, Editing(j), j.id = id
          PROVE  /\ Current(id, j.text)' /\ j.text # T + 1
                 /\ \A e \in AllFrames' : IsEdit(id, e) => e.text # j.text
      BY <1>n, <2>0, <2>1, <2>4, <3>2 DEF EditTexts
    <3>3. ASSUME NEW j \in calls', Editing(j), j.id = id
          PROVE  /\ Current(id, j.text)'
                 /\ \A e \in AllFrames' : IsEdit(id, e) => e.text # j.text
      <4>1. CASE j \in calls
        BY <3>2, <3>3, <4>1
      <4>2. CASE j = k
        BY <1>2, <2>2, <3>1, <4>2
      <4>3. QED BY <1>1, <4>1, <4>2
    <3>4. ASSUME NEW i \in calls', NEW j \in calls', Editing(i), Editing(j), i.id = id, j.id = id,
                 i.text = j.text
          PROVE  i = j
      <4>1. (i \in calls \/ i = k) /\ (j \in calls \/ j = k)
        BY <1>1
      <4>2. CASE i \in calls /\ j \in calls
        BY <2>0, <3>4, <4>2 DEF EditTexts
      <4>3. CASE i = k \/ j = k
        BY <1>2, <3>2, <3>4, <4>1, <4>3
      <4>4. QED BY <4>1, <4>2, <4>3
    <3>5. QED BY <3>1, <3>3, <3>4 DEF EditTexts, Editing
  <2>8. ASSUME NEW t \in Texts, <<id, t>> \in retired' PROVE RetiredOK(id, t)'
    <3>1. RetiredOK(id, t)
      BY <1>1, <2>0, <2>8 DEF RetiredTexts
    <3>2. Current(id, t) /\ t # T /\ ~Used(id, t) /\ t \in Nat
      BY <1>1, <1>n, <2>h, <3>1 DEF RetiredOK
    <3>3. Current(id, t)' /\ t # T + 1 /\ ~Used(id, t)'
      BY <2>1, <2>5, <3>2
    <3>4. \A e \in AllFrames' : IsOf(id, e) => e.text # t
      BY <2>3, <2>h, <3>1, <3>2 DEF RetiredOK, SealedAgain, IsOf, IsMessage
    <3>5. QED BY <1>1, <1>4, <3>1, <3>3, <3>4 DEF RetiredOK, NotShownNow
  <2>9. QED BY <2>6, <2>7, <2>8 DEF TextsOK, RetiredTexts
<1>7. QED BY <1>g, <1>5, <1>6 DEF RecallInv, GripsGo

\* The user's steps.
LEMMA RecallUser ==
    ASSUME RecallInv, TypeInv, UserStep PROVE RecallInv'
<1>1. ASSUME NEW id \in Ids, BeginUnsend(id) PROVE RecallInv'
  <2>1. NodeOK(a) /\ GripInv
    BY TypeGroups DEF SenderOK, RecallInv
  <2>2. GripsGo
    BY <1>1, <2>1, GripUser
  <2>3. UNCHANGED <<retired, b, bDisk>> /\ calls' = calls \cup {NewCall("unsend", id, Blank)}
    BY <1>1 DEF BeginUnsend, Locked, receiverVars
  <2>4. a'.hist = a.hist
    BY <1>1, <2>1, NodeParts DEF BeginUnsend
  <2>5. \A k \in calls' : Editing(k) => k \in calls
    BY <2>3 DEF Editing, NewCall
  <2>6. QED BY <2>2, <2>3, <2>4, <2>5, TextsQuiet
<1>2. QED
  BY <1>1, RecallSend, RecallBeginEdit DEF UserStep

\* A call's frame goes out, or its outcome is taken: its text is sealed.
LEMMA RecallCallsOut ==
    ASSUME RecallSafe, RecallInv, TypeInv, NEW k \in calls, NEW o \in k.out,
           RunCall(k, o) \/ ApplyCall(k, o)
    PROVE  RecallInv'
<1>0. GripInv /\ NodeOK(a) /\ k \in Call /\ "apply" \notin {"recall", "finish"}
  BY TypeGroups DEF SenderOK, RecallInv
<1>1. ASSUME RunCall(k, o) PROVE RecallInv'
  <2>1. GripsGo
    BY <1>0, <1>1, GripRunCall
  <2>2. PICK d : calls' = (calls \ {k}) \cup {[k EXCEPT !.phase = "apply", !.delivery = d]}
    BY <1>1 DEF RunCall
  <2>3. [k EXCEPT !.phase = "apply", !.delivery = d].phase = "apply"
    BY <1>0 DEF Call
  <2>4. \A j \in calls' : Editing(j) => j \in calls
    BY <1>0, <2>2, <2>3 DEF Editing
  <2>5. UNCHANGED <<a, b, bDisk, retired>>
    BY <1>1 DEF RunCall, receiverVars, histVars
  <2>6. QED BY <2>1, <2>4, <2>5, TextsQuiet
<1>2. ASSUME ApplyCall(k, o) PROVE RecallInv'
  <2>1. GripsGo
    BY <1>0, <1>2, GripApplyCall
  <2>2. calls' = calls \ {k} /\ UNCHANGED <<b, bDisk, retired>>
    BY <1>2 DEF ApplyCall, CallEnds, Locked, receiverVars
  <2>3. a'.hist = a.hist
    <3> DEFINE held == IF k.delivery.via = "Failed" /\ ~HasRelayRoute THEN Hold(a.held, {o.frame}) ELSE a.held
               copies == IF o.done = "CallerRecords" /\ k.delivery.via # "Failed"
                         THEN k.delivery.copies ELSE a.relay_receipts[k.id]
    <3>1. a' = [a EXCEPT !.held = held, !.relay_receipts[k.id] = copies]
      BY <1>2 DEF ApplyCall
    <3> HIDE DEF held, copies
    <3>2. QED BY <1>0, <3>1, NodeParts
  <2>4. \A j \in calls' : Editing(j) => j \in calls
    BY <2>2
  <2>5. QED BY <2>1, <2>2, <2>3, <2>4, TextsQuiet
<1>3. QED BY <1>1, <1>2

\* One copy is recalled. When it was the last one, the message is nowhere: its
\* text is taken back.
LEMMA RecallOneCopy ==
    ASSUME RecallInv, TypeInv, NEW k \in calls, NEW c \in k.copies, RecallCopy(k, c) PROVE RecallInv'
<1>0. GripInv /\ \A i \in Ids : TextsOK(i)
  BY DEF RecallInv
<1>g. GripsGo
  BY <1>0, GripRecall
<1>k. k \in Call /\ CallIsOwn(k) /\ k.id \in Ids /\ c \in Copy
  BY <1>0 DEF TypeInv, TypeOK, Call, GripInv
<1>1. PICK ok \in BOOLEAN :
        /\ calls' = (calls \ {k}) \cup {[k EXCEPT !.copies = @ \ {c}, !.recalled = IF ok THEN @ ELSE "no"]}
        /\ Withdraws(k, c, ok) /\ (ok => RecallOk(c))
  BY DEF RecallCopy
<1>2. UNCHANGED <<a, b, bDisk>> /\ k.phase = "recall"
  BY DEF RecallCopy, receiverVars
<1> DEFINE m == [k EXCEPT !.copies = @ \ {c}, !.recalled = IF ok THEN @ ELSE "no"]
           id == k.id
           t0 == c.frame.text
           last == ok /\ k.recalled = "yes" /\ k.copies = {c}
<1>m. /\ m.id = id /\ m.phase = "recall" /\ m.copies = k.copies \ {c} /\ m.op = k.op
      /\ m.text = k.text /\ m.recalled = (IF ok THEN k.recalled ELSE "no")
  BY <1>k, <1>2 DEF Call
<1>3. calls' = (calls \ {k}) \cup {m}
  BY <1>1
<1>4. retired' = IF last THEN TakenBack(id, {t0}) ELSE retired
  BY <1>1 DEF Withdraws
<1> HIDE DEF m
<1>5. \A j \in calls' : (j \in calls /\ j # k) \/ j = m
  BY <1>3
<1>6. Editing(m) <=> Editing(k)
  BY <1>2, <1>m DEF Editing
<1>7. ASSUME NEW i \in Ids PROVE
        /\ OneEditEach(i)'
        /\ \A j \in calls' : Editing(j) /\ j.id = i =>
             \E l \in calls : Editing(l) /\ l.id = i /\ l.text = j.text
  <2>1. \A j, l \in calls : Editing(j) /\ Editing(l) /\ j.id = i /\ l.id = i /\ j.text = l.text => j = l
    BY <1>0 DEF TextsOK, EditTexts
  <2>2. ASSUME NEW j \in calls', NEW l \in calls', Editing(j), Editing(l), j.id = i, l.id = i, j.text = l.text
        PROVE  j = l
    <3>1. CASE j = m /\ l = m
      BY <3>1
    <3>2. CASE j = m /\ l \in calls /\ l # k
      BY <1>6, <1>m, <2>1, <2>2, <3>2
    <3>3. CASE l = m /\ j \in calls /\ j # k
      BY <1>6, <1>m, <2>1, <2>2, <3>3
    <3>4. CASE j \in calls /\ l \in calls
      BY <2>1, <2>2, <3>4
    <3>5. QED BY <1>5, <3>1, <3>2, <3>3, <3>4
  <2>3. OneEditEach(i)'
    BY <2>2 DEF OneEditEach, Editing
  <2>4. QED BY <1>5, <1>6, <1>m, <2>3
\* The last copy gone, no frame of the message is left, and nobody has seen it.
<1>8. ASSUME last, t0 # a.hist[id].text, t0 \in Texts PROVE RetiredOK(id, t0)'
  <2>1. RecallOk(c) /\ "no" # "yes"
    BY <1>1, <1>8
  <2>2. c.relay # Handed
    BY <2>1, DeliveryAssumption DEF RecallOk
  <2>3. Recalls(id, k) /\ Recalls(id, m)
    BY <1>2, <1>8, <1>m, <2>2 DEF Recalls, Recallable
  <2>4. CallGrip(k) \in GripsOn(id)
    BY <1>k, <2>3, CallGripped
  <2>5. c.frame \in AllFrames /\ IsOf(id, c.frame)
    <3>1. c.frame \in FramesOf(mailbox[c.relay]) /\ c.relay \in Relays
      BY <2>1 DEF RecallOk, Places, FramesOf
    <3>2. QED BY <1>k, <3>1 DEF AllFrames, InTransit, CallIsOwn
  <2>6. Current(id, t0) /\ ~Used(id, t0)
    BY <1>0, <1>k, <2>4, <2>5 DEF TextsOK, GripTexts
  <2>7. \E h \in GripsOn(id)' : h.frames = {} /\ h.copies = {}
    <3> DEFINE h == Grip("recall", FramesIn(m.copies), m.copies, {m})
    <3>1. m \in calls' /\ Recalls(id, m)'
      BY <1>3, <2>3 DEF Recalls
    <3>2. h \in GripsOn(id)'
      BY <3>1 DEF GripsOn, CallGrips, Recalls
    <3>3. h.frames = {} /\ h.copies = {}
      BY <1>8, <1>m DEF Grip, FramesIn
    <3>4. QED BY <3>2, <3>3
  <2>8. (\A e \in AllFrames' : ~IsOf(id, e)) /\ Unseen(id)' /\ a'.hist[id].kind \notin {"none", "gone"}
    <3>1. PICK h \in GripsOn(id)' : h.frames = {} /\ h.copies = {}
      BY <2>7
    <3>2. GripOK(id)'
      BY <1>g, <1>k DEF GripsGo, GripInv
    <3>3. Firm(id, h)' /\ a'.hist[id].kind \notin {"none", "gone"}
      BY <3>1, <3>2 DEF GripOK, Absent
    <3>4. QED BY <3>1, <3>3 DEF Firm, Sole, Intact
  <2>9. Current(id, t0)' /\ ~Used(id, t0)'
    <3>1. \A e \in AllFrames' : IsEdit(id, e) => e \in AllFrames
      BY <1>g DEF GripsGo, IsEdit, SealedAgain, IsMessage
    <3>2. QED
      BY <1>2, <1>5, <1>6, <1>m, <2>6, <3>1 DEF Used, Current
  <2>10. NotShownNow(b', id, t0) /\ NotShownNow(bDisk', id, t0)
    BY <2>8 DEF Unseen, Received, NotShownNow
  <2>11. QED
    BY <1>2, <1>8, <2>8, <2>9, <2>10 DEF RetiredOK, NotShownNow
<1>9. ASSUME NEW i \in Ids PROVE TextsOK(i)'
  <2>1. TextsOK(i) /\ Regripped(i)
    BY <1>0, <1>g DEF GripsGo
  <2>2. HidesRetired(b', i) /\ HidesRetired(bDisk', i)
    BY <1>2, <2>1 DEF TextsOK, RetiredTexts, RetiredOK, HidesRetired
  <2>3. \A f \in AllFrames' : f \in AllFrames \/ f.kind = "Unsend" \/ f.id # i \/ SealedAgain(f)
    BY <1>g DEF GripsGo
  <2>4. \A t \in Texts : <<i, t>> \in retired' => <<i, t>> \in retired \/ RetiredOK(i, t)'
    <3> SUFFICES ASSUME NEW t \in Texts, <<i, t>> \in retired', <<i, t>> \notin retired PROVE RetiredOK(i, t)'
      OBVIOUS
    <3>1. last /\ i = id /\ t = t0 /\ t0 # a.hist[id].text
      BY <1>4 DEF TakenBack
    <3>2. RetiredOK(id, t0)'
      BY <1>8, <3>1
    <3>3. \A j, u : j = id /\ u = t0 /\ RetiredOK(id, t0)' => RetiredOK(j, u)'
      OBVIOUS
    <3>4. QED BY <3>1, <3>2, <3>3
  <2>5. a'.hist[i].kind = a.hist[i].kind /\ a'.hist[i].text = a.hist[i].text
    BY <1>2
  <2>6. QED BY <1>7, <2>1, <2>2, <2>3, <2>4, <2>5, TextsKept
<1>10. QED BY <1>g, <1>9 DEF RecallInv, GripsGo

\* An edit's finish: the text of the call is new to every frame, and what it
\* replaces in a held copy nobody has seen.
LEMMA RecallFinishEdit ==
    ASSUME RecallInv, TypeInv, NEW k \in calls, FinishEdit(k) PROVE RecallInv'
<1> DEFINE id == k.id
           mine == HeldUnsent(a, id)
           f == Message(id, k.text, a.seal + 1)
           e == Edit(id, k.text, a.seal + 1)
           whole == mine # {} \/ k.recalled = "yes"
<1>a. NodeOK(a)
  BY TypeGroups DEF SenderOK
<1>0. GripInv /\ \A i \in Ids : TextsOK(i)
  BY DEF RecallInv
<1>k. k \in Call /\ id \in Ids /\ a.hist[id].kind # "none"
  BY <1>0, Composed DEF TypeInv, TypeOK
<1>g. /\ GripInv'
      /\ \A i \in Ids : IF i = id /\ whole THEN Remade(i, k.text) ELSE Regripped(i)
      /\ \A d \in AllFrames' : d \in AllFrames \/ d = f \/ (d = e /\ ~whole)
  BY <1>0, GripFinishEdit
<1>f. /\ IsMessage(f) /\ f.id = id /\ f.text = k.text /\ f.kind = "Message"
      /\ e.kind = "Edit" /\ e.id = id /\ e.text = k.text
  BY DEF Message, Edit, IsMessage
<1>1. UNCHANGED <<b, bDisk>> /\ k.op = "edit" /\ RecallDone(k)
  BY DEF FinishEdit, Locked, receiverVars
<1>2. Editing(k)
  BY <1>1 DEF Editing, RecallDone
<1>3. a'.hist = a.hist
  <2> DEFINE s == a.seal + 1
             held == (a.held \ mine) \cup {[h EXCEPT !.frame = Message(id, k.text, s)] : h \in mine}
  <2>1. a' = [a EXCEPT !.seal = s] \/ a' = [a EXCEPT !.seal = s, !.held = held]
    BY DEF FinishEdit
  <2> HIDE DEF held, s
  <2>2. CASE a' = [a EXCEPT !.seal = s]
    BY <1>a, <2>2, NodeParts
  <2>3. CASE a' = [a EXCEPT !.seal = s, !.held = held]
    BY <1>a, <2>3, NodeParts
  <2>4. QED BY <2>1, <2>2, <2>3
<1>4. /\ \A j \in calls' : Editing(j) => j \in calls /\ j # k
      /\ retired' = IF mine # {} THEN TakenBack(id, {h.frame.text : h \in mine}) ELSE retired
  <2>1. CASE mine # {}
    BY <2>1 DEF FinishEdit, CallEnds
  <2>2. CASE mine = {}
    <3> DEFINE m(o) == [k EXCEPT !.phase = "send", !.out = {o}]
    <3>1. \A o : m(o).phase = "send"
      BY <1>k DEF Call
    <3>2. retired' = retired /\ \E o : calls' = (calls \ {k}) \cup {m(o)}
      BY <2>2 DEF FinishEdit, CallSends
    <3> HIDE DEF m
    <3>3. \A o : ~Editing(m(o))
      BY <3>1 DEF Editing
    <3>4. QED BY <2>2, <3>2, <3>3
  <2>3. QED BY <2>1, <2>2
<1> HIDE DEF f, e
<1>5. ASSUME NEW i \in Ids, i # id PROVE TextsOK(i)'
  <2>1. \A d \in AllFrames' : d \in AllFrames \/ d.kind = "Unsend" \/ d.id # i \/ SealedAgain(d)
    BY <1>5, <1>f, <1>g
  <2>2. Regripped(i) /\ TextsOK(i)
    BY <1>0, <1>5, <1>g
  <2>3. /\ \A j \in calls' : Editing(j) /\ j.id = i => j \in calls
        /\ \A t \in Texts : <<i, t>> \in retired' => <<i, t>> \in retired
    BY <1>4, <1>5 DEF TakenBack
  <2>4. a'.hist[i].kind = a.hist[i].kind /\ a'.hist[i].text = a.hist[i].text
    BY <1>3
  <2>5. QED BY <1>1, <2>1, <2>2, <2>3, <2>4, TextsOfOthers
<1>6. TextsOK(id)'
  <2>0. GripTexts(id) /\ EditTexts(id) /\ RetiredTexts(id) /\ GripOK(id)'
    BY <1>0, <1>g, <1>k DEF TextsOK, GripInv
  <2>1. /\ Current(id, k.text) /\ Used(id, k.text)
        /\ \A d \in AllFrames : IsEdit(id, d) => d.text # k.text
        /\ \A j \in calls : Editing(j) /\ j.id = id /\ j.text = k.text => j = k
    BY <1>2, <2>0 DEF EditTexts, Used
  <2>2. \A t : Current(id, t)' <=> Current(id, t)
    BY <1>3 DEF Current
  <2>3. \A d \in AllFrames' : IsEdit(id, d) => d \in AllFrames \/ (d.text = k.text /\ ~whole)
    BY <1>f, <1>g DEF IsEdit
  <2>4. \A d \in AllFrames' : IsOf(id, d) => d \in AllFrames \/ d.text = k.text
    BY <1>f, <1>g DEF IsOf, IsMessage
  <2>5. \A t : Used(id, t)' => Used(id, t)
    BY <1>4, <2>1, <2>3 DEF Used
  <2>6. whole => ~Used(id, k.text)'
    BY <1>4, <2>1, <2>3 DEF Used
  <2>7. GripTexts(id)'
    <3> SUFFICES ASSUME GripsOn(id)' # {}, NEW d \in AllFrames', IsOf(id, d)
                 PROVE  Current(id, d.text)' /\ ~Used(id, d.text)'
      BY DEF GripTexts
    <3>1. CASE whole
      <4>1. d.text = k.text
        BY <1>g, <1>k, <3>1 DEF Remade
      <4>2. QED BY <2>1, <2>2, <2>6, <3>1, <4>1
    <3>2. CASE ~whole
      <4>1. d \in AllFrames /\ GripsOn(id) # {}
        BY <1>g, <1>k, <3>2 DEF Regripped
      <4>2. QED BY <2>0, <2>2, <2>5, <4>1 DEF GripTexts
    <3>3. QED BY <3>1, <3>2
  <2>8. EditTexts(id)'
    <3>1. \A d \in AllFrames' : IsEdit(id, d) => Current(id, d.text)'
      BY <2>0, <2>1, <2>2, <2>3 DEF EditTexts
    <3>2. \A j \in calls' : Editing(j) /\ j.id = id =>
            /\ Current(id, j.text)'
            /\ \A d \in AllFrames' : IsEdit(id, d) => d.text # j.text
      BY <1>4, <2>0, <2>1, <2>2, <2>3 DEF EditTexts
    <3>3. \A i, j \in calls' : Editing(i) /\ Editing(j) /\ i.id = id /\ j.id = id /\ i.text = j.text => i = j
      BY <1>4, <2>0 DEF EditTexts
    <3>4. QED BY <3>1, <3>2, <3>3 DEF EditTexts, Editing
  <2>9. ASSUME NEW t \in Texts, <<id, t>> \in retired' PROVE RetiredOK(id, t)'
    <3>1. CASE <<id, t>> \in retired
      <4>1. RetiredOK(id, t)
        BY <2>0, <3>1 DEF RetiredTexts
      <4>2. \A d \in AllFrames' : IsOf(id, d) => d.text # t
        <5>1. CASE a.hist[id].kind = "gone"
          BY <1>3, <2>0, <5>1 DEF GripOK, Absent
        <5>2. CASE a.hist[id].kind # "gone"
          <6>1. t # k.text
            BY <2>1, <4>1, <5>2 DEF RetiredOK
          <6>2. QED BY <2>4, <4>1, <6>1 DEF RetiredOK
        <5>3. QED BY <5>1, <5>2
      <4>3. QED
        BY <1>1, <1>3, <2>2, <2>5, <4>1, <4>2 DEF RetiredOK, NotShownNow
    <3>2. CASE <<id, t>> \notin retired
      <4>1. PICK h \in mine : t = h.frame.text /\ t # a.hist[id].text
        BY <1>4, <2>9, <3>2 DEF TakenBack
      <4>2. h \in a.held /\ IsOf(id, h.frame) /\ ~h.in_flight
        BY DEF HeldUnsent, IsOf, IsMessage
      <4>3. Grip("held", {h.frame}, {}, {}) \in GripsOn(id) /\ h.frame \in AllFrames
        BY <4>2 DEF GripsOn, NodeGrips, Idle, IdleOf, Frames, AllFrames, AtWork
      <4>4. Current(id, t) /\ ~Used(id, t) /\ t # k.text
        BY <2>0, <2>1, <4>1, <4>2, <4>3 DEF GripTexts
      <4>5. Unseen(id) /\ ~NoMessage(a, id)
        BY <1>0, <1>k, FoundHeld
      <4>6. NotShownNow(b, id, t) /\ NotShownNow(bDisk, id, t)
        BY <4>5 DEF Unseen, Received, NotShownNow
      <4>7. \A d \in AllFrames' : IsOf(id, d) => d.text # t
        BY <1>g, <1>k, <4>4 DEF Remade
      <4>8. QED
        BY <1>1, <1>3, <2>2, <2>5, <4>1, <4>4, <4>5, <4>6, <4>7 DEF RetiredOK, NotShownNow, NoMessage
    <3>3. QED BY <3>1, <3>2
  <2>10. QED BY <2>7, <2>8, <2>9 DEF TextsOK, RetiredTexts
<1>7. QED BY <1>g, <1>5, <1>6 DEF RecallInv

\* An unsend's finish: a message that is gone is nowhere; a tombstone has no
\* text to show.
LEMMA RecallFinishUnsend ==
    ASSUME RecallInv, TypeInv, NEW k \in calls, FinishUnsend(k) PROVE RecallInv'
<1> DEFINE id == k.id
           g1 == [a.hist EXCEPT ![id] = Gone]
           g2 == [a.hist EXCEPT ![id] = make_tombstone(a.hist[id])]
           all == retired \cup {<<id, t>> : t \in Texts}
<1>a. NodeOK(a)
  BY TypeGroups DEF SenderOK
<1>0. GripInv /\ \A i \in Ids : TextsOK(i)
  BY DEF RecallInv
<1>k. k \in Call /\ id \in Ids
  BY DEF TypeInv, TypeOK, Call
<1>g. GripsGo
  BY <1>0, GripFinishUnsend
<1>1. UNCHANGED <<b, bDisk>>
  BY DEF FinishUnsend, Locked, receiverVars
<1>2. \A j \in calls' : Editing(j) => j \in calls
  <2> DEFINE m(o) == [k EXCEPT !.phase = "send", !.out = {o}]
  <2>1. \A o : m(o).phase = "send"
    BY <1>k DEF Call
  <2>2. calls' = calls \ {k} \/ \E o : calls' = (calls \ {k}) \cup {m(o)}
    BY DEF FinishUnsend, CallEnds, CallSends
  <2> HIDE DEF m
  <2>3. QED BY <2>1, <2>2 DEF Editing
<1>3. \/ a'.hist = g1 /\ retired' = all
      \/ a'.hist = a.hist /\ retired' = retired
      \/ a'.hist = g2 /\ retired' = retired /\ Present(a.hist[id])
  <2> DEFINE held == a.held \ HeldUnsent(a, id)
             s == a.seal + 1
  <2>1. \/ a' = [a EXCEPT !.held = held, !.hist = g1] /\ retired' = all
        \/ a' = a /\ retired' = retired
        \/ a' = [a EXCEPT !.hist = g1] /\ retired' = all
        \/ a' = [a EXCEPT !.hist = g2, !.seal = s] /\ retired' = retired /\ Present(a.hist[id])
    BY <1>a DEF FinishUnsend, NodeOK, Node
  <2> HIDE DEF g1, g2, held, s, all
  <2>2. ASSUME a' = [a EXCEPT !.held = held, !.hist = g1] PROVE a'.hist = g1
    BY <1>a, <2>2, NodeParts
  <2>3. ASSUME a' = [a EXCEPT !.hist = g1] PROVE a'.hist = g1
    BY <1>a, <2>3, NodeParts
  <2>4. ASSUME a' = [a EXCEPT !.hist = g2, !.seal = s] PROVE a'.hist = g2
    BY <1>a, <2>4, NodeParts
  <2>5. QED BY <2>1, <2>2, <2>3, <2>4
<1>4. /\ \A i \in Ids : i # id => g1[i] = a.hist[i] /\ g2[i] = a.hist[i]
      /\ g1[id].kind = "gone" /\ g2[id].kind = "deleted" /\ g2[id].text = Blank
  BY <1>a, <1>k, NodeParts DEF Gone, make_tombstone
<1> HIDE DEF g1, g2
<1>5. ASSUME NEW i \in Ids, i # id \/ (a'.hist = a.hist /\ retired' = retired) PROVE TextsOK(i)'
  <2>1. \A d \in AllFrames' : d \in AllFrames \/ d.kind = "Unsend" \/ d.id # i \/ SealedAgain(d)
    BY <1>g DEF GripsGo
  <2>2. Regripped(i) /\ TextsOK(i)
    BY <1>0, <1>g DEF GripsGo
  <2>3. /\ \A j \in calls' : Editing(j) /\ j.id = i => j \in calls
        /\ \A t \in Texts : <<i, t>> \in retired' => <<i, t>> \in retired
    BY <1>2, <1>3, <1>5
  <2>4. a'.hist[i].kind = a.hist[i].kind /\ a'.hist[i].text = a.hist[i].text
    BY <1>3, <1>4, <1>5
  <2>5. QED BY <1>1, <2>1, <2>2, <2>3, <2>4, TextsOfOthers
<1>6. ASSUME a'.hist = g1 \/ (a'.hist = g2 /\ retired' = retired /\ Present(a.hist[id])) PROVE TextsOK(id)'
  <2>0. GripTexts(id) /\ EditTexts(id) /\ RetiredTexts(id) /\ GripOK(id)' /\ Regripped(id)
    BY <1>0, <1>g, <1>k DEF TextsOK, GripsGo, GripInv
  <2>k. a'.hist[id].kind \in {"gone", "deleted"}
    BY <1>4, <1>6
  <2>1. \A t : Current(id, t) => Current(id, t)'
    BY <2>k DEF Current
  <2>2. \A d \in AllFrames' : IsEdit(id, d) => d \in AllFrames
    BY <1>g DEF GripsGo, IsEdit, SealedAgain, IsMessage
  <2>3. \A t : Used(id, t)' => Used(id, t)
    BY <1>2, <2>2 DEF Used
  <2>4. GripTexts(id)'
    BY <2>0, <2>1, <2>3 DEF GripTexts, Regripped
  <2>5. EditTexts(id)'
    <3>1. \A d \in AllFrames' : IsEdit(id, d) => Current(id, d.text)'
      BY <2>0, <2>1, <2>2 DEF EditTexts
    <3>2. \A j \in calls' : Editing(j) /\ j.id = id =>
            /\ Current(id, j.text)'
            /\ \A d \in AllFrames' : IsEdit(id, d) => d.text # j.text
      BY <1>2, <2>0, <2>1, <2>2 DEF EditTexts
    <3>3. \A i, j \in calls' : Editing(i) /\ Editing(j) /\ i.id = id /\ j.id = id /\ i.text = j.text => i = j
      BY <1>2, <2>0 DEF EditTexts
    <3>4. QED BY <3>1, <3>2, <3>3 DEF EditTexts, Editing
  <2>6. ASSUME NEW t \in Texts, <<id, t>> \in retired' PROVE RetiredOK(id, t)'
    <3>1. CASE a'.hist = g1
      <4>1. Unseen(id)' /\ a'.hist[id].kind = "gone" /\ \A d \in AllFrames' : ~IsOf(id, d)
        BY <1>4, <2>0, <3>1 DEF GripOK, Absent
      <4>2. QED BY <4>1 DEF RetiredOK, Unseen, Received, NotShownNow
    <3>2. CASE a'.hist = g2 /\ retired' = retired /\ Present(a.hist[id])
      <4>1. RetiredOK(id, t) /\ a.hist[id].kind # "gone"
        BY <2>0, <2>6, <3>2 DEF RetiredTexts, Present
      <4>2. Current(id, t)' /\ t # a'.hist[id].text /\ ~Used(id, t)' /\ a'.hist[id].kind = "deleted"
        BY <1>4, <2>1, <2>3, <3>2, <4>1 DEF RetiredOK, Current
      <4>3. \A d \in AllFrames' : IsOf(id, d) => d.text # t
        <5> SUFFICES ASSUME NEW d \in AllFrames', IsOf(id, d) PROVE d.text # t
          OBVIOUS
        <5>1. d \in AllFrames \/ SealedAgain(d)
          BY <1>g DEF GripsGo, IsOf, IsMessage
        <5>2. QED BY <4>1, <5>1 DEF RetiredOK, SealedAgain, IsOf
      <4>4. QED BY <1>1, <4>1, <4>2, <4>3 DEF RetiredOK, NotShownNow
    <3>3. QED BY <1>6, <3>1, <3>2
  <2>7. QED BY <2>4, <2>5, <2>6 DEF TextsOK, RetiredTexts
<1>7. TextsOK(id)'
  BY <1>3, <1>5, <1>6, <1>k
<1>8. \A i \in Ids : TextsOK(i)'
  <2>1. ASSUME NEW i \in Ids PROVE TextsOK(i)'
    <3>1. CASE i # id
      BY <1>5, <3>1
    <3>2. CASE i = id
      BY <1>7, <3>2
    <3>3. QED BY <3>1, <3>2
  <2>2. QED BY <2>1
<1>9. QED BY <1>g, <1>8 DEF RecallInv, GripsGo

\* Nothing was taken back yet.
LEMMA RecallInit == Init => RecallInv
<1> SUFFICES ASSUME Init PROVE RecallInv
  OBVIOUS
<1>1. GripInv
  BY GripInit
<1>2. /\ a.pending_sends = {} /\ a.held = {} /\ a.outbox = {} /\ planned = {} /\ outcomes = {}
      /\ round.todo = {} /\ round.finished = {} /\ calls = {} /\ wire = {}
      /\ mailbox = [r \in Relays |-> <<>>] /\ drained = <<>> /\ retired = {}
  BY DEF Init, NoRound
<1>3. AllFrames = {}
  BY <1>2 DEF AllFrames, AtWork, InTransit, Frames, FramesOf
<1>4. \A id \in Ids : TextsOK(id)
  BY <1>2, <1>3 DEF TextsOK, GripTexts, EditTexts, RetiredTexts
<1>5. QED BY <1>1, <1>4 DEF RecallInv

\* Every step of Delivery, the sender's restart and the lost answer of a post
\* apart, keeps RecallInv.
LEMMA RecallStep == RecallSafe /\ RecallInv /\ TypeInv /\ [Next]_vars => RecallInv'
<1> SUFFICES ASSUME RecallSafe, RecallInv, TypeInv, [Next]_vars PROVE RecallInv'
  OBVIOUS
<1>1. CASE CallStep
  BY <1>1, RecallOneCopy, RecallFinishEdit, RecallFinishUnsend, RecallCallsOut DEF CallStep
<1>2. CASE UNCHANGED vars
  <2>1. GripsGo
    BY <1>2, GripStutters DEF RecallInv
  <2>2. UNCHANGED <<a, calls, b, bDisk, retired>>
    BY <1>2 DEF vars, senderVars, receiverVars, histVars
  <2>3. QED BY <2>1, <2>2, TextsQuiet
<1>3. QED
  BY <1>1, <1>2, RecallUser, RecallPoller, RecallReceiver, RecallClock, RecallFailures DEF Next

\* What was withdrawn before anyone had it (a message recalled in full, the old
\* text of an edited copy that was still held) the receiver never shows,
\* wherever the copies of it and the edits behind it still were: as long as the
\* sender learns of every copy a relay stored, and is not killed before it saved
\* where its copies are.
THEOREM WithdrawnStaysUnseen == RecallSafe => (Spec => []RetiredNeverShown)
<1>1. Init => TypeInv /\ RecallInv
  BY TypeInit, RecallInit
<1>2. RecallSafe /\ TypeInv /\ RecallInv /\ [Next]_vars => TypeInv' /\ RecallInv'
  BY TypeStep, RecallStep
<1>3. TypeInv /\ RecallInv => RetiredNeverShown
  <2> SUFFICES ASSUME TypeInv, RecallInv, NEW id \in Ids, b.inbox[id].kind = "text" PROVE <<id, b.inbox[id].text>> \notin retired
    BY DEF RetiredNeverShown
  <2>1. b.inbox[id].text \in Texts
    BY TypeGroups DEF ReceiverOK, Receiver, Shown
  <2>2. QED BY <2>1 DEF RecallInv, TextsOK, RetiredTexts, RetiredOK, NotShownNow
<1>4. QED
  <2> SUFFICES ASSUME RecallSafe PROVE Spec => []RetiredNeverShown
    OBVIOUS
  <2>1. TypeInv /\ RecallInv /\ [Next]_vars => TypeInv' /\ RecallInv'
    BY <1>2
  <2>2. QED BY <1>1, <1>3, <2>1, PTL DEF Spec
===============================================================================
