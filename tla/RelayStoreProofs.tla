--------------------------- MODULE RelayStoreProofs ---------------------------
(***************************************************************************)
(* Proofs about RelayStore, for every set of handles, connections, sizes   *)
(* and ttls and every value of the limits.                                 *)
(***************************************************************************)
EXTENDS RelayStore, TallyProofs, TLAPS

\* A drain removes stored entries only (drain_handle_bounded pops its queue).
LEMMA DrainedInMap == ASSUME NEW hs PROVE DrainedBy(hs) \subseteq map
BY DEF DrainedBy, Drained, Queue

\* The clamp of Request::Post: a natural number, at most MaxTtl.
LEMMA ClampBounds ==
    ASSUME NEW ttl \in Ttls PROVE Clamp(ttl) \in Nat /\ Clamp(ttl) <= MaxTtl
BY LimitsAssumption DEF Clamp

\* The steps of a request thread and of the background threads keep the type
\* of every variable.
LEMMA TypeStep == TypeOK /\ [Next]_vars => TypeOK'
<1> SUFFICES ASSUME TypeOK, [Next]_vars PROVE TypeOK'
  OBVIOUS
<1> USE LimitsAssumption
<1> USE DEF TypeOK, store, flushing, history, vars
<1>2. ASSUME NEW c \in Conns, NEW h \in Handles, NEW size \in Sizes, PostRefused(c, h, size)
      PROVE  TypeOK'
  BY <1>2 DEF PostRefused, Processed, ConnState, Phases, Kinds
<1>3. ASSUME NEW c \in Conns, NEW h \in Handles, NEW size \in Sizes, NEW ttl \in Ttls,
             Post(c, h, size, ttl)
      PROVE  TypeOK'
  <2>1. nextId \in Ids
    BY <1>3 DEF Post, Ids
  <2>2. conn' \in [Conns -> ConnState]
    BY <1>3, <2>1 DEF Post, Processed, ConnState, Phases, Kinds
  <2>3. map' \in SUBSET Entry
    BY <1>3, <2>1, ClampBounds DEF Post, Entry
  <2>4. QED
    BY <1>3, <2>1, <2>2, <2>3 DEF Post
<1>4. ASSUME NEW c \in Conns, Peek(c) PROVE TypeOK'
  BY <1>4 DEF Peek, Processed, ConnState, Phases, Kinds
<1>5. ASSUME NEW c \in Conns, GetDirectory(c) PROVE TypeOK'
  BY <1>5 DEF GetDirectory, Processed, ConnState, Phases, Kinds
<1>6. ASSUME NEW c \in Conns, NEW hs, Drain(c, hs) PROVE TypeOK'
  <2>1. IdsOf(Live(DrainedBy(hs))) \in SUBSET Ids
    BY DrainedInMap DEF IdsOf, Live, Entry
  <2>2. conn' \in [Conns -> ConnState]
    BY <1>6, <2>1 DEF Drain, Processed, ConnState, Phases, Kinds
  <2>3. QED
    BY <1>6, <2>2 DEF Drain, Remove
<1>7. ASSUME NEW c \in Conns, NEW hs, TakeManyRefused(c, hs) PROVE TypeOK'
  BY <1>7 DEF TakeManyRefused, Processed, ConnState, Phases, Kinds
<1>8. ASSUME NEW c \in Conns, NEW id \in Ids, Recall(c, id) PROVE TypeOK'
  <2>1. IdsOf({e \in map : e.id = id}) \in SUBSET Ids
    BY DEF IdsOf, Entry
  <2>2. conn' \in [Conns -> ConnState]
    BY <1>8, <2>1 DEF Recall, Processed, ConnState, Phases, Kinds
  <2>3. QED
    BY <1>8, <2>2 DEF Recall, Remove
<1>9. ASSUME NEW c \in Conns, BadLine(c) PROVE TypeOK'
  BY <1>9 DEF BadLine, ConnState, Phases, Kinds
<1>10. ASSUME NEW c \in Conns, FlushSkip(c) PROVE TypeOK'
  BY <1>10 DEF FlushSkip, ConnState, Phases
<1>11. ASSUME NEW c \in Conns, FlushSnapshot(c) PROVE TypeOK'
  BY <1>11 DEF FlushSnapshot, Snapshot, ConnState, Phases
<1>12. ASSUME NEW c \in Conns, Reply(c) PROVE TypeOK'
  BY <1>12 DEF Reply, ConnState, Idle, Phases, Kinds
<1>13. ASSUME NEW c \in Conns, ReplyLost(c) PROVE TypeOK'
  BY <1>13 DEF ReplyLost, ConnState, Idle, Phases, Kinds
<1>14. CASE Reap
  BY <1>14 DEF Reap, Remove
<1>15. CASE FlusherSnapshot
  BY <1>15 DEF FlusherSnapshot, Snapshot
<1>16. ASSUME WriterDone
       PROVE  /\ writer' \in [owner : Conns \cup {"flusher", "none"}, snap : SUBSET Entry]
              /\ conn' \in [Conns -> ConnState]
  BY <1>16 DEF WriterDone, NoWriter, ConnState, Phases
<1>17. CASE WriteOk
  BY <1>16, <1>17 DEF WriteOk
<1>18. CASE WriteFailed
  BY <1>16, <1>18 DEF WriteFailed
<1>19. CASE IntervalElapses
  BY <1>19 DEF IntervalElapses
<1>20. CASE CrashRestart
  <2>1. conn' \in [Conns -> ConnState]
    BY <1>20 DEF CrashRestart, ConnState, Idle, Phases, Kinds
  <2>2. map' \in SUBSET Entry
    BY <1>20 DEF CrashRestart, Live
  <2>3. writer' \in [owner : Conns \cup {"flusher", "none"}, snap : SUBSET Entry]
    BY <1>20 DEF CrashRestart, NoWriter
  <2>4. dirty' \in BOOLEAN /\ recentFlush' \in BOOLEAN
    BY <1>20 DEF CrashRestart
  <2>5. QED
    BY <1>20, <2>1, <2>2, <2>3, <2>4 DEF CrashRestart
<1>21. CASE Tick
  BY <1>21 DEF Tick
<1>22. CASE UNCHANGED vars
  BY <1>22
<1>23. QED
  BY <1>2, <1>3, <1>4, <1>5, <1>6, <1>7, <1>8, <1>9, <1>10, <1>11, <1>12, <1>13, <1>14,
     <1>15, <1>17, <1>18, <1>19, <1>20, <1>21, <1>22
     DEF Next, Request, Take, TakeMany

\* Type correctness of the relay's store, its file, its connections and clocks.
THEOREM TypeCorrect == Spec => []TypeOK
<1>1. Init => TypeOK
  <2> SUFFICES ASSUME Init PROVE TypeOK
    OBVIOUS
  <2>1. conn \in [Conns -> ConnState]
    BY DEF Init, ConnState, Idle, Phases, Kinds
  <2>2. writer \in [owner : Conns \cup {"flusher", "none"}, snap : SUBSET Entry]
    BY DEF Init, NoWriter
  <2>3. dirty \in BOOLEAN /\ recentFlush \in BOOLEAN
    BY DEF Init
  <2>4. handed \in [Ids -> Nat] /\ born \in [Ids -> Nat]
    BY DEF Init
  <2>5. map \in SUBSET Entry /\ disk \in SUBSET Entry /\ acked \in SUBSET Ids /\ recalled \in SUBSET Ids
    BY DEF Init
  <2>6. now \in Nat /\ nextId \in Nat \ {0} /\ crashes \in Nat
    BY DEF Init
  <2>7. QED
    BY <2>1, <2>2, <2>3, <2>4, <2>5, <2>6 DEF TypeOK
<1>2. QED
  BY <1>1, TypeStep, PTL DEF Spec
-----------------------------------------------------------------------------
(* Durability: `dirty` off means written, or being written. *)

\* Steps that touch neither the map, nor the file, nor the flush state.
LEMMA DurableFrame ==
    CleanMeansDurable /\ UNCHANGED <<map, dirty, disk, writer, now>> => CleanMeansDurable'
BY DEF CleanMeansDurable, Live, Persisting

\* Removing entries (drain, recall, reap) sets `dirty` unless nothing was removed.
LEMMA DurableRemove ==
    ASSUME NEW S, CleanMeansDurable, Remove(S), UNCHANGED <<disk, writer, now>>
    PROVE  CleanMeansDurable'
<1>1. CASE S = {}
  <2>1. map' = map /\ (~ dirty' => ~ dirty)
    BY <1>1 DEF Remove
  <2>2. QED
    BY <2>1 DEF CleanMeansDurable, Live, Persisting
<1>2. CASE S # {}
  BY <1>2 DEF Remove, CleanMeansDurable
<1>3. QED
  BY <1>1, <1>2

\* Every step of the relay keeps a clean store durable: the snapshot and the
\* clearing of `dirty` are one step of do_flush, a failed write sets it again,
\* and a reload starts from the file.
LEMMA DurableStep == TypeOK /\ CleanMeansDurable /\ [Next]_vars => CleanMeansDurable'
<1> SUFFICES ASSUME TypeOK, CleanMeansDurable, [Next]_vars PROVE CleanMeansDurable'
  OBVIOUS
<1> USE DEF store, flushing, history, vars
<1>1. ASSUME NEW c \in Conns, NEW h \in Handles, NEW size \in Sizes, NEW ttl \in Ttls,
             Post(c, h, size, ttl)
      PROVE  CleanMeansDurable'
  BY <1>1 DEF Post, CleanMeansDurable
<1>2. ASSUME NEW c \in Conns, NEW hs, Drain(c, hs) PROVE CleanMeansDurable'
  BY <1>2, DurableRemove DEF Drain
<1>3. ASSUME NEW c \in Conns, NEW id \in Ids, Recall(c, id) PROVE CleanMeansDurable'
  BY <1>3, DurableRemove DEF Recall
<1>4. CASE Reap
  BY <1>4, DurableRemove DEF Reap
<1>5. ASSUME NEW owner \in Conns \cup {"flusher"}, Snapshot(owner) PROVE CleanMeansDurable'
  <2>1. writer' # NoWriter
    BY <1>5, ConnsAssumption DEF Snapshot, NoWriter
  <2>2. writer'.snap = map' /\ now' = now
    BY <1>5 DEF Snapshot
  <2>3. QED
    BY <2>1, <2>2 DEF CleanMeansDurable, Persisting, Live
<1>6. CASE WriteOk
  BY <1>6 DEF WriteOk, WriterDone, CleanMeansDurable, Persisting, Live
<1>7. CASE WriteFailed
  BY <1>7 DEF WriteFailed, CleanMeansDurable
<1>8. CASE CrashRestart
  <2>1. /\ map' = Live(disk) /\ disk' = disk /\ now' = now
        /\ writer' = NoWriter
    BY <1>8 DEF CrashRestart
  <2>2. Persisting' = disk
    BY <2>1 DEF Persisting
  <2>3. Live(map)' = Live(disk)
    BY <2>1 DEF Live
  <2>4. Live(Persisting)' = Live(disk)
    BY <2>1, <2>2 DEF Live
  <2>5. QED
    BY <2>3, <2>4 DEF CleanMeansDurable
<1>9. CASE Tick
  <2>1. map' = map /\ dirty' = dirty /\ disk' = disk /\ writer' = writer /\ now' = now + 1
    BY <1>9 DEF Tick
  <2>2. SUFFICES ASSUME ~ dirty PROVE Live(map)' = Live(Persisting)'
    BY <2>1 DEF CleanMeansDurable
  <2>3. Live(map) = Live(Persisting)
    BY <2>2 DEF CleanMeansDurable
  <2>4. map \in SUBSET Entry /\ Persisting \in SUBSET Entry /\ now \in Nat
    BY DEF TypeOK, Persisting
  <2>5. \A S \in SUBSET Entry : {e \in S : e.expiry > now + 1} = {e \in Live(S) : e.expiry > now + 1}
    BY <2>4 DEF Live, Entry
  <2>6. Persisting' = Persisting
    BY <2>1 DEF Persisting
  <2>7. QED
    BY <2>1, <2>3, <2>4, <2>5, <2>6 DEF Live
<1>10. ASSUME NEW c \in Conns,
              \/ \E h \in Handles, size \in Sizes : PostRefused(c, h, size)
              \/ Peek(c) \/ GetDirectory(c) \/ BadLine(c)
              \/ \E hs \in HandleLists : TakeManyRefused(c, hs)
              \/ FlushSkip(c) \/ Reply(c) \/ ReplyLost(c)
       PROVE  CleanMeansDurable'
  BY <1>10, DurableFrame
     DEF PostRefused, Peek, GetDirectory, BadLine, TakeManyRefused, FlushSkip, Reply, ReplyLost
<1>11. CASE IntervalElapses
  BY <1>11, DurableFrame DEF IntervalElapses
<1>12. CASE UNCHANGED vars
  BY <1>12, DurableFrame
<1>13. QED
  BY <1>1, <1>2, <1>3, <1>4, <1>5, <1>6, <1>7, <1>8, <1>9, <1>10, <1>11, <1>12
     DEF Next, Request, Take, TakeMany, FlushSnapshot, FlusherSnapshot

\* A store whose `dirty` flag is off loses nothing in a restart: the live blobs
\* in memory are those of the file, or of the snapshot being written to it.
THEOREM Durability == Spec => []CleanMeansDurable
<1>1. Init => CleanMeansDurable
  BY DEF Init, CleanMeansDurable, Persisting, Live, NoWriter
<1>2. QED
  BY <1>1, DurableStep, TypeCorrect, PTL DEF Spec
-----------------------------------------------------------------------------
(* Ids, expiries and hand-outs. *)

\* Steps that change no copy of the queue and none of the counters.
LEMMA StoreFrame ==
    StoreInv /\ UNCHANGED <<map, disk, writer, nextId, crashes, handed, born>> => StoreInv'
BY DEF StoreInv, Copies

\* Entries that leave the map disturb nothing.
LEMMA StoreShrink ==
    ASSUME StoreInv, map' \subseteq map, UNCHANGED <<disk, writer, nextId, crashes, handed, born>>
    PROVE  StoreInv'
BY DEF StoreInv, Copies

\* Every step of the relay keeps ids unique and expiries within MaxTtl of the
\* post, in memory, in the snapshot and on disk.
LEMMA StoreStep ==
    TypeOK /\ StoreInv /\ HandedOncePerBoot /\ [Next]_vars => StoreInv' /\ HandedOncePerBoot'
<1> SUFFICES ASSUME TypeOK, StoreInv, HandedOncePerBoot, [Next]_vars
             PROVE  StoreInv' /\ HandedOncePerBoot'
  OBVIOUS
<1> USE LimitsAssumption DEF store, flushing, history, vars
<1>1. ASSUME NEW c \in Conns, NEW h \in Handles, NEW size \in Sizes, NEW ttl \in Ttls,
             Post(c, h, size, ttl)
      PROVE  StoreInv' /\ HandedOncePerBoot'
  <2> DEFINE e == [handle |-> h, id |-> nextId, size |-> size, expiry |-> now + Clamp(ttl)]
  <2>1. /\ map' = map \cup {e} /\ nextId' = nextId + 1 /\ born' = [born EXCEPT ![nextId] = now]
        /\ UNCHANGED <<disk, writer, crashes, handed>>
        /\ nextId \in Ids
    BY <1>1 DEF Post, TypeOK, Ids
  <2>2. /\ nextId \in Nat /\ now \in Nat /\ crashes \in Nat
        /\ handed \in [Ids -> Nat] /\ born \in [Ids -> Nat]
        /\ \A S \in Copies : S \subseteq Entry
    BY DEF TypeOK, Copies
  <2>3. \A S \in Copies : \A f \in S : f.id \in Nat /\ f.id < nextId /\ born'[f.id] = born[f.id]
    BY <2>1, <2>2 DEF StoreInv, Entry, Ids
  <2>4. born'[nextId] = now /\ e.expiry <= now + MaxTtl /\ e.id = nextId
    BY <2>1, <2>2, ClampBounds
  <2>5. \A S \in Copies : \A f \in S : /\ f.id < nextId'
                                      /\ f.expiry <= born'[f.id] + MaxTtl
                                      /\ \A g \in S : f.id = g.id => f = g
    BY <2>1, <2>2, <2>3 DEF StoreInv
  <2>6. \A f \in map' : /\ f.id < nextId'
                        /\ f.expiry <= born'[f.id] + MaxTtl
                        /\ \A g \in map' : f.id = g.id => f = g
    <3> HIDE DEF e
    <3>1. \A f \in map : f.id # e.id
      BY <2>2, <2>3, <2>4 DEF Copies
    <3>2. e.id < nextId' /\ e.expiry <= born'[e.id] + MaxTtl
      BY <2>1, <2>2, <2>4
    <3>3. QED
      BY <2>1, <2>5, <3>1, <3>2 DEF Copies
  <2>7. Copies' = {map', disk, writer.snap}
    BY <2>1 DEF Copies
  <2>8. \A i \in Ids : i >= nextId' => handed'[i] = 0
    BY <2>1, <2>2 DEF StoreInv, Ids
  <2>9. \A f \in map' : handed'[f.id] <= crashes'
    BY <2>1, <2>2 DEF StoreInv, Ids
  <2>10. HandedOncePerBoot'
    BY <2>1 DEF HandedOncePerBoot
  <2>11. StoreInv'
    BY <2>5, <2>6, <2>7, <2>8, <2>9 DEF StoreInv, Copies
  <2>12. QED
    BY <2>10, <2>11
<1>2. ASSUME NEW c \in Conns, NEW hs, Drain(c, hs) PROVE StoreInv' /\ HandedOncePerBoot'
  <2> DEFINE gone == DrainedBy(hs)
             out == IdsOf(Live(gone))
  <2>1. /\ map' = map \ gone /\ UNCHANGED <<disk, writer, nextId, crashes, born>>
        /\ handed' = [i \in Ids |-> handed[i] + (IF i \in out THEN 1 ELSE 0)]
    BY <1>2 DEF Drain, Remove
  <2>2. gone \subseteq map
    BY DrainedInMap
  <2>3. /\ map \subseteq Entry /\ crashes \in Nat /\ nextId \in Nat /\ handed \in [Ids -> Nat]
    BY DEF TypeOK
  <2> HIDE DEF gone
  <2>4. \A i \in out : \E e \in gone : e.id = i
    BY DEF IdsOf, Live
  <2>5. \A i \in out : i \in Ids /\ handed[i] <= crashes /\ i < nextId
    BY <2>2, <2>3, <2>4 DEF StoreInv, Copies, Entry
  <2>6. \A e \in map' : e.id \notin out
    BY <2>1, <2>2, <2>4 DEF StoreInv, Copies
  <2> HIDE DEF out
  <2>7. \A i \in Ids : i >= nextId => handed'[i] = 0
    BY <2>1, <2>3, <2>5 DEF StoreInv, Ids
  <2>8. \A e \in map' : handed'[e.id] <= crashes
    BY <2>1, <2>3, <2>6 DEF StoreInv, Entry
  <2>9. \A i \in Ids : handed'[i] <= 1 + crashes
    BY <2>1, <2>3, <2>5 DEF HandedOncePerBoot, Ids
  <2>10. \A S \in Copies' : \E T \in Copies : S \subseteq T
    BY <2>1 DEF Copies
  <2>11. StoreInv'
    BY <2>1, <2>7, <2>8, <2>10 DEF StoreInv
  <2>12. QED
    BY <2>1, <2>9, <2>11 DEF HandedOncePerBoot
<1>3. ASSUME NEW c \in Conns, NEW id \in Ids, Recall(c, id) PROVE StoreInv' /\ HandedOncePerBoot'
  BY <1>3, StoreShrink DEF Recall, Remove, HandedOncePerBoot
<1>4. CASE Reap
  BY <1>4, StoreShrink DEF Reap, Remove, HandedOncePerBoot
<1>5. ASSUME NEW owner, Snapshot(owner) PROVE StoreInv' /\ HandedOncePerBoot'
  <2>1. Copies' \subseteq Copies
    BY <1>5 DEF Snapshot, Copies
  <2>2. UNCHANGED <<map, nextId, crashes, handed, born>>
    BY <1>5 DEF Snapshot
  <2>3. QED
    BY <2>1, <2>2 DEF StoreInv, HandedOncePerBoot
<1>6. ASSUME WriteOk \/ WriteFailed PROVE StoreInv' /\ HandedOncePerBoot'
  <2>1. /\ Copies' \subseteq Copies \cup {{}}
        /\ UNCHANGED <<map, nextId, crashes, handed, born>>
    BY <1>6 DEF WriteOk, WriteFailed, WriterDone, NoWriter, Copies
  <2>2. QED
    BY <2>1 DEF StoreInv, HandedOncePerBoot
<1>7. CASE CrashRestart
  <2>1. /\ map' = Live(disk) /\ disk' = disk /\ writer' = NoWriter /\ crashes' = crashes + 1
        /\ UNCHANGED <<nextId, handed, born>>
    BY <1>7 DEF CrashRestart
  <2>2. \A S \in Copies' : \E T \in Copies : S \subseteq T
    BY <2>1 DEF Copies, Live, NoWriter
  <2>3. \A e \in map' : handed'[e.id] <= crashes'
    BY <2>1 DEF TypeOK, HandedOncePerBoot, Live, Entry
  <2>4. StoreInv'
    BY <2>1, <2>2, <2>3 DEF StoreInv
  <2>5. HandedOncePerBoot'
    BY <2>1 DEF HandedOncePerBoot, TypeOK, Ids
  <2>6. QED
    BY <2>4, <2>5
<1>8. ASSUME NEW c \in Conns,
              \/ \E h \in Handles, size \in Sizes : PostRefused(c, h, size)
              \/ Peek(c) \/ GetDirectory(c) \/ BadLine(c)
              \/ \E hs \in HandleLists : TakeManyRefused(c, hs)
              \/ FlushSkip(c) \/ Reply(c) \/ ReplyLost(c)
       PROVE  StoreInv' /\ HandedOncePerBoot'
  BY <1>8, StoreFrame
     DEF PostRefused, Peek, GetDirectory, BadLine, TakeManyRefused, FlushSkip, Reply, ReplyLost,
         HandedOncePerBoot
<1>9. ASSUME IntervalElapses \/ Tick \/ UNCHANGED vars PROVE StoreInv' /\ HandedOncePerBoot'
  BY <1>9, StoreFrame DEF IntervalElapses, Tick, HandedOncePerBoot
<1>10. QED
  BY <1>1, <1>2, <1>3, <1>4, <1>5, <1>6, <1>7, <1>8, <1>9
     DEF Next, Request, Take, TakeMany, FlushSnapshot, FlusherSnapshot
\* StoreInv is an invariant of the relay, together with the hand-out bound it supports.
THEOREM StoreInvariant == Spec => [](StoreInv /\ HandedOncePerBoot)
<1>1. Init => StoreInv /\ HandedOncePerBoot
  BY DEF Init, StoreInv, HandedOncePerBoot, Copies, NoWriter
<1>2. QED
  BY <1>1, StoreStep, TypeCorrect, PTL DEF Spec

\* Between two restarts a blob goes out in at most one response, however many
\* connections drain its mailbox.
THEOREM OncePerBoot == Spec => []HandedOncePerBoot
BY StoreInvariant, PTL

\* The only step that hands blobs out is a drain, and it hands out live ones.
LEMMA HandedStep == TypeOK /\ StoreInv /\ [Next]_vars => [HandedInTime]_vars
<1> SUFFICES ASSUME TypeOK, StoreInv, [Next]_vars, ~ UNCHANGED vars,
                    NEW i \in Ids, handed'[i] # handed[i]
             PROVE  now < born[i] + MaxTtl
  BY DEF HandedInTime
<1> USE DEF store, flushing, history, vars
<1>0. \E c \in Conns : \E hs : Drain(c, hs)
  BY ZenonT(30) DEF Next, Request, PostRefused, Post, Peek, GetDirectory, Take, TakeMany, TakeManyRefused,
         Recall, BadLine, FlushSkip, FlushSnapshot, FlusherSnapshot, Snapshot, Reply, ReplyLost,
         Reap, WriteOk, WriteFailed, IntervalElapses, CrashRestart, Tick
<1>1. PICK c \in Conns : \E hs : Drain(c, hs)
  BY <1>0
<1>1a. PICK hs : Drain(c, hs)
  BY <1>1
<1>2. i \in IdsOf(Live(DrainedBy(hs)))
  BY <1>1a DEF Drain, TypeOK
<1>3. PICK e \in map : e.id = i /\ e.expiry > now
  BY <1>2, DrainedInMap DEF IdsOf, Live
<1>4. QED
  BY <1>3, LimitsAssumption DEF StoreInv, Copies, TypeOK, Entry

\* No response carries a blob MaxTtl or more after its post, across restarts too.
THEOREM TtlRespected == Spec => NeverHandedPastTtl
<1>1. TypeOK /\ StoreInv /\ [Next]_vars => [HandedInTime]_vars
  BY HandedStep
<1>2. QED
  BY <1>1, TypeCorrect, StoreInvariant, PTL DEF Spec, NeverHandedPastTtl

\* One step: live mail leaves with a drain, a recall or a restart.
LEMMA EvictionStep == TypeOK /\ [Next]_vars => [LiveMailLeavesProperly]_vars
<1> SUFFICES ASSUME TypeOK, [Next]_vars, ~ UNCHANGED vars,
                    NEW e \in Live(map), e \notin map', crashes' = crashes
             PROVE  \/ handed'[e.id] = handed[e.id] + 1
                    \/ \E c \in Conns : conn'[c].kind = "recalled" /\ e.id \in conn'[c].ids
  BY DEF LiveMailLeavesProperly
<1> USE DEF store, flushing, history, vars
<1>1. e \in map /\ e.expiry > now /\ e.id \in Ids /\ crashes \in Nat
  BY DEF Live, TypeOK, Entry
<1>2. \/ \E c \in Conns : \E hs : Drain(c, hs)
      \/ \E c \in Conns, id \in Ids : Recall(c, id)
      \/ Reap
  <2>1. ASSUME NEW c \in Conns, NEW h \in Handles, NEW size \in Sizes, NEW ttl \in Ttls,
               Post(c, h, size, ttl)
        PROVE  FALSE
    BY <1>1, <2>1 DEF Post
  <2>2. CASE CrashRestart
    BY <1>1, <2>2 DEF CrashRestart
  <2>3. map' # map
    BY <1>1
  <2>4. QED
    BY <2>1, <2>2, <2>3
       DEF Next, Request, PostRefused, Peek, GetDirectory, Take, TakeMany, TakeManyRefused, BadLine,
           FlushSkip, FlushSnapshot, FlusherSnapshot, Snapshot, Reply, ReplyLost, WriteOk,
           WriteFailed, IntervalElapses, Tick
<1>3. ASSUME NEW c \in Conns, NEW hs, Drain(c, hs) PROVE handed'[e.id] = handed[e.id] + 1
  <2>1. e.id \in IdsOf(Live(DrainedBy(hs)))
    BY <1>1, <1>3 DEF Drain, Remove, IdsOf, Live
  <2>2. QED
    BY <1>1, <1>3, <2>1 DEF Drain
<1>4. ASSUME NEW c \in Conns, NEW id \in Ids, Recall(c, id)
      PROVE  conn'[c].kind = "recalled" /\ e.id \in conn'[c].ids
  <2> DEFINE hit == {f \in map : f.id = id}
  <2>1. e \in hit /\ e.id \in IdsOf(hit) /\ hit # {}
    BY <1>1, <1>4 DEF Recall, Remove, IdsOf
  <2>2. conn' = [conn EXCEPT ![c] = [phase |-> "flush", kind |-> "recalled", ids |-> IdsOf(hit)]]
    BY <1>4, <2>1 DEF Recall, Processed
  <2>3. QED
    BY <2>1, <2>2 DEF TypeOK
<1>5. CASE Reap
  BY <1>1, <1>5 DEF Reap, Remove, Live
<1>6. QED
  BY <1>2, <1>3, <1>4, <1>5

\* The limits reject new posts and never evict: whatever the other mailboxes
\* hold and whoever posts, live mail leaves only to its reader, by its poster's
\* recall, or in a restart.
THEOREM NothingEvicted == Spec => NoEviction
<1>1. TypeOK /\ [Next]_vars => [LiveMailLeavesProperly]_vars
  BY EvictionStep
<1>2. QED
  BY <1>1, TypeCorrect, PTL DEF Spec, NoEviction
-----------------------------------------------------------------------------
(* The running total and the limits. *)

costs == [e \in Entry |-> entry_cost(e)]
sizes == [e \in Entry |-> e.size]

\* The cost and the size of a set of entries are sums.
LEMMA SumsOfEntries ==
    ASSUME NEW S \in SUBSET Entry
    PROVE  /\ Cost(S) = Total(S, costs) /\ Weighs(S, costs)
           /\ Size(S) = Total(S, sizes) /\ Weighs(S, sizes)
<1> DEFINE cs == [e \in S |-> entry_cost(e)]
           zs == [e \in S |-> e.size]
<1>1. \A e \in S : cs[e] = costs[e] /\ zs[e] = sizes[e]
  BY DEF costs, sizes
<1>2. Weighs(S, costs) /\ Weighs(S, sizes)
  <2>1. \A e \in S : e.size \in Nat
    BY LimitsAssumption DEF Entry
  <2>2. \A e \in S : entry_cost(e) \in Nat
    BY <2>1, LimitsAssumption DEF entry_cost
  <2>3. \A e \in S : costs[e] = entry_cost(e) /\ sizes[e] = e.size
    BY DEF costs, sizes
  <2>4. QED
    BY <2>1, <2>2, <2>3 DEF Weighs
<1>3. Cost(S) = Total(S, cs) /\ Size(S) = Total(S, zs)
  BY DEF Cost, Size
<1> HIDE DEF cs, zs
<1>4. Total(S, cs) = Total(S, costs) /\ Total(S, zs) = Total(S, sizes)
  BY <1>1, TotalSame
<1>5. QED
  BY <1>2, <1>3, <1>4

LEMMA SumsOfNone == Cost({}) = 0 /\ Size({}) = 0
BY SumsOfEntries, TotalEmpty

LEMMA SumsAdd ==
    ASSUME NEW S \in SUBSET Entry, IsFiniteSet(S), NEW e \in Entry, e \notin S
    PROVE  /\ Cost(S \cup {e}) = Cost(S) + entry_cost(e)
           /\ Size(S \cup {e}) = Size(S) + e.size
           /\ Cost(S) \in Nat /\ Size(S) \in Nat
<1>1. S \cup {e} \in SUBSET Entry
  OBVIOUS
<1>2. Weighs(S \cup {e}, costs) /\ Weighs(S \cup {e}, sizes)
  BY <1>1, SumsOfEntries
<1>3. /\ Total(S \cup {e}, costs) = Total(S, costs) + costs[e]
      /\ Total(S \cup {e}, sizes) = Total(S, sizes) + sizes[e]
  BY <1>2, TotalAdd
<1>4. Total(S, costs) \in Nat /\ Total(S, sizes) \in Nat
  BY SumsOfEntries, UnitsAreFinite
<1>5. QED
  BY <1>1, <1>3, <1>4, SumsOfEntries DEF costs, sizes

LEMMA SumsOfFewer ==
    ASSUME NEW S \in SUBSET Entry, IsFiniteSet(S), NEW T \in SUBSET S
    PROVE  /\ Cost(T) <= Cost(S) /\ Size(T) <= Size(S)
           /\ Cost(S \ T) = Cost(S) - Cost(T)
           /\ Cost(T) \in Nat /\ Cost(S) \in Nat /\ Size(T) \in Nat /\ Size(S) \in Nat
<1>1. T \in SUBSET Entry /\ S \ T \in SUBSET Entry
  OBVIOUS
<1>2. Weighs(S, costs) /\ Weighs(S, sizes)
  BY SumsOfEntries
<1>3. /\ Total(T, costs) <= Total(S, costs) /\ Total(T, costs) \in Nat /\ Total(S, costs) \in Nat
      /\ Total(T, sizes) <= Total(S, sizes) /\ Total(T, sizes) \in Nat /\ Total(S, sizes) \in Nat
  BY <1>2, TotalOfFewer
<1>4. IsFiniteSet(T) /\ IsFiniteSet(S \ T) /\ T \cap (S \ T) = {} /\ T \cup (S \ T) = S
  BY FS_Subset
<1>5. /\ Total(S, costs) = Total(T, costs) + Total(S \ T, costs)
      /\ Total(S \ T, costs) \in Nat
  BY <1>2, <1>4, TotalOfBoth
<1>6. QED
  BY <1>1, <1>3, <1>5, SumsOfEntries

\* Removing blobs breaks no limit.
LEMMA FewerFit ==
    ASSUME NEW S \in SUBSET Entry, IsFiniteSet(S), Fits(S), NEW T \in SUBSET S
    PROVE  IsFiniteSet(T) /\ Fits(T)
<1>1. IsFiniteSet(T) /\ T \in SUBSET Entry
  BY FS_Subset
<1> DEFINE big(R) == {e \in R : e.size > SmallBlobBytes}
           q(R, h) == {e \in R : e.handle = h}
<1>2. \A R \in SUBSET S : /\ IsFiniteSet(R) /\ Cardinality(R) \in Nat
                          /\ \A Q \in SUBSET R : Cardinality(Q) <= Cardinality(R)
                                                 /\ Cardinality(Q) \in Nat
  BY FS_Subset, FS_CardinalityType
<1>3. \A R \in SUBSET S : \A Q \in SUBSET R :
         /\ Cost(Q) <= Cost(R) /\ Size(Q) <= Size(R)
         /\ Cost(Q) \in Nat /\ Cost(R) \in Nat /\ Size(Q) \in Nat /\ Size(R) \in Nat
  BY <1>2, SumsOfFewer
<1>4. Cost(T) <= MaxTotalBytes
  BY <1>3, LimitsAssumption DEF Fits
<1>5. Cost(big(T)) <= SatSub(MaxTotalBytes, SmallReserveBytes)
  <2>1. Cost(big(S)) <= SatSub(MaxTotalBytes, SmallReserveBytes)
    BY DEF Fits
  <2>2. big(S) \in SUBSET S /\ big(T) \in SUBSET big(S)
    OBVIOUS
  <2> HIDE DEF big
  <2>3. SatSub(MaxTotalBytes, SmallReserveBytes) \in Nat
    BY LimitsAssumption DEF SatSub
  <2>4. QED
    BY <1>3, <2>1, <2>2, <2>3
<1>6. ASSUME NEW h \in Handles
      PROVE  Cardinality(q(T, h)) <= MaxMailboxBlobs /\ Size(q(T, h)) <= MaxMailboxBytes
  <2>1. Cardinality(q(S, h)) <= MaxMailboxBlobs /\ Size(q(S, h)) <= MaxMailboxBytes
    BY DEF Fits
  <2>2. q(S, h) \in SUBSET S /\ q(T, h) \in SUBSET q(S, h)
    OBVIOUS
  <2> HIDE DEF q
  <2>3. QED
    BY <1>2, <1>3, <2>1, <2>2, LimitsAssumption
<1>7. QED
  BY <1>1, <1>4, <1>5, <1>6 DEF Fits

\* The checks of Request::Post admit a blob that fits, and only then is it stored.
LEMMA AdmittedFits ==
    ASSUME NEW h \in Handles, NEW size \in Sizes, NEW e \in Entry,
           map \in SUBSET Entry, IsFiniteSet(map), Fits(map), ByteAccounting, ~ Refused(h, size),
           e.handle = h, e.size = size, e \notin map
    PROVE  /\ IsFiniteSet(map \cup {e}) /\ Fits(map \cup {e})
           /\ Cost(map \cup {e}) = totalBytes + entry_cost(e)
<1> DEFINE M == map \cup {e}
           big(R) == {f \in R : f.size > SmallBlobBytes}
           q(R, g) == {f \in R : f.handle = g}
<1>1. IsFiniteSet(M) /\ M \in SUBSET Entry
  BY FS_AddElement
<1>2. /\ Cost(M) = totalBytes + entry_cost(e) /\ Cost(map) = totalBytes /\ totalBytes \in Nat
      /\ size \in Nat /\ entry_cost(e) = size + EntryOverhead
  BY SumsAdd, LimitsAssumption DEF ByteAccounting, entry_cost
<1>3. /\ totalBytes + size + EntryOverhead <= MaxTotalBytes
      /\ size > SmallBlobBytes =>
            totalBytes + size + EntryOverhead <= SatSub(MaxTotalBytes, SmallReserveBytes)
      /\ Cardinality(Queue(h)) < MaxMailboxBlobs
      /\ Size(Queue(h)) + size <= MaxMailboxBytes
  <2>1. Cardinality(Queue(h)) \in Nat /\ Size(Queue(h)) \in Nat
    <3>1. Queue(h) \in SUBSET map
      BY DEF Queue
    <3>2. QED
      BY <3>1, SumsOfFewer, FS_Subset, FS_CardinalityType
  <2>2. SatSub(MaxTotalBytes, SmallReserveBytes) \in Nat
    BY LimitsAssumption DEF SatSub
  <2>3. QED
    BY <1>2, <2>1, <2>2, LimitsAssumption DEF Refused
<1>4. Cost(M) <= MaxTotalBytes
  BY <1>2, <1>3, LimitsAssumption
<1>5. Cost(big(M)) <= SatSub(MaxTotalBytes, SmallReserveBytes)
  <2>1. CASE size > SmallBlobBytes
    <3>1. Cost(big(M)) <= Cost(M) /\ Cost(big(M)) \in Nat /\ Cost(M) \in Nat
      BY <1>1, SumsOfFewer
    <3>2. SatSub(MaxTotalBytes, SmallReserveBytes) \in Nat
      BY LimitsAssumption DEF SatSub
    <3> HIDE DEF M, big
    <3>3. QED
      BY <1>2, <1>3, <2>1, <3>1, <3>2, LimitsAssumption
  <2>2. CASE ~ (size > SmallBlobBytes)
    <3>1. big(M) = big(map)
      BY <2>2
    <3>2. QED
      BY <3>1 DEF Fits
  <2>3. QED
    BY <2>1, <2>2
<1>6. ASSUME NEW g \in Handles
      PROVE  Cardinality(q(M, g)) <= MaxMailboxBlobs /\ Size(q(M, g)) <= MaxMailboxBytes
  <2>1. Cardinality(q(map, g)) <= MaxMailboxBlobs /\ Size(q(map, g)) <= MaxMailboxBytes
    BY DEF Fits
  <2>2. CASE g # h
    <3>1. q(M, g) = q(map, g)
      BY <2>2
    <3>2. QED
      BY <2>1, <3>1
  <2>3. CASE g = h
    <3>1. q(M, g) = Queue(h) \cup {e} /\ e \notin Queue(h) /\ Queue(h) \in SUBSET map
      BY <2>3 DEF Queue
    <3>2. IsFiniteSet(Queue(h))
      BY <3>1, FS_Subset
    <3>3. Cardinality(Queue(h) \cup {e}) = Cardinality(Queue(h)) + 1 /\ Cardinality(Queue(h)) \in Nat
      BY <3>1, <3>2, FS_AddElement, FS_CardinalityType
    <3>4. Size(Queue(h) \cup {e}) = Size(Queue(h)) + e.size
      BY <3>1, <3>2, SumsAdd
    <3>5. QED
      BY <1>3, <3>1, <3>3, <3>4, LimitsAssumption
  <2>4. QED
    BY <2>2, <2>3
<1>7. QED
  BY <1>1, <1>2, <1>4, <1>5, <1>6 DEF Fits

\* Entries that leave the map give back exactly what they cost.
LEMMA LimitsRemove ==
    ASSUME TypeOK, LimitsInv, NEW S \in SUBSET map, Remove(S), UNCHANGED <<disk, writer>>
    PROVE  LimitsInv'
<1>1. map \in SUBSET Entry /\ IsFiniteSet(map) /\ Fits(map)
  BY DEF TypeOK, LimitsInv, Copies
<1>2. map' \in SUBSET map /\ map' = map \ S /\ totalBytes' = totalBytes - Cost(S)
  BY DEF Remove
<1>3. IsFiniteSet(map') /\ Fits(map')
  BY <1>1, <1>2, FewerFit
<1>4. Cost(map \ S) = Cost(map) - Cost(S)
  BY <1>1, SumsOfFewer
<1>5. ByteAccounting'
  BY <1>2, <1>4 DEF LimitsInv, ByteAccounting
<1>6. Copies' \subseteq Copies \cup {map'}
  BY DEF Copies
<1>7. \A T \in Copies' : IsFiniteSet(T) /\ Fits(T)
  BY <1>3, <1>6 DEF LimitsInv
<1>8. QED
  BY <1>5, <1>7 DEF LimitsInv

\* Every step keeps the total exact and the limits of every copy of the queue.
LEMMA LimitsStep == TypeOK /\ StoreInv /\ LimitsInv /\ [Next]_vars => LimitsInv'
<1> SUFFICES ASSUME TypeOK, StoreInv, LimitsInv, [Next]_vars PROVE LimitsInv'
  OBVIOUS
<1> USE DEF store, flushing, history, vars
<1>1. ASSUME NEW c \in Conns, NEW h \in Handles, NEW size \in Sizes, NEW ttl \in Ttls,
             Post(c, h, size, ttl)
      PROVE  LimitsInv'
  <2> DEFINE e == [handle |-> h, id |-> nextId, size |-> size, expiry |-> now + Clamp(ttl)]
  <2>1. /\ map' = map \cup {e} /\ totalBytes' = totalBytes + entry_cost(e)
        /\ UNCHANGED <<disk, writer>> /\ ~ Refused(h, size)
    BY <1>1 DEF Post
  <2>2. e \in Entry /\ e.handle = h /\ e.size = size
    BY <1>1, ClampBounds DEF Post, TypeOK, Entry, Ids
  <2>3. e \notin map
    BY DEF StoreInv, Copies, TypeOK
  <2>4. map \in SUBSET Entry /\ IsFiniteSet(map) /\ Fits(map) /\ ByteAccounting
    BY DEF TypeOK, LimitsInv, Copies
  <2> HIDE DEF e
  <2>5. /\ IsFiniteSet(map \cup {e}) /\ Fits(map \cup {e})
        /\ Cost(map \cup {e}) = totalBytes + entry_cost(e)
    BY <2>1, <2>2, <2>3, <2>4, AdmittedFits
  <2>6. ByteAccounting'
    BY <2>1, <2>5 DEF ByteAccounting
  <2>7. \A T \in Copies' : IsFiniteSet(T) /\ Fits(T)
    BY <2>1, <2>5 DEF LimitsInv, Copies
  <2>8. QED
    BY <2>6, <2>7 DEF LimitsInv
<1>2. ASSUME NEW c \in Conns, NEW hs, Drain(c, hs) PROVE LimitsInv'
  <2>1. DrainedBy(hs) \in SUBSET map
    BY DrainedInMap
  <2>2. QED
    BY <1>2, <2>1, LimitsRemove DEF Drain
<1>3. ASSUME NEW c \in Conns, NEW id \in Ids, Recall(c, id) PROVE LimitsInv'
  BY <1>3, LimitsRemove DEF Recall
<1>4. CASE Reap
  BY <1>4, LimitsRemove DEF Reap
<1>5. ASSUME Copies' \subseteq Copies \cup {{}}, UNCHANGED <<map, totalBytes>> PROVE LimitsInv'
  <2>1. IsFiniteSet(map) /\ Fits(map) /\ map \in SUBSET Entry
    BY DEF LimitsInv, Copies, TypeOK
  <2>2. IsFiniteSet({}) /\ Fits({})
    BY <2>1, FewerFit
  <2>3. QED
    BY <1>5, <2>2 DEF LimitsInv, ByteAccounting
<1>6. ASSUME NEW owner, Snapshot(owner) PROVE LimitsInv'
  <2>1. Copies' \subseteq Copies \cup {{}}
    BY <1>6 DEF Snapshot, Copies
  <2>2. QED
    BY <1>5, <1>6, <2>1 DEF Snapshot
<1>7. ASSUME WriteOk \/ WriteFailed PROVE LimitsInv'
  <2>1. Copies' \subseteq Copies \cup {{}}
    BY <1>7 DEF WriteOk, WriteFailed, WriterDone, NoWriter, Copies
  <2>2. QED
    BY <1>5, <1>7, <2>1 DEF WriteOk, WriteFailed
<1>8. CASE CrashRestart
  <2>1. /\ map' = Live(disk) /\ totalBytes' = Cost(Live(disk)) /\ disk' = disk
        /\ writer'.snap = {}
    BY <1>8 DEF CrashRestart, NoWriter
  <2>2. disk \in SUBSET Entry /\ IsFiniteSet(disk) /\ Fits(disk)
    BY DEF TypeOK, LimitsInv, Copies
  <2>3. Live(disk) \in SUBSET disk /\ {} \in SUBSET disk
    BY DEF Live
  <2>4. IsFiniteSet(Live(disk)) /\ Fits(Live(disk)) /\ IsFiniteSet({}) /\ Fits({})
    BY <2>2, <2>3, FewerFit
  <2>5. ByteAccounting'
    BY <2>1 DEF ByteAccounting
  <2>6. Copies' = {Live(disk), disk, {}}
    BY <2>1 DEF Copies
  <2>7. \A T \in Copies' : IsFiniteSet(T) /\ Fits(T)
    BY <2>2, <2>4, <2>6
  <2>8. QED
    BY <2>5, <2>7 DEF LimitsInv
<1>9. ASSUME UNCHANGED <<map, totalBytes, disk, writer>> PROVE LimitsInv'
  <2>1. Copies' \subseteq Copies \cup {{}}
    BY <1>9 DEF Copies
  <2>2. QED
    BY <1>5, <1>9, <2>1
<1>10. ASSUME NEW c \in Conns,
              \/ \E h \in Handles, size \in Sizes : PostRefused(c, h, size)
              \/ Peek(c) \/ GetDirectory(c) \/ BadLine(c)
              \/ \E hs \in HandleLists : TakeManyRefused(c, hs)
              \/ FlushSkip(c) \/ Reply(c) \/ ReplyLost(c)
       PROVE  LimitsInv'
  BY <1>9, <1>10
     DEF PostRefused, Peek, GetDirectory, BadLine, TakeManyRefused, FlushSkip, Reply, ReplyLost
<1>11. ASSUME IntervalElapses \/ Tick \/ UNCHANGED vars PROVE LimitsInv'
  BY <1>9, <1>11 DEF IntervalElapses, Tick
<1>12. QED
  BY <1>1, <1>2, <1>3, <1>4, <1>6, <1>7, <1>8, <1>10, <1>11
     DEF Next, Request, Take, TakeMany, FlushSnapshot, FlusherSnapshot

\* Post, drain, recall, reap and reload keep the running total at the cost of
\* what is stored, and the limits hold of every copy of the queue.
THEOREM LimitsInvariant == Spec => []LimitsInv
<1>1. Init => LimitsInv
  <2> SUFFICES ASSUME Init PROVE LimitsInv
    OBVIOUS
  <2>1. map = {} /\ totalBytes = 0 /\ Copies = {{}}
    BY DEF Init, Copies, NoWriter
  <2>2. IsFiniteSet({}) /\ Cardinality({}) = 0
    BY FS_EmptySet
  <2>3. SatSub(MaxTotalBytes, SmallReserveBytes) \in Nat
    BY LimitsAssumption DEF SatSub
  <2>4. Fits({})
    <3>1. {e \in {} : e.size > SmallBlobBytes} = {} /\ \A h \in Handles : {e \in {} : e.handle = h} = {}
      OBVIOUS
    <3>2. 0 <= MaxTotalBytes /\ 0 <= MaxMailboxBlobs /\ 0 <= MaxMailboxBytes
          /\ 0 <= SatSub(MaxTotalBytes, SmallReserveBytes)
      BY <2>3, LimitsAssumption
    <3>3. QED
      BY <2>2, <3>1, <3>2, SumsOfNone DEF Fits
  <2>5. QED
    BY <2>1, <2>2, <2>4, SumsOfNone DEF LimitsInv, ByteAccounting
<1>2. QED
  BY <1>1, LimitsStep, TypeCorrect, StoreInvariant, PTL DEF Spec

\* The running total never drifts from the cost of what is stored.
THEOREM AccountingExact == Spec => []ByteAccounting
<1>1. LimitsInv => ByteAccounting
  BY DEF LimitsInv
<1>2. QED
  BY <1>1, LimitsInvariant, PTL

\* The relay's limits hold of what is stored, after every restart too.
THEOREM LimitsKept == Spec => []WithinLimits
<1>1. LimitsInv => WithinLimits
  BY DEF LimitsInv, WithinLimits, Copies
<1>2. QED
  BY <1>1, LimitsInvariant, PTL
-----------------------------------------------------------------------------
(* The relay implements MailDrop. *)

\* Steps that change neither the mailboxes, nor their copies, nor the counters.
LEMMA DropFrame ==
    UNCHANGED <<map, disk, writer, nextId, crashes, handed>> => UNCHANGED Drop!dropVars
BY DEF Drop!dropVars, Messages

\* Removing entries from the mailboxes maps to a subset of the messages.
LEMMA RemoveWithdraws ==
    ASSUME NEW S, Remove(S), UNCHANGED <<disk, writer, nextId, crashes, handed>>
    PROVE  Drop!Withdraw
<1>1. Messages(map)' \subseteq Messages(map)
  BY DEF Remove, Messages
<1>2. Messages(disk \cup writer.snap)' = Messages(disk \cup writer.snap)
  BY DEF Messages
<1>3. QED
  BY <1>1, <1>2 DEF Drop!Withdraw

\* drain_handle_bounded pops a queue from its head: what it removes is closed
\* under "ahead of it in the same mailbox".
LEMMA DrainedIsPrefix ==
    ASSUME TypeOK, NEW hs, NEW e \in DrainedBy(hs), NEW f \in map,
           f.handle = e.handle, f.id <= e.id
    PROVE  f \in DrainedBy(hs)
<1>1. PICK i \in 1..Len(hs) :
        e \in Drained(Queue(hs[i]), Budget(hs)[i - 1].room, Budget(hs)[i - 1].first)
  BY DEF DrainedBy
<1> DEFINE q == Queue(hs[i])
           room == Budget(hs)[i - 1].room
           first == Budget(hs)[i - 1].first
<1>2. e \in q /\ \A g \in Live(q) : g.id <= e.id => g \in Admitted(q, room, first)
  BY <1>1 DEF Drained
<1>3. f \in q /\ q \subseteq Entry
  BY <1>2 DEF Queue, TypeOK
<1>4. \A g \in Live(q) : g.id <= f.id => g.id <= e.id
  BY <1>2, <1>3 DEF Live, Entry, Ids
<1>5. f \in Drained(q, room, first)
  BY <1>2, <1>3, <1>4 DEF Drained
<1>6. QED
  BY <1>5 DEF DrainedBy

\* A drain gives its reader the live entries it removes.
LEMMA DrainHands ==
    ASSUME TypeOK, StoreInv, NEW c \in Conns, NEW hs, Drain(c, hs)
    PROVE  Drop!Hand
<1> DEFINE G == DrainedBy(hs)
           L == Live(G)
           gone == Messages(G)
           out == Messages(L)
<1>1. /\ map' = map \ G
      /\ UNCHANGED <<disk, writer, nextId, crashes>>
      /\ handed' = [i \in Ids |-> handed[i] + (IF i \in IdsOf(L) THEN 1 ELSE 0)]
  BY DEF Drain, Remove, flushing
<1>2. G \subseteq map /\ L \subseteq G
  BY DrainedInMap DEF Live
<1>3. \A e \in G, f \in map : f.handle = e.handle /\ f.id <= e.id => f \in G
  BY DrainedIsPrefix
<1>4. \A e, f \in map : e.id = f.id => e = f
  BY DEF StoreInv, Copies
<1> HIDE DEF G, L
<1>5. gone \in SUBSET Messages(map) /\ out \in SUBSET gone
  BY <1>2 DEF Messages
<1>6. \A m \in out : \A n \in Messages(map) :
         n.handle = m.handle /\ n.id <= m.id => n \in gone
  BY <1>2, <1>3 DEF Messages
<1>7. Messages(map)' = Messages(map) \ gone
  BY <1>1, <1>2, <1>4 DEF Messages
<1>8. \A i \in Ids : (i \in IdsOf(L)) <=> (\E m \in out : m.id = i)
  <2>1. ASSUME NEW i \in Ids, i \in IdsOf(L) PROVE \E m \in out : m.id = i
    <3>1. PICK e \in L : e.id = i
      BY <2>1 DEF IdsOf
    <3>2. [id |-> e.id, handle |-> e.handle] \in out
      BY DEF Messages
    <3>3. QED
      BY <3>1, <3>2
  <2>2. ASSUME NEW i \in Ids, NEW m \in out, m.id = i PROVE i \in IdsOf(L)
    BY <2>2 DEF IdsOf, Messages
  <2>3. QED
    BY <2>1, <2>2
<1>9. handed' = [i \in Ids |-> handed[i] + (IF \E m \in out : m.id = i THEN 1 ELSE 0)]
  BY <1>1, <1>8
<1>10. Messages(disk \cup writer.snap)' = Messages(disk \cup writer.snap)
  BY <1>1 DEF Messages
<1> HIDE DEF gone, out
<1>11. QED
  BY <1>1, <1>5, <1>6, <1>7, <1>9, <1>10 DEF Drop!Hand

\* Every step of the relay is a step of the mail drop, or changes nothing in it.
LEMMA DropStep == TypeOK /\ StoreInv /\ [Next]_vars => [Drop!DropNext]_(Drop!dropVars)
<1> SUFFICES ASSUME TypeOK, StoreInv, [Next]_vars
             PROVE  Drop!DropNext \/ UNCHANGED Drop!dropVars
  OBVIOUS
<1> USE DEF store, flushing, history, vars
<1>1. ASSUME NEW c \in Conns, NEW h \in Handles, NEW size \in Sizes, NEW ttl \in Ttls,
             Post(c, h, size, ttl)
      PROVE  Drop!Deposit
  <2>1. Messages(map)' = Messages(map) \cup {[id |-> nextId, handle |-> h]}
    BY <1>1 DEF Post, Messages
  <2>2. Messages(disk \cup writer.snap)' = Messages(disk \cup writer.snap)
    BY <1>1 DEF Post, Messages
  <2>3. QED
    BY <1>1, <2>1, <2>2 DEF Post, Drop!Deposit
<1>2. ASSUME NEW c \in Conns, NEW hs, Drain(c, hs) PROVE Drop!Hand
  BY <1>2, DrainHands
<1>3. ASSUME NEW c \in Conns, NEW id \in Ids, Recall(c, id) PROVE Drop!Withdraw
  BY <1>3, RemoveWithdraws DEF Recall
<1>4. CASE Reap
  BY <1>4, RemoveWithdraws DEF Reap, Drop!DropNext
<1>5. ASSUME disk' \cup writer'.snap \subseteq map \cup disk \cup writer.snap,
             UNCHANGED <<map, nextId, crashes, handed>>
      PROVE  Drop!Keep
  <2>1. Messages(disk \cup writer.snap)' \subseteq Messages(map) \cup Messages(disk \cup writer.snap)
    BY <1>5 DEF Messages
  <2>2. Messages(map)' = Messages(map)
    BY <1>5 DEF Messages
  <2>3. QED
    BY <1>5, <2>1, <2>2 DEF Drop!Keep
<1>6. ASSUME NEW owner, Snapshot(owner) PROVE Drop!Keep
  BY <1>5, <1>6 DEF Snapshot
<1>7. ASSUME WriteOk \/ WriteFailed PROVE Drop!Keep
  BY <1>5, <1>7 DEF WriteOk, WriteFailed, WriterDone, NoWriter
<1>8. CASE CrashRestart
  <2>1. /\ map' = Live(disk) /\ disk' = disk /\ writer' = NoWriter
        /\ UNCHANGED <<nextId, handed>> /\ crashes' = crashes + 1
    BY <1>8 DEF CrashRestart
  <2>2. /\ Messages(disk \cup writer.snap)' \subseteq Messages(disk \cup writer.snap)
        /\ Messages(map)' \subseteq Messages(disk \cup writer.snap)
    BY <2>1 DEF Messages, Live, NoWriter
  <2>3. QED
    BY <2>1, <2>2 DEF Drop!Restart, Drop!DropNext
<1>9. ASSUME NEW c \in Conns,
              \/ \E h \in Handles, size \in Sizes : PostRefused(c, h, size)
              \/ Peek(c) \/ GetDirectory(c) \/ BadLine(c)
              \/ \E hs \in HandleLists : TakeManyRefused(c, hs)
              \/ FlushSkip(c) \/ Reply(c) \/ ReplyLost(c)
       PROVE  UNCHANGED Drop!dropVars
  BY <1>9, DropFrame
     DEF PostRefused, Peek, GetDirectory, BadLine, TakeManyRefused, FlushSkip, Reply, ReplyLost
<1>10. ASSUME IntervalElapses \/ Tick \/ UNCHANGED vars PROVE UNCHANGED Drop!dropVars
  BY <1>10, DropFrame DEF IntervalElapses, Tick
<1>11. QED
  BY <1>1, <1>2, <1>3, <1>4, <1>6, <1>7, <1>8, <1>9, <1>10
     DEF Next, Request, Take, TakeMany, FlushSnapshot, FlusherSnapshot, Drop!DropNext

\* The relay store implements the mail drop: oldest first, one reader per
\* message and boot, and no restart brings back what was not stored.
THEOREM Refinement == Spec => ImplementsDrop
<1>1. Init => Drop!DropInit
  BY DEF Init, Drop!DropInit, Messages, NoWriter
<1>2. QED
  BY <1>1, DropStep, TypeCorrect, StoreInvariant, PTL DEF Spec, ImplementsDrop, Drop!DropSpec
=============================================================================
