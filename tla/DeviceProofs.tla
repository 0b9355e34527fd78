----------------------------- MODULE DeviceProofs -----------------------------
(***************************************************************************)
(* Proofs about the loops of the device: the app's cores over one state    *)
(* file (Lifecycle), the relay's watchdog (Watchdog), the readers of       *)
(* inbound frames (Inbound) and the sweeps that delete (Retention), for    *)
(* every set of blobs, notices, connections, frame lengths and messages,   *)
(* every number of cores, every threshold and every choice of timers.      *)
(***************************************************************************)
EXTENDS Lifecycle, Watchdog, Inbound, Retention, TallyProofs, WellFoundedInduction, TLAPS

-----------------------------------------------------------------------------
(* The types of the cores *)

Blobs == Messages \cup Controls
JobStates == {"none", "running", "done"}
ShutdownStates == {"none", "close", "wait", "close2", "done"}
CoreRecords ==
    [mem : SUBSET Facts, pending : BOOLEAN, stop : BOOLEAN, closed : BOOLEAN, pc : PollerPcs,
     drain : JobStates, hand : SUBSET Blobs, harvest : SUBSET Blobs, outbox : SUBSET Notices,
     job : JobStates, sending : SUBSET Notices, reached : SUBSET Notices,
     sd : ShutdownStates, early : BOOLEAN]
LifeTypes ==
    /\ relay \subseteq Blobs /\ disk \subseteq Facts /\ started \in Cores
    /\ core \in [Cores -> CoreRecords]

\* A step that leaves core c at k, but for the mark that a write is pending.
LeftAt(c, k) == \E p \in BOOLEAN : core' = [core EXCEPT ![c] = [k EXCEPT !.pending = p]]

\* A save writes the memory of the core that saves.
LEMMA SaveWrites ==
    ASSUME NEW c, NEW k, Save(c, k)
    PROVE  LeftAt(c, k) /\ disk' = k.mem
BY DEF Save, Saved, LeftAt, Put

\* A debounced save writes it now or leaves the file alone.
LEMMA SaveSoonWrites ==
    ASSUME NEW c, NEW k, NEW due, SaveSoon(c, k, due)
    PROVE  LeftAt(c, k) /\ (disk' = disk \/ disk' = k.mem)
BY SaveWrites DEF SaveSoon, LeftAt, Put

\* So does a flush.
LEMMA FlushWrites ==
    ASSUME NEW c, NEW k \in CoreRecords, NEW due, FlushPending(c, k, due)
    PROVE  LeftAt(c, k) /\ (disk' = disk \/ disk' = k.mem)
<1>1. CASE k.pending /\ due
  BY <1>1, SaveWrites DEF FlushPending
<1>2. CASE ~(k.pending /\ due)
  <2>1. [k EXCEPT !.pending = k.pending] = k /\ k.pending \in BOOLEAN
    BY DEF CoreRecords
  <2>2. QED BY <1>2, <2>1 DEF FlushPending, LeftAt, Put
<1>3. QED BY <1>1, <1>2

-----------------------------------------------------------------------------
(* A message taken off the relays is never lost with its core *)

Hands(k) == k.hand \cup k.harvest

\* A harvest is applied in the tick that took it; a poller past its drain has
\* nothing in its hands and no job that could put something there; and a
\* shutdown gets past its wait only once the poller is gone.
CoreSafe(k) ==
    /\ k.pc \notin {"send", "locked"} => k.harvest = {}
    /\ k.pc \in {"exitOutbox", "exitAbandon", "gone"} => k.hand = {} /\ k.drain = "none"
    /\ k.sd \in {"close2", "done"} => k.pc = "gone"

\* The inductive invariant.  An earlier core is over, so only the last one
\* writes the state file, and it has every message that is in the file.
LifeInv ==
    /\ LifeTypes
    /\ \A c \in Cores : CoreSafe(core[c])
    /\ \A c \in Cores : c < started => core[c].pc = "gone" /\ core[c].sd = "done"
    /\ \A m \in Messages : Got(m) \in disk => Got(m) \in core[started].mem
    /\ MessagesSurviveShutdown

LEMMA PendingIsAMark ==
    ASSUME NEW k \in CoreRecords, NEW p \in BOOLEAN
    PROVE  LET n == [k EXCEPT !.pending = p]
           IN  /\ n \in CoreRecords /\ n.mem = k.mem /\ Hands(n) = Hands(k)
               /\ n.pc = k.pc /\ n.sd = k.sd /\ (CoreSafe(k) => CoreSafe(n))
BY DEF CoreRecords, Hands, CoreSafe

\* A step of one core keeps the invariant when it forgets nothing, only the
\* last core writes the file, and what it no longer has in its hands, or takes
\* off the relays, is in its hands or in the file afterwards.
LEMMA CoreStepKeeps ==
    ASSUME LifeInv, NEW c \in 1 .. started, NEW k \in CoreRecords,
           LeftAt(c, k), CoreSafe(k), core[c].mem \subseteq k.mem,
           c < started => k.pc = "gone" /\ k.sd = "done",
           disk' = disk \/ (disk' = k.mem /\ c = started),
           started' = started, relay' \subseteq relay,
           \A m \in Messages : m \in Hands(core[c]) \cup (relay \ relay')
                                 => Got(m) \in disk' \/ m \in Hands(k)
    PROVE  LifeInv'
<1>1. PICK n \in CoreRecords :
        /\ core' = [core EXCEPT ![c] = n]
        /\ n.mem = k.mem /\ Hands(n) = Hands(k) /\ n.pc = k.pc /\ n.sd = k.sd /\ CoreSafe(n)
  <2>1. PICK p \in BOOLEAN : core' = [core EXCEPT ![c] = [k EXCEPT !.pending = p]]
    BY DEF LeftAt
  <2>2. QED BY <2>1, PendingIsAMark
<1>2. c \in Cores /\ started \in Cores /\ core \in [Cores -> CoreRecords]
  BY LifecycleAssumption DEF LifeInv, LifeTypes, Cores
<1>3. core'[c] = n /\ \A d \in Cores : d # c => core'[d] = core[d]
  BY <1>1, <1>2
<1>4. LifeTypes'
  <2>1. disk' \subseteq Facts
    BY DEF LifeInv, LifeTypes, CoreRecords
  <2>2. QED BY <1>1, <1>2, <2>1 DEF LifeInv, LifeTypes
<1>5. \A d \in Cores : CoreSafe(core'[d])
  BY <1>1, <1>3 DEF LifeInv
<1>6. \A d \in Cores : d < started => core'[d].pc = "gone" /\ core'[d].sd = "done"
  BY <1>1, <1>3 DEF LifeInv
<1>7. \A m \in Messages : Got(m) \in disk' => Got(m) \in core'[started].mem
  BY <1>1, <1>2, <1>3 DEF LifeInv
<1>8. ASSUME NEW m \in Messages
      PROVE  m \in relay' \/ Got(m) \in disk'
               \/ \E d \in Cores : Running(d)' /\ m \in core'[d].hand \cup core'[d].harvest
  <2>1. CASE m \in Hands(core[c]) \cup (relay \ relay')
    <3>1. CASE Got(m) \in disk'
      BY <3>1
    <3>2. CASE m \in Hands(k)
      <4>1. m \in core'[c].hand \cup core'[c].harvest
        BY <1>1, <1>3, <3>2 DEF Hands
      <4>2. core'[c].pc # "gone"
        BY <1>1, <1>3, <4>1 DEF CoreSafe
      <4>3. c <= started'
        BY DEF Cores
      <4>4. QED BY <1>2, <4>1, <4>2, <4>3 DEF Running
    <3>3. QED BY <2>1, <3>1, <3>2
  <2>2. CASE Got(m) \in disk
    BY <1>2, <2>2 DEF LifeInv
  <2>3. CASE m \notin Hands(core[c]) /\ m \in relay /\ m \in relay'
    BY <2>3
  <2>4. CASE \E d \in Cores : d # c /\ Running(d) /\ m \in core[d].hand \cup core[d].harvest
    BY <1>3, <2>4 DEF Running
  <2>5. QED
    BY <2>1, <2>2, <2>3, <2>4 DEF LifeInv, MessagesSurviveShutdown, Hands
<1>9. QED
  BY <1>4, <1>5, <1>6, <1>7, <1>8 DEF LifeInv, MessagesSurviveShutdown

\* The fields of a core, one by one.
LEMMA CoreFields ==
    ASSUME LifeInv, NEW c \in 1 .. started
    PROVE  /\ c \in Cores /\ core[c] \in CoreRecords /\ CoreSafe(core[c])
           /\ c < started => core[c].pc = "gone" /\ core[c].sd = "done"
           /\ core' = [core EXCEPT ![c] = core[c]] <=> core' = core
BY LifecycleAssumption DEF LifeInv, LifeTypes, Cores

\* A step that writes neither the file nor the relays and keeps the memory
\* and what is in the core's hands.
LEMMA QuietStepKeeps ==
    ASSUME LifeInv, NEW c \in 1 .. started, NEW k \in CoreRecords, Put(c, k), CoreSafe(k),
           k.mem = core[c].mem, Hands(core[c]) \subseteq Hands(k),
           c < started => k.pc = "gone" /\ k.sd = "done",
           UNCHANGED <<relay, disk, started>>
    PROVE  LifeInv'
<1>1. LeftAt(c, k)
  <2>1. k.pending \in BOOLEAN /\ [k EXCEPT !.pending = k.pending] = k
    BY DEF CoreRecords
  <2>2. QED BY <2>1 DEF LeftAt, Put
<1>2. QED BY <1>1, CoreStepKeeps

LEMMA JobsKeep ==
    ASSUME LifeInv, NEW c \in 1 .. started, DrainTake(c) \/ DrainEnd(c) \/ OutboxEnd(c)
    PROVE  LifeInv'
<1>1. core[c] \in CoreRecords /\ CoreSafe(core[c])
      /\ (c < started => core[c].pc = "gone" /\ core[c].sd = "done")
  BY CoreFields
<1>2. CASE DrainTake(c)
  <2>1. PICK b \in relay : relay' = relay \ {b} /\ Put(c, [core[c] EXCEPT !.hand = @ \cup {b}])
    BY <1>2 DEF DrainTake
  <2> DEFINE k == [core[c] EXCEPT !.hand = @ \cup {b}]
  <2>2. k \in CoreRecords /\ k.mem = core[c].mem /\ CoreSafe(k) /\ Hands(k) = Hands(core[c]) \cup {b}
        /\ k.pc = core[c].pc /\ k.sd = core[c].sd
    BY <1>1, <1>2 DEF CoreRecords, LifeInv, LifeTypes, DrainTake, CoreSafe, Hands
  <2>3. LeftAt(c, k)
    <3>1. [k EXCEPT !.pending = k.pending] = k /\ k.pending \in BOOLEAN
      BY <2>2 DEF CoreRecords
    <3>2. QED BY <2>1, <3>1 DEF LeftAt, Put
  <2>4. disk' = disk /\ started' = started
    BY <1>2 DEF DrainTake
  <2> HIDE DEF k
  <2>5. QED BY <1>1, <2>1, <2>2, <2>3, <2>4, CoreStepKeeps
<1>3. CASE DrainEnd(c)
  <2> DEFINE k == [core[c] EXCEPT !.drain = "done"]
  <2>1. k \in CoreRecords /\ k.mem = core[c].mem /\ CoreSafe(k) /\ Hands(k) = Hands(core[c])
        /\ k.pc = core[c].pc /\ k.sd = core[c].sd
    BY <1>1, <1>3 DEF CoreRecords, DrainEnd, CoreSafe, Hands, JobStates
  <2>2. Put(c, k) /\ UNCHANGED <<relay, disk, started>>
    BY <1>3 DEF DrainEnd
  <2> HIDE DEF k
  <2>3. QED BY <1>1, <2>1, <2>2, QuietStepKeeps
<1>4. CASE OutboxEnd(c)
  <2>1. PICK r \in SUBSET core[c].sending : Put(c, [core[c] EXCEPT !.job = "done", !.reached = r])
    BY <1>4 DEF OutboxEnd
  <2> DEFINE k == [core[c] EXCEPT !.job = "done", !.reached = r]
  <2>2. k \in CoreRecords /\ k.mem = core[c].mem /\ CoreSafe(k) /\ Hands(k) = Hands(core[c])
        /\ k.pc = core[c].pc /\ k.sd = core[c].sd
    BY <1>1, <2>1 DEF CoreRecords, CoreSafe, Hands, JobStates
  <2>3. Put(c, k) /\ UNCHANGED <<relay, disk, started>>
    BY <1>4, <2>1 DEF OutboxEnd
  <2> HIDE DEF k
  <2>4. QED BY <1>1, <2>2, <2>3, QuietStepKeeps
<1>5. QED BY <1>2, <1>3, <1>4

\* What apply_tick and the exit do with a harvest: whatever the core had in
\* its hands besides stays there, and a harvest with a message is saved.
LEMMA HarvestKeeps ==
    ASSUME LifeInv, NEW k \in CoreRecords, NEW h \in SUBSET Blobs, NEW due \in BOOLEAN,
           ApplyHarvest(started, k, h, due), CoreSafe(k), k.mem = core[started].mem,
           Hands(core[started]) \subseteq h \cup Hands(k), UNCHANGED <<relay, started>>
    PROVE  LifeInv'
<1> DEFINE next == [k EXCEPT !.mem = @ \cup {Got(b) : b \in h}]
<1>1. /\ next \in CoreRecords /\ CoreSafe(next) /\ Hands(next) = Hands(k)
      /\ core[started].mem \subseteq next.mem /\ \A b \in h : Got(b) \in next.mem
  BY DEF CoreRecords, CoreSafe, Hands, Blobs, Facts
<1>2. \/ Save(started, next)
      \/ h \cap Messages = {} /\ SaveSoon(started, next, due)
      \/ h \cap Messages = {} /\ FlushPending(started, next, due)
  BY DEF ApplyHarvest
<1> HIDE DEF next
<1>3. LeftAt(started, next) /\ (disk' = disk \/ disk' = next.mem)
  BY <1>1, <1>2, SaveWrites, SaveSoonWrites, FlushWrites
<1>4. \A m \in Messages : m \in h => Got(m) \in disk'
  BY <1>1, <1>2, SaveWrites
<1>5. \A m \in Messages : m \in Hands(core[started]) \cup (relay \ relay')
                            => Got(m) \in disk' \/ m \in Hands(next)
  BY <1>1, <1>4
<1>6. started \in 1 .. started /\ ~(started < started)
  BY LifecycleAssumption DEF LifeInv, LifeTypes, Cores
<1>7. QED BY <1>1, <1>3, <1>5, <1>6, CoreStepKeeps

\* What the outbox does with a finished round.
LEMMA RoundKeeps ==
    ASSUME LifeInv, NEW k \in CoreRecords, NEW due \in BOOLEAN,
           ApplyRound(started, k, due), CoreSafe(k), k.mem = core[started].mem,
           Hands(core[started]) \subseteq Hands(k), UNCHANGED <<relay, started>>
    PROVE  LifeInv'
<1> DEFINE next == [k EXCEPT !.mem = @ \cup {Landed(n) : n \in k.reached}, !.job = "none",
                             !.sending = {}, !.reached = {}]
<1>1. /\ next \in CoreRecords /\ CoreSafe(next) /\ Hands(next) = Hands(k)
      /\ core[started].mem \subseteq next.mem
  BY DEF CoreRecords, CoreSafe, Hands, JobStates, Facts
<1>2. SaveSoon(started, next, due)
  BY DEF ApplyRound
<1> HIDE DEF next
<1>3. LeftAt(started, next) /\ (disk' = disk \/ disk' = next.mem)
  BY <1>2, SaveSoonWrites
<1>4. started \in 1 .. started /\ ~(started < started)
  BY LifecycleAssumption DEF LifeInv, LifeTypes, Cores
<1>5. QED BY <1>1, <1>3, <1>4, CoreStepKeeps

\* The loop of the poller.
LEMMA LoopKeeps ==
    ASSUME LifeInv, NEW c \in 1 .. started,
           Sleep(c) \/ Collect(c) \/ TakeLock(c) \/ ApplyTick(c) \/ Outbox(c)
    PROVE  LifeInv'
<1>1. c = started /\ core[c] \in CoreRecords /\ CoreSafe(core[c])
  <2>1. core[c].pc # "gone"
    BY DEF Sleep, Collect, TakeLock, ApplyTick, Outbox
  <2>2. QED BY <2>1, CoreFields, LifecycleAssumption DEF LifeInv, LifeTypes, Cores
<1>2. core[c].sd \notin {"close2", "done"}
  BY <1>1 DEF CoreSafe, Sleep, Collect, TakeLock, ApplyTick, Outbox
<1>3. ~(started < started)
  BY LifecycleAssumption DEF LifeInv, LifeTypes, Cores
<1>4. CASE Sleep(c)
  <2> DEFINE k == [core[c] EXCEPT !.pc = IF core[c].stop THEN "exitDrain" ELSE "collect"]
  <2>1. k \in CoreRecords /\ k.mem = core[c].mem /\ CoreSafe(k) /\ Hands(k) = Hands(core[c])
    BY <1>1, <1>2, <1>4 DEF CoreRecords, PollerPcs, Sleep, CoreSafe, Hands
  <2>2. Put(c, k) /\ UNCHANGED <<relay, disk, started>>
    BY <1>4 DEF Sleep
  <2> HIDE DEF k
  <2>3. QED BY <1>1, <1>3, <2>1, <2>2, QuietStepKeeps
<1>5. CASE Collect(c)
  <2>1. PICK relayDue \in BOOLEAN :
          LET k == core[c]
              taken == k.drain = "done" IN
          Put(c, [k EXCEPT !.pc = "send",
                           !.harvest = IF taken THEN k.hand ELSE @,
                           !.hand = IF taken THEN {} ELSE @,
                           !.drain = IF relayDue /\ k.drain = "none" THEN "running"
                                     ELSE IF taken THEN "none" ELSE @])
    BY <1>5 DEF Collect
  <2> DEFINE taken == core[c].drain = "done"
             harvest == IF taken THEN core[c].hand ELSE core[c].harvest
             hand == IF taken THEN {} ELSE core[c].hand
             drain == IF relayDue /\ core[c].drain = "none" THEN "running"
                      ELSE IF taken THEN "none" ELSE core[c].drain
             k == [core[c] EXCEPT !.pc = "send", !.harvest = harvest, !.hand = hand, !.drain = drain]
  <2>2. /\ k \in CoreRecords /\ k.mem = core[c].mem /\ k.pc = "send" /\ k.sd = core[c].sd
        /\ k.hand = hand /\ k.harvest = harvest
    <3>1. harvest \in SUBSET Blobs /\ hand \in SUBSET Blobs /\ drain \in JobStates
      BY <1>1 DEF CoreRecords, JobStates
    <3> HIDE DEF harvest, hand, drain
    <3>2. QED BY <1>1, <3>1 DEF CoreRecords, PollerPcs
  <2>3. core[c].harvest = {}
    BY <1>1, <1>5 DEF Collect, CoreSafe
  <2>4. Hands(core[c]) \subseteq Hands(k)
    BY <2>2, <2>3 DEF Hands
  <2>5. CoreSafe(k)
    BY <1>2, <2>2 DEF CoreSafe
  <2>6. Put(c, k) /\ UNCHANGED <<relay, disk, started>>
    BY <1>5, <2>1 DEF Collect
  <2> HIDE DEF k
  <2>7. QED BY <1>1, <1>3, <2>2, <2>4, <2>5, <2>6, QuietStepKeeps
<1>6. CASE TakeLock(c)
  <2> DEFINE k == [core[c] EXCEPT !.pc = "locked"]
  <2>1. k \in CoreRecords /\ k.mem = core[c].mem /\ CoreSafe(k) /\ Hands(k) = Hands(core[c])
    BY <1>1, <1>2, <1>6 DEF CoreRecords, PollerPcs, TakeLock, CoreSafe, Hands
  <2>2. Put(c, k) /\ UNCHANGED <<relay, disk, started>>
    BY <1>6 DEF TakeLock
  <2> HIDE DEF k
  <2>3. QED BY <1>1, <1>3, <2>1, <2>2, QuietStepKeeps
<1>7. CASE ApplyTick(c)
  <2> DEFINE k == [core[c] EXCEPT !.pc = "outbox", !.harvest = {}]
  <2>1. /\ k \in CoreRecords /\ k.mem = core[c].mem /\ CoreSafe(k)
        /\ core[c].harvest \in SUBSET Blobs /\ Hands(core[c]) \subseteq core[c].harvest \cup Hands(k)
    BY <1>1, <1>2, <1>7 DEF CoreRecords, PollerPcs, ApplyTick, CoreSafe, Hands
  <2>2. PICK due \in BOOLEAN : ApplyHarvest(c, k, core[c].harvest, due)
    BY <1>7 DEF ApplyTick
  <2>3. UNCHANGED <<relay, started>>
    BY <1>7 DEF ApplyTick
  <2> HIDE DEF k
  <2>4. QED BY <1>1, <2>1, <2>2, <2>3, HarvestKeeps
<1>8. CASE Outbox(c)
  <2>1. UNCHANGED <<relay, started>>
    BY <1>8 DEF Outbox
  <2>2. CASE core[c].job = "done"
    <3>1. PICK due \in BOOLEAN : ApplyRound(c, core[c], due)
      BY <1>8, <2>2 DEF Outbox
    <3>2. QED BY <1>1, <2>1, <3>1, RoundKeeps
  <2>3. CASE core[c].job # "done"
    <3> DEFINE send == core[c].job = "none" /\ core[c].outbox # {}
               k == [core[c] EXCEPT !.pc = "sleep", !.job = IF send THEN "running" ELSE @,
                              !.sending = IF send THEN core[c].outbox ELSE @,
                              !.outbox = IF send THEN {} ELSE @]
    <3>1. k \in CoreRecords /\ k.mem = core[c].mem /\ CoreSafe(k) /\ Hands(k) = Hands(core[c])
      <4>1. core[c].pc = "outbox" /\ core[c].outbox \in SUBSET Notices
        BY <1>1, <1>8 DEF CoreRecords, Outbox
      <4>2. CASE send
        <5>1. k = [core[c] EXCEPT !.pc = "sleep", !.job = "running", !.sending = core[c].outbox, !.outbox = {}]
          BY <1>1, <4>2 DEF CoreRecords
        <5> HIDE DEF k, send
        <5>2. k \in CoreRecords
          BY ONLY <1>1, <4>1, <5>1 DEF CoreRecords, PollerPcs, JobStates
        <5>3. /\ k.pc = "sleep" /\ k.mem = core[c].mem /\ k.hand = core[c].hand
              /\ k.harvest = core[c].harvest /\ k.sd = core[c].sd
          BY ONLY <1>1, <5>1 DEF CoreRecords
        <5>4. QED BY ONLY <1>1, <4>1, <5>2, <5>3 DEF CoreSafe, Hands
      <4>3. CASE ~send
        <5>1. k = [core[c] EXCEPT !.pc = "sleep"]
          BY <1>1, <4>3 DEF CoreRecords
        <5> HIDE DEF k, send
        <5>2. k \in CoreRecords
          BY ONLY <1>1, <5>1 DEF CoreRecords, PollerPcs
        <5>3. /\ k.pc = "sleep" /\ k.mem = core[c].mem /\ k.hand = core[c].hand
              /\ k.harvest = core[c].harvest /\ k.sd = core[c].sd
          BY ONLY <1>1, <5>1 DEF CoreRecords
        <5>4. QED BY ONLY <1>1, <4>1, <5>2, <5>3 DEF CoreSafe, Hands
      <4>4. QED BY <4>2, <4>3
    <3>2. Put(c, k) /\ UNCHANGED disk
      BY <1>8, <2>3 DEF Outbox
    <3> HIDE DEF k
    <3>3. QED BY <1>1, <1>3, <2>1, <3>1, <3>2, QuietStepKeeps
  <2>4. QED BY <2>2, <2>3
<1>9. QED BY <1>4, <1>5, <1>6, <1>7, <1>8

\* The end of the poller: the drain in flight, the round in flight, what
\* never went out.
LEMMA ExitKeeps ==
    ASSUME LifeInv, NEW c \in 1 .. started, ExitDrain(c) \/ ExitOutbox(c) \/ ExitAbandon(c)
    PROVE  LifeInv'
<1>1. c = started /\ core[c] \in CoreRecords /\ CoreSafe(core[c])
  <2>1. core[c].pc # "gone"
    BY DEF ExitDrain, ExitOutbox, ExitAbandon
  <2>2. QED BY <2>1, CoreFields, LifecycleAssumption DEF LifeInv, LifeTypes, Cores
<1>2. core[c].sd \notin {"close2", "done"}
  BY <1>1 DEF CoreSafe, ExitDrain, ExitOutbox, ExitAbandon
<1>3. started \in 1 .. started /\ ~(started < started)
  BY LifecycleAssumption DEF LifeInv, LifeTypes, Cores
<1>4. CASE ExitDrain(c)
  <2> DEFINE k == [core[c] EXCEPT !.pc = "exitOutbox", !.hand = {}, !.drain = "none"]
  <2>1. /\ k \in CoreRecords /\ k.mem = core[c].mem /\ CoreSafe(k)
        /\ core[c].hand \in SUBSET Blobs /\ Hands(core[c]) \subseteq core[c].hand \cup Hands(k)
    BY <1>1, <1>2, <1>4 DEF CoreRecords, PollerPcs, JobStates, ExitDrain, CoreSafe, Hands
  <2>2. PICK due \in BOOLEAN : ApplyHarvest(c, k, core[c].hand, due)
    BY <1>4 DEF ExitDrain
  <2>3. UNCHANGED <<relay, started>>
    BY <1>4 DEF ExitDrain
  <2> HIDE DEF k
  <2>4. QED BY <1>1, <2>1, <2>2, <2>3, HarvestKeeps
<1>5. CASE ExitOutbox(c)
  <2> DEFINE k == [core[c] EXCEPT !.pc = "exitAbandon"]
  <2>1. k \in CoreRecords /\ k.mem = core[c].mem /\ CoreSafe(k) /\ Hands(k) = Hands(core[c])
    BY <1>1, <1>2, <1>5 DEF CoreRecords, PollerPcs, ExitOutbox, CoreSafe, Hands
  <2>2. \/ \E due \in BOOLEAN : ApplyRound(c, k, due)
        \/ Put(c, k) /\ UNCHANGED disk
    BY <1>5 DEF ExitOutbox
  <2>3. UNCHANGED <<relay, started>>
    BY <1>5 DEF ExitOutbox
  <2> HIDE DEF k
  <2>4. QED BY <1>1, <1>3, <2>1, <2>2, <2>3, RoundKeeps, QuietStepKeeps
<1>6. CASE ExitAbandon(c)
  <2> DEFINE k == [core[c] EXCEPT !.pc = "gone", !.outbox = {}]
  <2>1. k \in CoreRecords /\ k.mem = core[c].mem /\ CoreSafe(k) /\ Hands(k) = Hands(core[c])
    BY <1>1, <1>2, <1>6 DEF CoreRecords, PollerPcs, ExitAbandon, CoreSafe, Hands
  <2>2. \/ \E due \in BOOLEAN : SaveSoon(c, k, due)
        \/ Put(c, k) /\ UNCHANGED disk
    BY <1>6 DEF ExitAbandon
  <2>3. UNCHANGED <<relay, started>>
    BY <1>6 DEF ExitAbandon
  <2> HIDE DEF k
  <2>4. CASE \E due \in BOOLEAN : SaveSoon(c, k, due)
    <3>1. LeftAt(c, k) /\ (disk' = disk \/ disk' = k.mem)
      BY <2>4, SaveSoonWrites
    <3>2. QED BY <1>1, <1>3, <2>1, <2>3, <3>1, CoreStepKeeps
  <2>5. CASE Put(c, k) /\ UNCHANGED disk
    BY <1>1, <1>3, <2>1, <2>3, <2>5, QuietStepKeeps
  <2>6. QED BY <2>2, <2>4, <2>5
<1>7. QED BY <1>4, <1>5, <1>6

\* The user's actions, and the shutdown, whose wait is as long as it takes.
LEMMA ShutdownKeeps ==
    ASSUME LifeInv, SlowPoller = FALSE, NEW c \in 1 .. started,
           UserAsks(c) \/ ShutdownCore(c) \/ CloseEarly(c) \/ WaitForExit(c) \/ CloseLate(c)
    PROVE  LifeInv'
<1>1. c = started /\ core[c] \in CoreRecords /\ CoreSafe(core[c])
  <2>1. core[c].sd # "done"
    BY DEF UserAsks, ShutdownCore, CloseEarly, WaitForExit, CloseLate
  <2>2. QED BY <2>1, CoreFields, LifecycleAssumption DEF LifeInv, LifeTypes, Cores
<1>2. started \in 1 .. started /\ ~(started < started)
  BY LifecycleAssumption DEF LifeInv, LifeTypes, Cores
<1>3. CASE UserAsks(c)
  <2>1. PICK n \in Notices : Save(c, [core[c] EXCEPT !.mem = @ \cup {Asked(n)}, !.outbox = @ \cup {n}])
    BY <1>3 DEF UserAsks
  <2> DEFINE k == [core[c] EXCEPT !.mem = @ \cup {Asked(n)}, !.outbox = @ \cup {n}]
  <2>2. /\ k \in CoreRecords /\ core[c].mem \subseteq k.mem /\ CoreSafe(k)
        /\ Hands(k) = Hands(core[c])
    <3>1. k \in CoreRecords
      BY <1>1 DEF CoreRecords, Facts
    <3>2. /\ k.pc = core[c].pc /\ core[c].mem \subseteq k.mem /\ k.hand = core[c].hand
          /\ k.harvest = core[c].harvest /\ k.sd = core[c].sd /\ k.drain = core[c].drain
      BY <1>1 DEF CoreRecords
    <3> HIDE DEF k
    <3>3. QED BY ONLY <1>1, <3>1, <3>2 DEF CoreSafe, Hands
  <2>3. UNCHANGED <<relay, started>>
    BY <1>3 DEF UserAsks
  <2> HIDE DEF k
  <2>4. LeftAt(c, k) /\ disk' = k.mem
    BY <2>1, SaveWrites DEF k
  <2>5. QED BY <1>1, <1>2, <2>2, <2>3, <2>4, CoreStepKeeps
<1>4. CASE ShutdownCore(c)
  <2> DEFINE k == [core[c] EXCEPT !.sd = "close", !.stop = TRUE]
  <2>1. k \in CoreRecords /\ k.mem = core[c].mem /\ CoreSafe(k) /\ Hands(k) = Hands(core[c])
    BY <1>1 DEF CoreRecords, ShutdownStates, CoreSafe, Hands
  <2>2. Put(c, k) /\ UNCHANGED <<relay, disk, started>>
    BY <1>4 DEF ShutdownCore
  <2> HIDE DEF k
  <2>3. QED BY <1>1, <1>2, <2>1, <2>2, QuietStepKeeps
<1>5. ASSUME NEW then \in {"wait", "done"}, TryClose(c, then), UNCHANGED <<relay, started>>,
             then = "done" => core[c].pc = "gone"
      PROVE  LifeInv'
  <2> DEFINE early == core[c].sd = "close"
             k == [core[c] EXCEPT !.closed = TRUE, !.sd = then, !.early = early]
             n == [core[c] EXCEPT !.sd = then]
  <2>1. /\ k \in CoreRecords /\ k.mem = core[c].mem /\ CoreSafe(k) /\ Hands(k) = Hands(core[c])
        /\ n \in CoreRecords /\ n.mem = core[c].mem /\ CoreSafe(n) /\ Hands(n) = Hands(core[c])
    <3>1. early \in BOOLEAN
      OBVIOUS
    <3> HIDE DEF early
    <3>2. QED BY <1>1, <1>5, <3>1 DEF CoreRecords, ShutdownStates, CoreSafe, Hands
  <2>2. FlushPending(c, k, TRUE) \/ (Put(c, n) /\ UNCHANGED disk)
    BY <1>5 DEF TryClose
  <2> HIDE DEF k, n
  <2>3. CASE FlushPending(c, k, TRUE)
    <3>1. LeftAt(c, k) /\ (disk' = disk \/ disk' = k.mem)
      BY <2>1, <2>3, FlushWrites
    <3>2. QED BY <1>1, <1>2, <1>5, <2>1, <3>1, CoreStepKeeps
  <2>4. CASE Put(c, n) /\ UNCHANGED disk
    BY <1>1, <1>2, <1>5, <2>1, <2>4, QuietStepKeeps
  <2>5. QED BY <2>2, <2>3, <2>4
<1>6. CASE CloseEarly(c)
  BY <1>5, <1>6 DEF CloseEarly
<1>7. CASE WaitForExit(c)
  <2> DEFINE sd == IF core[c].early THEN "done" ELSE "close2"
             k == [core[c] EXCEPT !.sd = sd]
  <2>1. sd \in ShutdownStates /\ core[c].pc = "gone"
    BY <1>7 DEF ShutdownStates, WaitForExit
  <2>2. k \in CoreRecords /\ k.mem = core[c].mem /\ CoreSafe(k) /\ Hands(k) = Hands(core[c])
    BY <1>1, <2>1 DEF CoreRecords, CoreSafe, Hands
  <2>3. Put(c, k) /\ UNCHANGED <<relay, disk, started>>
    BY <1>7 DEF WaitForExit
  <2> HIDE DEF k
  <2>4. QED BY <1>1, <1>2, <2>2, <2>3, QuietStepKeeps
<1>8. CASE CloseLate(c)
  <2>1. core[c].pc = "gone"
    BY <1>1, <1>8 DEF CloseLate, CoreSafe
  <2>2. QED BY <1>5, <1>8, <2>1 DEF CloseLate
<1>9. QED BY <1>3, <1>4, <1>6, <1>7, <1>8

\* The next launch loads what the last core left behind.
LEMMA LaunchKeeps ==
    ASSUME LifeInv, Launch
    PROVE  LifeInv'
<1>1. /\ started \in Cores /\ started + 1 \in Cores /\ started' = started + 1
      /\ core' = [core EXCEPT ![started + 1] = NewCore(disk)]
      /\ disk' = disk /\ relay' = relay
  BY LifecycleAssumption DEF LifeInv, LifeTypes, Launch, Put, Cores
<1>2. core[started].pc = "gone" /\ core[started].sd = "done"
  BY <1>1 DEF LifeInv, CoreSafe, Launch
<1>3. NewCore(disk) \in CoreRecords /\ CoreSafe(NewCore(disk)) /\ NewCore(disk).mem = disk
  BY DEF NewCore, CoreRecords, CoreSafe, PollerPcs, JobStates, ShutdownStates, LifeInv, LifeTypes
<1> DEFINE new == NewCore(disk)
<1>4. core'[started + 1] = new /\ \A d \in Cores : d # started + 1 => core'[d] = core[d]
  BY <1>1 DEF LifeInv, LifeTypes
<1> HIDE DEF new
<1>5. LifeTypes'
  BY <1>1, <1>3 DEF LifeInv, LifeTypes
<1>6. \A d \in Cores : CoreSafe(core'[d])
  BY <1>3, <1>4 DEF LifeInv, new
<1>7. \A d \in Cores : d < started' => core'[d].pc = "gone" /\ core'[d].sd = "done"
  <2>1. \A d \in Cores : d < started + 1 => d = started \/ d < started
    BY <1>1 DEF Cores
  <2>2. QED BY <1>1, <1>2, <1>4, <2>1 DEF LifeInv, Cores
<1>8. \A m \in Messages : Got(m) \in disk' => Got(m) \in core'[started'].mem
  BY <1>1, <1>3, <1>4 DEF new
<1>9. MessagesSurviveShutdown'
  <2>1. \A m \in Messages : m \in relay \/ Got(m) \in disk
    <3>1. \A d \in Cores : d <= started => d = started \/ d < started
      BY <1>1 DEF Cores
    <3>2. \A d \in Cores : ~Running(d)
      BY <1>2, <3>1 DEF LifeInv, Running
    <3>3. QED BY <3>2 DEF LifeInv, MessagesSurviveShutdown
  <2>2. QED BY <1>1, <2>1 DEF MessagesSurviveShutdown
<1>10. QED BY <1>5, <1>6, <1>7, <1>8, <1>9 DEF LifeInv

\* No message that was taken off the relays is lost with a core, whatever the
\* jobs, the poller and the shutdown were doing, as long as the shutdown's wait
\* outlasts the poller (lib.rs, wait_for_exit): a drain is applied even when a
\* stop landed, a harvest with a message is saved at once, and the next core
\* starts from that file when the last poller is gone.
THEOREM MessagesAreNotLost == SlowPoller = FALSE => (LifeSpec => []MessagesSurviveShutdown)
<1> SUFFICES ASSUME SlowPoller = FALSE PROVE LifeSpec => []MessagesSurviveShutdown
  OBVIOUS
<1>1. LifeInit => LifeInv
  <2> SUFFICES ASSUME LifeInit PROVE LifeInv
    OBVIOUS
  <2>1. NewCore({}) \in CoreRecords /\ CoreSafe(NewCore({}))
    BY DEF NewCore, CoreRecords, CoreSafe, PollerPcs, JobStates, ShutdownStates
  <2>2. LifeTypes
    BY <2>1, LifecycleAssumption DEF LifeInit, LifeTypes, Cores, Blobs
  <2>3. QED
    BY <2>1, <2>2 DEF LifeInit, LifeInv, MessagesSurviveShutdown, Cores
<1>2. LifeInv /\ [LifeNext]_lifeVars => LifeInv'
  <2> SUFFICES ASSUME LifeInv, [LifeNext]_lifeVars PROVE LifeInv'
    OBVIOUS
  <2>1. ASSUME NEW c \in 1 .. started, PollerStep(c) PROVE LifeInv'
    BY <2>1, LoopKeeps, ExitKeeps DEF PollerStep
  <2>2. ASSUME NEW c \in 1 .. started, DrainTake(c) \/ DrainEnd(c) \/ OutboxEnd(c) PROVE LifeInv'
    BY <2>2, JobsKeep
  <2>3. ASSUME NEW c \in 1 .. started, UserAsks(c) \/ ShutdownCore(c) \/ ShutdownStep(c) PROVE LifeInv'
    BY <2>3, ShutdownKeeps DEF ShutdownStep
  <2>4. CASE Launch
    BY <2>4, LaunchKeeps
  <2>5. CASE UNCHANGED lifeVars
    BY <2>5 DEF lifeVars, LifeInv, LifeTypes, MessagesSurviveShutdown, Running
  <2>6. QED
    BY <2>1, <2>2, <2>3, <2>4, <2>5 DEF LifeNext, LifeDone
<1>3. LifeInv => MessagesSurviveShutdown
  BY DEF LifeInv
<1>4. QED
  BY <1>1, <1>2, <1>3, PTL DEF LifeSpec

-----------------------------------------------------------------------------
(* The watchdog's restarts and guard resets *)

\* The inductive invariant: the restarts since the last healthy cycle keep up
\* with the persisted counter until it reaches the threshold.
WatchInv ==
    /\ WatchTypeOK
    /\ seen \in [restarts : Nat, reset : BOOLEAN, broke : BOOLEAN]
    /\ seen.restarts = unhealthy \/ (unhealthy >= ResetThreshold /\ seen.restarts >= ResetThreshold)
    /\ GuardsAreSticky

\* A clock that is observed stays a clock.
LEMMA AgedIsAClock ==
    ASSUME NEW age \in 0 .. NotDark, NEW bad
    PROVE  Aged(age, bad) \in 0 .. NotDark
BY WatchdogAssumption DEF Aged, NotDark

LEMMA ClocksStayClocks ==
    ASSUME clocks \in [{"publisher", "dial"} -> 0 .. NotDark]
    PROVE  /\ Clear \in [{"publisher", "dial"} -> 0 .. NotDark]
           /\ Observed \in [{"publisher", "dial"} -> 0 .. NotDark]
           /\ Excused \in [{"publisher", "dial"} -> 0 .. NotDark]
<1>1. NotDark \in 0 .. NotDark
  BY WatchdogAssumption DEF NotDark
<1>2. Clear \in [{"publisher", "dial"} -> 0 .. NotDark]
  BY <1>1 DEF Clear
<1>3. Observed \in [{"publisher", "dial"} -> 0 .. NotDark]
  BY AgedIsAClock DEF Observed
<1>4. QED
  BY <1>1, <1>2, <1>3 DEF Excused

LEMMA WatchCycleKeeps ==
    ASSUME WatchInv, WatchCycle
    PROVE  WatchInv'
<1>1. /\ ResetThreshold \in Nat /\ unhealthy \in 0 .. ResetThreshold + 2
      /\ seen \in [restarts : Nat, reset : BOOLEAN, broke : BOOLEAN]
  BY WatchdogAssumption DEF WatchInv, WatchTypeOK
<1>2. clocks' \in [{"publisher", "dial"} -> 0 .. NotDark] /\ fault' = fault
  BY ClocksStayClocks DEF WatchInv, WatchTypeOK, WatchCycle
<1> DEFINE more == IF seen.restarts < ResetThreshold THEN seen.restarts + 1 ELSE seen.restarts
<1>3. \/ unhealthy' = 0 /\ seen' = [seen EXCEPT !.restarts = 0, !.reset = FALSE]
      \/ unhealthy' = unhealthy /\ seen' = seen
      \/ /\ unhealthy' = (IF unhealthy < ResetThreshold + 2 THEN unhealthy + 1 ELSE unhealthy)
         /\ seen' = [seen EXCEPT !.restarts = more]
  BY DEF WatchCycle
<1>4. unhealthy' \in 0 .. ResetThreshold + 2
  BY <1>1, <1>3
<1>5. more \in Nat /\ seen.restarts \in Nat /\ more >= seen.restarts
  BY <1>1
<1>6. /\ seen' \in [restarts : Nat, reset : BOOLEAN, broke : BOOLEAN]
      /\ \/ unhealthy' = 0 /\ seen'.restarts = 0 /\ seen'.reset = FALSE
         \/ unhealthy' = unhealthy /\ seen' = seen
         \/ /\ unhealthy' = (IF unhealthy < ResetThreshold + 2 THEN unhealthy + 1 ELSE unhealthy)
            /\ seen'.restarts = more /\ seen'.reset = seen.reset
  <2> HIDE DEF more
  <2> DEFINE cleared == [seen EXCEPT !.restarts = 0, !.reset = FALSE]
             counted == [seen EXCEPT !.restarts = more]
             R == [restarts : Nat, reset : BOOLEAN, broke : BOOLEAN]
  <2>1. cleared \in R /\ cleared.restarts = 0 /\ cleared.reset = FALSE
    BY <1>1
  <2>2. counted \in R /\ counted.restarts = more /\ counted.reset = seen.reset
    BY <1>1, <1>5
  <2> HIDE DEF cleared, counted, R
  <2>3. seen \in R /\ (seen' = cleared \/ seen' = seen \/ seen' = counted)
    BY <1>1, <1>3 DEF cleared, counted, R
  <2>4. QED BY <1>3, <2>1, <2>2, <2>3 DEF cleared, counted, R
<1>7. /\ seen'.restarts = unhealthy' \/ (unhealthy' >= ResetThreshold /\ seen'.restarts >= ResetThreshold)
      /\ seen'.reset => seen'.restarts >= ResetThreshold
  BY <1>1, <1>5, <1>6 DEF WatchInv, GuardsAreSticky
<1>8. QED
  BY <1>2, <1>4, <1>6, <1>7 DEF WatchInv, WatchTypeOK, GuardsAreSticky

\* The counters and the guards: a guard reset comes only after ResetThreshold
\* restarts without a healthy cycle between them.
LEMMA WatchInvHolds == WatchSpec => []WatchInv
<1>1. WatchInit => WatchInv
  BY WatchdogAssumption, ClocksStayClocks
     DEF WatchInit, WatchInv, WatchTypeOK, GuardsAreSticky, Clear, NotDark
<1>2. WatchInv /\ [WatchNext]_watchVars => WatchInv'
  <2> SUFFICES ASSUME WatchInv, [WatchNext]_watchVars PROVE WatchInv'
    OBVIOUS
  <2>1. CASE WatchCycle
    BY <2>1, WatchCycleKeeps
  <2>2. CASE ServeClient
    BY <2>2 DEF ServeClient, WatchInv, WatchTypeOK, GuardsAreSticky
  <2>3. CASE RelayStart
    <3>1. Clear \in [{"publisher", "dial"} -> 0 .. NotDark]
      BY ClocksStayClocks DEF WatchInv, WatchTypeOK
    <3>2. ResetDue \in BOOLEAN /\ (ResetDue => unhealthy >= ResetThreshold)
      BY DEF ResetDue
    <3>3. seen'.restarts = seen.restarts /\ seen'.reset = (seen.reset \/ ResetDue)
          /\ seen' \in [restarts : Nat, reset : BOOLEAN, broke : BOOLEAN]
      BY <2>3, <3>2 DEF RelayStart, WatchInv
    <3>4. fault' \in WatchFaults \cup {"none"} /\ unhealthy' = unhealthy /\ clocks' = Clear
      BY <2>3 DEF RelayStart, WatchInv, WatchTypeOK
    <3>5. WatchTypeOK'
      BY <3>1, <3>4 DEF WatchInv, WatchTypeOK
    <3>6. seen.restarts \in Nat /\ unhealthy \in Nat /\ ResetThreshold \in Nat
      BY WatchdogAssumption DEF WatchInv, WatchTypeOK
    <3>7. QED
      BY <3>2, <3>3, <3>4, <3>5, <3>6 DEF WatchInv, GuardsAreSticky
  <2>4. CASE Break
    BY <2>4 DEF Break, WatchInv, WatchTypeOK, GuardsAreSticky
  <2>5. CASE Mend
    BY <2>5 DEF Mend, WatchInv, WatchTypeOK, GuardsAreSticky
  <2>6. CASE UNCHANGED watchVars
    BY <2>6 DEF watchVars, WatchInv, WatchTypeOK, GuardsAreSticky
  <2>7. QED
    BY <2>1, <2>2, <2>3, <2>4, <2>5, <2>6 DEF WatchNext
<1>3. QED
  BY <1>1, <1>2, PTL DEF WatchSpec

\* The watchdog resets the entry guards only when plain restarts have failed,
\* and never ends the process while the relay's own Tor client cannot use the
\* network (watchdog.rs, Cycle::verdict and the unhealthy counter).
THEOREM WatchdogIsJustified == WatchSpec => RestartsAreJustified
<1>1. WatchInv => GuardsAreSticky
  BY DEF WatchInv
<1>2. [WatchNext]_watchVars => [fault = "offline" /\ up => up']_watchVars
  <2> SUFFICES ASSUME WatchNext, fault = "offline", up PROVE up'
    OBVIOUS
  <2>1. VerdictOf = "inconclusive"
    BY DEF VerdictOf, DialFails, ClientUnusable
  <2>2. QED
    BY <2>1 DEF WatchNext, WatchCycle, ServeClient, RelayStart, Break, Mend
<1>3. QED
  BY <1>1, <1>2, WatchInvHolds, PTL DEF WatchSpec, RestartsAreJustified, OfflineIsNotRestarted

-----------------------------------------------------------------------------
(* The inbound budget *)

ReaderPcs == {"due", "prefix", "load", "swap", "body", "push", "shut"}
Readers == [pc : ReaderPcs, len : Nat, seen : Nat, frames : Nat]
InbTypes ==
    /\ held \in Nat /\ conn \in [Conns -> Readers] /\ channel \in Seq(Nat)
    /\ open \in Nat /\ gone \in BOOLEAN
Served == {c \in Conns : conn[c].pc \notin {"due", "shut"}}

\* What the budget counts.
Counted == Total(InHand, Lengths) + TotalOf(channel)

\* The inductive invariant of the count and the cap.
InbInv == InbTypes /\ InboundHolds

\* The frames in hand weigh some number, and so do those of the channel.
LEMMA CountedIsANumber ==
    ASSUME InbTypes
    PROVE  /\ IsFiniteSet(Conns) /\ IsFiniteSet(InHand) /\ Weighs(InHand, Lengths)
           /\ Weighs(Conns, Lengths) /\ \A c \in Conns : Lengths[c] = conn[c].len
           /\ Total(InHand, Lengths) \in Nat /\ TotalOf(channel) \in Nat
<1>1. Weighs(Conns, Lengths) /\ \A c \in Conns : Lengths[c] = conn[c].len
  BY DEF InbTypes, Readers, Weighs, Lengths
<1>2. IsFiniteSet(Conns) /\ InHand \in SUBSET Conns
  BY InboundAssumption DEF InHand
<1>3. IsFiniteSet(InHand) /\ Weighs(InHand, Lengths)
  BY <1>1, <1>2, FS_Subset DEF Weighs
<1>4. QED
  BY <1>1, <1>2, <1>3, UnitsAreFinite, SequenceWeighs DEF InbTypes

\* A step that moves neither a frame nor the count.
LEMMA StillCounted ==
    ASSUME InbInv, InbTypes', UNCHANGED <<held, channel>>, gone' = gone,
           InHand' = InHand, \A d \in InHand : conn'[d].len = conn[d].len
    PROVE  InbInv'
<1>1. \A d \in InHand : Lengths'[d] = Lengths[d]
  BY DEF InHand, Lengths
<1>2. Total(InHand', Lengths') = Total(InHand, Lengths)
  BY <1>1, TotalSame
<1>3. QED
  BY <1>2 DEF InbInv, InboundHolds, HeldIsExact, BudgetHolds, InHand

\* A reader's frame comes into its hands: the count grows by its length.
LEMMA ReserveKeeps ==
    ASSUME InbInv, InbTypes', NEW c \in Conns, Reserve(c)
    PROVE  InbInv'
<1>1. CASE ~SwapSucceeds(c)
  <2>1. conn' = [conn EXCEPT ![c].seen = held] /\ UNCHANGED <<held, channel, gone>>
    BY <1>1 DEF Reserve
  <2>2. InHand' = InHand /\ \A d \in InHand : conn'[d].len = conn[d].len
    BY <2>1 DEF InbInv, InbTypes, InHand, Readers
  <2>3. QED BY <2>1, <2>2, StillCounted
<1>2. CASE SwapSucceeds(c)
  <2>1. /\ held \in Nat /\ conn[c].len \in Nat /\ conn[c].seen = held /\ BudgetLimit \in Nat
        /\ conn \in [Conns -> Readers]
    BY <1>2, InboundAssumption DEF SwapSucceeds, InbInv, InbTypes, Readers
  <2>2. /\ conn' = [conn EXCEPT ![c].pc = "body"] /\ held' = held + conn[c].len
        /\ channel' = channel /\ gone' = gone /\ conn[c].pc = "swap"
    BY <1>2, <2>1 DEF Reserve, SetPc
  <2>3. held # 0 => held + conn[c].len <= BudgetLimit
    BY <1>2, <2>1 DEF Reserve, NoRoom
  <2>4. /\ InHand' = InHand \cup {c} /\ c \notin InHand
        /\ \A d \in Conns : Lengths'[d] = Lengths[d] /\ conn'[d].len = conn[d].len
    BY <2>1, <2>2 DEF InHand, Readers, Lengths
  <2>5. CASE ~gone
    <3>1. Total(InHand \cup {c}, Lengths) = Total(InHand, Lengths) + conn[c].len
      <4>1. /\ IsFiniteSet(InHand) /\ Weighs(InHand \cup {c}, Lengths) /\ Lengths[c] = conn[c].len
        BY CountedIsANumber DEF InbInv, Weighs, InHand
      <4>2. Total(InHand \cup {c}, Lengths) = Total(InHand, Lengths) + Lengths[c]
        <5>1. c \notin InHand
          BY <2>4
        <5>2. QED BY <4>1, <5>1, TotalAdd
      <4>3. QED BY <4>1, <4>2
    <3>2. Total(InHand', Lengths') = Total(InHand, Lengths) + conn[c].len
      <4>1. Total(InHand \cup {c}, Lengths') = Total(InHand \cup {c}, Lengths)
        BY <2>4, TotalSame DEF InHand
      <4>2. QED BY <2>4, <3>1, <4>1
    <3>3. held = Total(InHand, Lengths) + TotalOf(channel)
      BY <2>5 DEF InbInv, InboundHolds, HeldIsExact
    <3>4. TotalOf(channel') = TotalOf(channel)
      BY <2>2
    <3>5. Total(InHand, Lengths) \in Nat /\ TotalOf(channel) \in Nat
      BY CountedIsANumber DEF InbInv
    <3>6. held' = Total(InHand', Lengths') + TotalOf(channel')
      BY <2>1, <2>2, <3>2, <3>3, <3>4, <3>5
    <3>7. BudgetHolds'
      <4>1. CASE held # 0
        BY <2>1, <2>2, <2>3, <4>1 DEF BudgetHolds
      <4>2. CASE held = 0
        BY <2>1, <2>2, <2>4, <4>2 DEF BudgetHolds
      <4>3. QED BY <4>1, <4>2
    <3>8. QED BY <3>6, <3>7 DEF InbInv, InboundHolds, HeldIsExact
  <2>6. CASE gone
    BY <2>2, <2>6 DEF InbInv, InboundHolds, HeldIsExact, BudgetHolds
  <2>7. QED BY <2>5, <2>6 DEF InbInv, InbTypes
<1>3. QED BY <1>1, <1>2

\* A reader's frame leaves its hands: what is left, and how a frame that is
\* more than the budget is then alone with it.
LEMMA FrameLeaves ==
    ASSUME InbInv, InbTypes', NEW c \in InHand, InHand' = InHand \ {c},
           \A d \in InHand \ {c} : conn'[d].len = conn[d].len
    PROVE  /\ Total(InHand, Lengths) = Total(InHand', Lengths') + conn[c].len
           /\ Total(InHand', Lengths') \in Nat /\ conn[c].len \in Nat
<1>1. /\ IsFiniteSet(InHand) /\ Weighs(InHand, Lengths) /\ Lengths[c] = conn[c].len
  BY CountedIsANumber DEF InbInv, InHand
<1>2. /\ Total(InHand, Lengths) = Total(InHand \ {c}, Lengths) + Lengths[c]
      /\ Total(InHand \ {c}, Lengths) \in Nat /\ Lengths[c] \in Nat
  BY <1>1, TotalRemove
<1>3. \A d \in InHand \ {c} : Lengths'[d] = Lengths[d]
  BY DEF Lengths, InHand
<1>4. Total(InHand \ {c}, Lengths') = Total(InHand \ {c}, Lengths)
  BY <1>3, TotalSame
<1>5. QED
  BY <1>1, <1>2, <1>4

\* A body that fails gives its bytes back, once.
LEMMA FailBodyKeeps ==
    ASSUME InbInv, InbTypes', NEW c \in Conns, FailBody(c)
    PROVE  InbInv'
<1>1. /\ conn' = [conn EXCEPT ![c].pc = "shut"] /\ channel' = channel /\ gone' = gone
      /\ held' = Released(conn[c].len) /\ conn[c].pc = "body"
  BY DEF FailBody, Shut, SetPc, AfterFailedBody
<1>2. /\ c \in InHand /\ InHand' = InHand \ {c}
      /\ \A d \in Conns : conn'[d].len = conn[d].len
  BY <1>1 DEF InbInv, InbTypes, InHand, Readers
<1>3. /\ Total(InHand, Lengths) = Total(InHand', Lengths') + conn[c].len
      /\ Total(InHand', Lengths') \in Nat /\ conn[c].len \in Nat
  BY <1>2, FrameLeaves DEF InHand
<1>4. TotalOf(channel') = TotalOf(channel) /\ TotalOf(channel) \in Nat /\ held \in Nat /\ BudgetLimit \in Nat
  BY <1>1, CountedIsANumber, InboundAssumption DEF InbInv, InbTypes
<1>5. CASE ~gone
  <2>1. held = Total(InHand, Lengths) + TotalOf(channel)
    BY <1>5 DEF InbInv, InboundHolds, HeldIsExact
  <2>2. held' = held - conn[c].len /\ held' = Total(InHand', Lengths') + TotalOf(channel')
    BY <1>1, <1>3, <1>4, <2>1 DEF Released
  <2>3. ASSUME held' > BudgetLimit PROVE (\E d \in InHand' : held' = conn'[d].len)
                                           \/ \E i \in DOMAIN channel' : held' = channel'[i]
    <3>1. held > BudgetLimit
      BY <1>3, <1>4, <2>2, <2>3
    <3>2. CASE \E i \in DOMAIN channel : held = channel[i]
      <4>1. PICK i \in DOMAIN channel : held = channel[i]
        BY <3>2
      <4>2. channel[i] <= TotalOf(channel) /\ channel[i] \in Nat
        <5>1. IsFiniteSet(DOMAIN channel) /\ Weighs(DOMAIN channel, channel)
          BY SequenceWeighs DEF InbInv, InbTypes
        <5>2. QED BY <5>1, TotalOfOne DEF TotalOf
      <4>3. conn[c].len = 0
        BY <1>3, <1>4, <2>1, <4>1, <4>2
      <4>4. QED BY <1>1, <1>4, <2>2, <4>1, <4>3
    <3>3. CASE \E d \in InHand : held = conn[d].len
      <4>1. PICK d \in InHand : held = conn[d].len
        BY <3>3
      <4>2. d # c
        BY <1>3, <1>4, <2>2, <2>3, <4>1
      <4>3. conn[d].len + conn[c].len <= Total(InHand, Lengths)
        <5>1. IsFiniteSet(InHand) /\ Weighs(InHand, Lengths)
              /\ Lengths[d] = conn[d].len /\ Lengths[c] = conn[c].len
          BY CountedIsANumber DEF InbInv, InHand
        <5>2. Lengths[d] + Lengths[c] <= Total(InHand, Lengths)
          BY <1>2, <4>2, <5>1, TotalOfTwo
        <5>3. QED BY <5>1, <5>2
      <4>4. conn[d].len \in Nat
        BY DEF InbInv, InbTypes, Readers, InHand
      <4>5. Total(InHand, Lengths) \in Nat
        BY CountedIsANumber DEF InbInv
      <4>6. conn[c].len = 0
        <5>1. \A h, t, q, x, y \in Nat : h = t + q /\ h = x /\ x + y <= t => y = 0
          OBVIOUS
        <5>2. TotalOf(channel) \in Nat /\ held \in Nat /\ conn[c].len \in Nat
          BY <1>3, <1>4
        <5>3. QED BY <2>1, <4>1, <4>3, <4>4, <4>5, <5>1, <5>2
      <4>7. held' = conn[d].len /\ d \in InHand' /\ conn'[d].len = conn[d].len
        BY <1>2, <1>4, <2>2, <4>1, <4>2, <4>6 DEF InHand
      <4>8. QED BY <4>7
    <3>4. QED BY <1>5, <3>1, <3>2, <3>3 DEF InbInv, InboundHolds, BudgetHolds
  <2>4. QED BY <2>2, <2>3 DEF InbInv, InboundHolds, HeldIsExact, BudgetHolds
<1>6. CASE gone
  BY <1>1, <1>6 DEF InbInv, InboundHolds, HeldIsExact, BudgetHolds
<1>7. QED BY <1>5, <1>6 DEF InbInv, InbTypes

\* A frame that was read moves from its reader's hands into the channel.
LEMMA PushKeeps ==
    ASSUME InbInv, InbTypes', NEW c \in Conns, NEW releases \in BOOLEAN, Push(c, releases)
    PROVE  InbInv'
<1>1. CASE gone
  BY <1>1 DEF Push, InbInv, InboundHolds, HeldIsExact, BudgetHolds
<1>2. CASE ~gone
  <2>1. /\ conn' = [conn EXCEPT ![c].pc = "prefix"] /\ channel' = Append(channel, conn[c].len)
        /\ held' = held /\ gone' = gone /\ conn[c].pc = "push"
    BY <1>2 DEF Push, SetPc
  <2>2. /\ c \in InHand /\ InHand' = InHand \ {c}
        /\ \A d \in Conns : conn'[d].len = conn[d].len
    BY <2>1 DEF InbInv, InbTypes, InHand, Readers
  <2>3. /\ Total(InHand, Lengths) = Total(InHand', Lengths') + conn[c].len
        /\ Total(InHand', Lengths') \in Nat /\ conn[c].len \in Nat
    BY <2>2, FrameLeaves DEF InHand
  <2>4. channel \in Seq(Nat) /\ TotalOf(channel) \in Nat
    BY CountedIsANumber DEF InbInv, InbTypes
  <2>5. TotalOf(channel') = TotalOf(channel) + conn[c].len
    BY <2>1, <2>3, <2>4, TotalAppend
  <2>6. held = Total(InHand, Lengths) + TotalOf(channel)
    BY <1>2 DEF InbInv, InboundHolds, HeldIsExact
  <2>7. held' = Total(InHand', Lengths') + TotalOf(channel')
    BY <2>1, <2>3, <2>4, <2>5, <2>6
  <2>8. BudgetHolds'
    <3>1. /\ DOMAIN channel \subseteq DOMAIN channel' /\ Len(channel) + 1 \in DOMAIN channel'
          /\ \A i \in DOMAIN channel : channel'[i] = channel[i]
          /\ channel'[Len(channel) + 1] = conn[c].len
      BY <2>1, <2>3, <2>4
    <3>2. ASSUME held > BudgetLimit
          PROVE (\E d \in InHand' : held = conn'[d].len) \/ \E i \in DOMAIN channel' : held = channel'[i]
      <4>1. CASE \E i \in DOMAIN channel : held = channel[i]
        BY <3>1, <4>1
      <4>2. CASE \E d \in InHand : held = conn[d].len
        <5>1. PICK d \in InHand : held = conn[d].len
          BY <4>2
        <5>2. CASE d = c
          BY <3>1, <5>1, <5>2
        <5>3. CASE d # c
          BY <2>2, <5>1, <5>3 DEF InHand
        <5>4. QED BY <5>2, <5>3
      <4>3. QED BY <1>2, <3>2, <4>1, <4>2 DEF InbInv, InboundHolds, BudgetHolds
    <3>3. QED BY <2>1, <3>2 DEF BudgetHolds
  <2>9. QED BY <2>7, <2>8 DEF InbInv, InboundHolds, HeldIsExact
<1>3. QED BY <1>1, <1>2

\* The core takes the oldest frame: the count falls by its length.
LEMMA TryRecvKeeps ==
    ASSUME InbInv, InbTypes', TryRecv
    PROVE  InbInv'
<1> DEFINE n == Head(channel)
<1>1. /\ channel # <<>> /\ channel' = Tail(channel) /\ held' = Released(n) /\ conn' = conn
      /\ ~gone /\ gone' = gone
  BY DEF TryRecv
<1>2. channel \in Seq(Nat) /\ held \in Nat /\ BudgetLimit \in Nat
  BY InboundAssumption DEF InbInv, InbTypes
<1>3. /\ TotalOf(channel) = TotalOf(channel') + n
      /\ TotalOf(channel') \in Nat /\ n \in Nat
  <2>1. /\ TotalOf(channel) = TotalOf(Tail(channel)) + Head(channel)
        /\ TotalOf(Tail(channel)) \in Nat /\ Head(channel) \in Nat
    BY <1>1, <1>2, TotalTail
  <2>2. QED BY <1>1, <2>1
<1>4. /\ 1 \in DOMAIN channel /\ channel[1] = n
      /\ \A i \in DOMAIN channel \ {1} : i - 1 \in DOMAIN channel' /\ channel'[i - 1] = channel[i]
  BY <1>1, <1>2
<1>5. InHand' = InHand /\ Lengths' = Lengths /\ Total(InHand, Lengths) \in Nat
  BY <1>1, CountedIsANumber DEF InHand, Lengths, InbInv
<1> HIDE DEF n
<1>6. held = Total(InHand, Lengths) + TotalOf(channel)
  BY <1>1 DEF InbInv, InboundHolds, HeldIsExact
<1>7. held' = held - n /\ held' = Total(InHand', Lengths') + TotalOf(channel')
  <2>1. held = Total(InHand, Lengths) + TotalOf(channel') + n
    BY <1>3, <1>5, <1>6
  <2>2. held' = held - n
    BY <1>1, <1>2, <1>3, <1>5, <2>1 DEF Released
  <2>3. Total(InHand', Lengths') = Total(InHand, Lengths)
    BY <1>5
  <2>4. QED BY <1>3, <1>5, <2>1, <2>2, <2>3
<1>8. ASSUME held' > BudgetLimit
      PROVE  (\E d \in InHand' : held' = conn'[d].len) \/ \E i \in DOMAIN channel' : held' = channel'[i]
  <2>1. held > BudgetLimit
    BY <1>2, <1>3, <1>7, <1>8
  <2>2. CASE \E d \in InHand : held = conn[d].len
    <3>1. PICK d \in InHand : held = conn[d].len
      BY <2>2
    <3>2. held <= Total(InHand, Lengths)
      <4>1. IsFiniteSet(InHand) /\ Weighs(InHand, Lengths) /\ Lengths[d] = conn[d].len
        BY CountedIsANumber DEF InbInv, InHand
      <4>2. QED BY <3>1, <4>1, TotalOfOne
    <3>3. TotalOf(channel) = 0
      BY <1>2, <1>3, <1>5, <1>6, <3>2
    <3>4. n = 0
      BY <1>3, <3>3
    <3>5. QED BY <1>1, <1>2, <1>5, <1>7, <3>1, <3>4
  <2>3. CASE \E i \in DOMAIN channel : held = channel[i]
    <3>1. PICK i \in DOMAIN channel : held = channel[i]
      BY <2>3
    <3>2. i # 1
      BY <1>2, <1>3, <1>4, <1>7, <1>8, <3>1
    <3>3. channel[i] + channel[1] <= TotalOf(channel)
      <4>1. IsFiniteSet(DOMAIN channel) /\ Weighs(DOMAIN channel, channel)
        BY <1>2, SequenceWeighs
      <4>2. \A x, y \in DOMAIN channel : x # y => channel[x] + channel[y] <= Total(DOMAIN channel, channel)
        BY <4>1, TotalOfTwo
      <4>3. QED BY <1>4, <3>2, <4>2 DEF TotalOf
    <3>4. n = 0
      <4>1. \A h, t, q, y \in Nat : h = t + q /\ h + y <= q => y = 0
        OBVIOUS
      <4>2. TotalOf(channel) \in Nat
        BY <1>3
      <4>3. held + n <= TotalOf(channel)
        BY <1>4, <3>1, <3>3
      <4>4. QED BY <1>2, <1>3, <1>5, <1>6, <4>1, <4>2, <4>3
    <3>5. QED BY <1>2, <1>4, <1>7, <3>1, <3>2, <3>4
  <2>4. QED BY <1>1, <2>1, <2>2, <2>3 DEF InbInv, InboundHolds, BudgetHolds
<1>9. QED
  BY <1>7, <1>8 DEF InbInv, InboundHolds, HeldIsExact, BudgetHolds

\* The count of the listener, within its cap.
ServedInv == InbTypes /\ open = Cardinality(Served) /\ open <= MaxConns

LEMMA ServedIsANumber ==
    ASSUME InbTypes
    PROVE  /\ IsFiniteSet(Served) /\ Cardinality(Served) \in Nat
           /\ \A c \in Served : Cardinality(Served) # 0
<1>1. IsFiniteSet(Served)
  <2>1. Served \in SUBSET Conns /\ IsFiniteSet(Conns)
    BY InboundAssumption DEF Served
  <2>2. QED BY <2>1, FS_Subset
<1>2. QED
  BY <1>1, FS_CardinalityType, FS_EmptySet

\* A step within a connection that stays served.
LEMMA StillServed ==
    ASSUME ServedInv, NEW c \in Conns, NEW r \in Readers, conn' = [conn EXCEPT ![c] = r],
           conn[c].pc \notin {"due", "shut"} <=> r.pc \notin {"due", "shut"},
           held' \in Nat, channel' \in Seq(Nat), gone' \in BOOLEAN, open' = open
    PROVE  ServedInv'
<1>1. Served' = Served
  BY DEF ServedInv, InbTypes, Served
<1>2. InbTypes'
  BY DEF ServedInv, InbTypes
<1>3. QED
  BY <1>1, <1>2 DEF ServedInv

\* A connection ends and is uncounted.
LEMMA ShutServed ==
    ASSUME ServedInv, NEW c \in Served, Shut(c),
           held' \in Nat, channel' \in Seq(Nat), gone' \in BOOLEAN
    PROVE  ServedInv'
<1>1. conn' = [conn EXCEPT ![c].pc = "shut"] /\ open' = open - 1 /\ c \in Conns
  BY DEF Shut, SetPc, Served
<1>2. Served' = Served \ {c} /\ conn' \in [Conns -> Readers]
  BY <1>1 DEF ServedInv, InbTypes, Served, Readers, ReaderPcs
<1>3. IsFiniteSet(Served) /\ Cardinality(Served) \in Nat /\ Cardinality(Served) # 0
  BY ServedIsANumber DEF ServedInv
<1>4. Cardinality(Served \ {c}) = Cardinality(Served) - 1
  BY <1>3, FS_RemoveElement
<1>5. open = Cardinality(Served) /\ open <= MaxConns /\ open \in Nat /\ MaxConns \in Nat
  BY InboundAssumption DEF ServedInv, InbTypes
<1>6. open' \in Nat /\ open' <= MaxConns /\ open' = Cardinality(Served')
  BY <1>1, <1>2, <1>3, <1>4, <1>5
<1>7. QED
  BY <1>2, <1>6 DEF ServedInv, InbTypes

ReaderStep(c) ==
    \/ Accept(c) \/ BadPrefix(c) \/ Load(c) \/ Reserve(c) \/ WaitForRoom(c)
    \/ GiveUpWaiting(c) \/ ReadBody(c) \/ FailBody(c)
    \/ \E len \in Sizes : Prefix(c, len)
    \/ \E releases \in BOOLEAN : Push(c, releases)

\* Every way a reader changes keeps the listener's count.
LEMMA ReaderKeepsServed ==
    ASSUME ServedInv, NEW c \in Conns, ReaderStep(c)
    PROVE  ServedInv'
<1>1. /\ conn[c] \in Readers /\ conn \in [Conns -> Readers] /\ held \in Nat /\ channel \in Seq(Nat)
      /\ gone \in BOOLEAN /\ open \in Nat /\ MaxConns \in Nat
      /\ open = Cardinality(Served) /\ open <= MaxConns
  BY InboundAssumption DEF ServedInv, InbTypes
<1>2. \A n \in Nat : Released(n) \in Nat
  BY <1>1 DEF Released
<1>3. ASSUME conn[c].pc \in {"prefix", "swap", "body", "push"}, Shut(c),
             held' \in Nat, channel' \in Seq(Nat), gone' \in BOOLEAN
      PROVE  ServedInv'
  BY <1>3, ShutServed DEF Served
<1>4. CASE Accept(c)
  <2>1. CASE open >= MaxConns
    <3> DEFINE r == [conn[c] EXCEPT !.pc = "shut"]
    <3>1. conn' = [conn EXCEPT ![c] = r] /\ conn[c].pc = "due"
          /\ open' = open /\ held' = held /\ channel' = channel /\ gone' = gone
      BY <1>4, <2>1 DEF Accept, SetPc
    <3>2. r \in Readers /\ r.pc = "shut"
      BY <1>1 DEF Readers, ReaderPcs
    <3> HIDE DEF r
    <3>3. QED BY <1>1, <3>1, <3>2, StillServed
  <2>2. CASE ~(open >= MaxConns)
    <3>1. conn' = [conn EXCEPT ![c].pc = "prefix"] /\ open' = open + 1 /\ conn[c].pc = "due"
          /\ held' = held /\ channel' = channel /\ gone' = gone
      BY <1>4, <2>2 DEF Accept, SetPc
    <3>2. Served' = Served \cup {c} /\ c \notin Served /\ conn' \in [Conns -> Readers]
      <4>1. PICK r \in Readers : r = [conn[c] EXCEPT !.pc = "prefix"]
        BY <1>1 DEF Readers, ReaderPcs
      <4>2. r.pc = "prefix" /\ conn' = [conn EXCEPT ![c] = r]
        BY <1>1, <3>1, <4>1 DEF Readers
      <4>3. QED BY <1>1, <3>1, <4>2 DEF Served
    <3>3. Cardinality(Served \cup {c}) = Cardinality(Served) + 1
      BY <3>2, ServedIsANumber, FS_AddElement DEF ServedInv
    <3>4. open' \in Nat /\ open' <= MaxConns /\ open' = Cardinality(Served')
      BY <1>1, <2>2, <3>1, <3>2, <3>3
    <3>5. QED BY <1>1, <3>1, <3>2, <3>4 DEF ServedInv, InbTypes
  <2>3. QED BY <2>1, <2>2
<1>5. CASE BadPrefix(c)
  BY <1>1, <1>3, <1>5 DEF BadPrefix
<1>6. CASE Load(c)
  <2> DEFINE r == [conn[c] EXCEPT !.pc = "swap", !.seen = held]
  <2>1. r \in Readers /\ r.pc = "swap" /\ conn' = [conn EXCEPT ![c] = r] /\ conn[c].pc = "load"
        /\ open' = open /\ held' = held /\ channel' = channel /\ gone' = gone
    BY <1>1, <1>6 DEF Load, Readers, ReaderPcs
  <2> HIDE DEF r
  <2>2. QED BY <1>1, <2>1, StillServed
<1>7. CASE Reserve(c)
  <2> DEFINE r == [conn[c] EXCEPT !.pc = "body"]
             s == [conn[c] EXCEPT !.seen = held]
  <2>1. r \in Readers /\ r.pc = "body" /\ s \in Readers /\ s.pc = conn[c].pc
    BY <1>1 DEF Readers, ReaderPcs
  <2>2. conn[c].pc = "swap" /\ open' = open /\ channel' = channel /\ gone' = gone
    BY <1>7 DEF Reserve
  <2>3. conn[c].seen + conn[c].len \in Nat
    BY <1>1 DEF Readers
  <2>4. held' \in Nat /\ (conn' = [conn EXCEPT ![c] = r] \/ conn' = [conn EXCEPT ![c] = s])
    BY <1>1, <1>7, <2>3 DEF Reserve, SetPc
  <2> HIDE DEF r, s
  <2>5. QED BY <1>1, <2>1, <2>2, <2>4, StillServed
<1>8. CASE WaitForRoom(c)
  <2> DEFINE r == [conn[c] EXCEPT !.pc = "load"]
  <2>1. r \in Readers /\ r.pc = "load" /\ conn' = [conn EXCEPT ![c] = r] /\ conn[c].pc = "swap"
        /\ open' = open /\ held' = held /\ channel' = channel /\ gone' = gone
    BY <1>1, <1>8 DEF WaitForRoom, SetPc, Readers, ReaderPcs
  <2> HIDE DEF r
  <2>2. QED BY <1>1, <2>1, StillServed
<1>9. CASE GiveUpWaiting(c)
  BY <1>1, <1>3, <1>9 DEF GiveUpWaiting
<1>10. CASE ReadBody(c)
  <2> DEFINE r == [conn[c] EXCEPT !.pc = "push"]
  <2>1. r \in Readers /\ r.pc = "push" /\ conn' = [conn EXCEPT ![c] = r] /\ conn[c].pc = "body"
        /\ open' = open /\ held' = held /\ channel' = channel /\ gone' = gone
    BY <1>1, <1>10 DEF ReadBody, SetPc, Readers, ReaderPcs
  <2> HIDE DEF r
  <2>2. QED BY <1>1, <2>1, StillServed
<1>11. CASE FailBody(c)
  <2>1. conn[c].len \in Nat
    BY <1>1 DEF Readers
  <2>2. QED BY <1>1, <1>2, <1>3, <1>11, <2>1 DEF FailBody, AfterFailedBody
<1>12. CASE \E len \in Sizes : Prefix(c, len)
  <2>1. PICK len \in Sizes : Prefix(c, len)
    BY <1>12
  <2> DEFINE r == [conn[c] EXCEPT !.pc = "load", !.len = len, !.frames = @ + 1]
  <2>2. r \in Readers /\ r.pc = "load" /\ conn' = [conn EXCEPT ![c] = r] /\ conn[c].pc = "prefix"
        /\ open' = open /\ held' = held /\ channel' = channel /\ gone' = gone
    BY <1>1, <2>1, InboundAssumption DEF Prefix, Readers, ReaderPcs
  <2> HIDE DEF r
  <2>3. QED BY <1>1, <2>2, StillServed
<1>13. CASE \E releases \in BOOLEAN : Push(c, releases)
  <2>1. PICK releases \in BOOLEAN : Push(c, releases)
    BY <1>13
  <2>2. conn[c].pc = "push" /\ conn[c].len \in Nat /\ gone' = gone
    BY <1>1, <2>1 DEF Push, Readers
  <2>3. CASE gone
    <3>1. held' \in Nat /\ Shut(c) /\ channel' = channel
      BY <1>1, <1>2, <2>1, <2>2, <2>3 DEF Push
    <3>2. QED BY <1>1, <1>3, <2>2, <3>1
  <2>4. CASE ~gone
    <3> DEFINE r == [conn[c] EXCEPT !.pc = "prefix"]
    <3>1. r \in Readers /\ r.pc = "prefix" /\ conn' = [conn EXCEPT ![c] = r]
          /\ open' = open /\ held' = held /\ channel' = Append(channel, conn[c].len)
      BY <1>1, <2>1, <2>4 DEF Push, SetPc, Readers, ReaderPcs
    <3>2. channel' \in Seq(Nat)
      BY <1>1, <2>2, <3>1
    <3> HIDE DEF r
    <3>3. QED BY <1>1, <2>2, <3>1, <3>2, StillServed
  <2>5. QED BY <2>3, <2>4
<1>14. QED
  BY <1>4, <1>5, <1>6, <1>7, <1>8, <1>9, <1>10, <1>11, <1>12, <1>13 DEF ReaderStep

LEMMA InbStartsTyped ==
    ASSUME InbInit
    PROVE  InbTypes /\ InHand = {} /\ Served = {} /\ channel = <<>> /\ held = 0 /\ open = 0
<1> DEFINE r == [pc |-> "due", len |-> 0, seen |-> 0, frames |-> 0]
<1>1. r \in Readers /\ r.pc = "due"
  BY DEF Readers, ReaderPcs
<1>2. conn = [c \in Conns |-> r] /\ channel = <<>> /\ held = 0 /\ open = 0 /\ gone = FALSE
  BY DEF InbInit
<1> HIDE DEF r
<1>3. conn \in [Conns -> Readers] /\ \A c \in Conns : conn[c].pc = "due"
  BY <1>1, <1>2
<1>4. channel \in Seq(Nat)
  BY <1>2
<1>5. InHand = {} /\ Served = {}
  BY <1>3 DEF InHand, Served
<1>6. QED
  BY <1>2, <1>3, <1>4, <1>5 DEF InbTypes

LEMMA ServedInvHolds == InbSpec => []ServedInv
<1>1. InbInit => ServedInv
  <2> SUFFICES ASSUME InbInit PROVE ServedInv
    OBVIOUS
  <2>1. Cardinality(Served) = 0
    BY InbStartsTyped, FS_EmptySet
  <2>2. QED
    BY <2>1, InbStartsTyped, InboundAssumption DEF ServedInv
<1>2. ServedInv /\ [InbNext]_inbVars => ServedInv'
  <2> SUFFICES ASSUME ServedInv, [InbNext]_inbVars PROVE ServedInv'
    OBVIOUS
  <2>1. ASSUME NEW c \in Conns, ReaderStep(c) PROVE ServedInv'
    BY <2>1, ReaderKeepsServed
  <2>2. CASE TryRecv
    <3>1. channel \in Seq(Nat) /\ channel # <<>> /\ held \in Nat
      BY <2>2 DEF TryRecv, ServedInv, InbTypes
    <3>2. Head(channel) \in Nat /\ Tail(channel) \in Seq(Nat)
      BY <3>1
    <3>3. Released(Head(channel)) \in Nat
      BY <3>1, <3>2 DEF Released
    <3>4. QED
      BY <2>2, <3>2, <3>3 DEF TryRecv, ServedInv, InbTypes, Served
  <2>3. CASE DropTransport
    BY <2>3 DEF DropTransport, ServedInv, InbTypes, Served
  <2>4. CASE UNCHANGED inbVars
    BY <2>4 DEF inbVars, ServedInv, InbTypes, Served
  <2>5. QED
    BY <2>1, <2>2, <2>3, <2>4 DEF InbNext, ReaderStep
<1>3. QED
  BY <1>1, <1>2, PTL DEF InbSpec

\* The listener counts the connections it serves, and serves no more than its
\* cap, however they end (nearby.rs, serve and MAX_CONNECTIONS).
THEOREM ListenerCountsTheServed == InbSpec => []InbTypeOK
<1>1. ServedInv => InbTypeOK
  BY InboundAssumption DEF ServedInv, InbTypes, InbTypeOK, Served
<1>2. QED
  BY <1>1, ServedInvHolds, PTL

\* The budget counts exactly the bytes held, through every failure path and
\* every interleaving of the readers' swaps, and more than the limit is held
\* only as the bytes of a single frame (inbound.rs, try_reserve and release).
THEOREM BudgetIsKept == InbSpec => []InboundHolds
<1>1. InbInit => InbInv
  <2> SUFFICES ASSUME InbInit PROVE InbInv
    OBVIOUS
  <2>1. InHand = {} /\ channel = <<>> /\ DOMAIN channel = {} /\ held = 0
    BY InbStartsTyped
  <2>2. Total(InHand, Lengths) = 0 /\ TotalOf(channel) = 0
    BY <2>1, TotalEmpty DEF TotalOf
  <2>3. HeldIsExact /\ BudgetHolds
    BY <2>1, <2>2, InboundAssumption DEF HeldIsExact, BudgetHolds
  <2>4. QED
    BY <2>3, InbStartsTyped DEF InbInv, InboundHolds
<1>2. ServedInv /\ ServedInv' /\ InbInv /\ [InbNext]_inbVars => InbInv'
  <2> SUFFICES ASSUME InbInv, InbTypes', [InbNext]_inbVars PROVE InbInv'
    BY DEF ServedInv
  <2>1. ASSUME NEW c \in Conns,
               \/ Accept(c) \/ BadPrefix(c) \/ Load(c) \/ WaitForRoom(c) \/ GiveUpWaiting(c)
               \/ ReadBody(c) \/ \E len \in Sizes : Prefix(c, len)
        PROVE  InbInv'
    <3>1. UNCHANGED <<held, channel>> /\ gone' = gone
      BY <2>1 DEF Accept, BadPrefix, Load, WaitForRoom, GiveUpWaiting, ReadBody, Prefix
    <3>2. conn \in [Conns -> Readers]
      BY DEF InbInv, InbTypes
    <3>3. ASSUME NEW r, conn' = [conn EXCEPT ![c] = r], r.len = conn[c].len \/ c \notin InHand,
                 r.pc \in {"body", "push"} <=> conn[c].pc \in {"body", "push"}
          PROVE  InbInv'
      <4>1. InHand' = InHand /\ \A d \in InHand : conn'[d].len = conn[d].len
        BY <3>2, <3>3 DEF InHand
      <4>2. QED BY <3>1, <4>1, StillCounted
    <3>4. ASSUME NEW pc, SetPc(c, pc), pc \in {"body", "push"} <=> conn[c].pc \in {"body", "push"}
          PROVE  InbInv'
      <4> DEFINE r == [conn[c] EXCEPT !.pc = pc]
      <4>1. conn' = [conn EXCEPT ![c] = r] /\ r.pc = pc /\ r.len = conn[c].len
        BY <3>2, <3>4 DEF SetPc, Readers
      <4> HIDE DEF r
      <4>2. QED BY <3>3, <3>4, <4>1
    <3>5. CASE Load(c)
      <4> DEFINE r == [conn[c] EXCEPT !.pc = "swap", !.seen = held]
      <4>1. conn' = [conn EXCEPT ![c] = r] /\ r.pc = "swap" /\ r.len = conn[c].len /\ conn[c].pc = "load"
        BY <3>2, <3>5 DEF Load, Readers
      <4> HIDE DEF r
      <4>2. QED BY <3>3, <4>1
    <3>6. CASE \E len \in Sizes : Prefix(c, len)
      <4>1. PICK len \in Sizes : Prefix(c, len)
        BY <3>6
      <4> DEFINE r == [conn[c] EXCEPT !.pc = "load", !.len = len, !.frames = @ + 1]
      <4>2. conn' = [conn EXCEPT ![c] = r] /\ r.pc = "load" /\ conn[c].pc = "prefix"
        BY <3>2, <4>1 DEF Prefix, Readers
      <4> HIDE DEF r
      <4>3. QED BY <3>3, <4>2 DEF InHand
    <3>7. QED
      BY <2>1, <3>4, <3>5, <3>6 DEF Accept, BadPrefix, WaitForRoom, GiveUpWaiting, ReadBody, Shut
  <2>2. ASSUME NEW c \in Conns, Reserve(c) PROVE InbInv'
    BY <2>2, ReserveKeeps
  <2>3. ASSUME NEW c \in Conns, FailBody(c) PROVE InbInv'
    BY <2>3, FailBodyKeeps
  <2>4. ASSUME NEW c \in Conns, NEW releases \in BOOLEAN, Push(c, releases) PROVE InbInv'
    BY <2>4, PushKeeps
  <2>5. CASE TryRecv
    BY <2>5, TryRecvKeeps
  <2>6. CASE DropTransport
    BY <2>6 DEF DropTransport, InbInv, InboundHolds, HeldIsExact, BudgetHolds
  <2>7. CASE UNCHANGED inbVars
    <3>1. InHand' = InHand /\ \A d \in InHand : conn'[d].len = conn[d].len
      BY <2>7 DEF inbVars, InHand
    <3>2. QED BY <2>7, <3>1, StillCounted DEF inbVars
  <2>8. QED
    BY <2>1, <2>2, <2>3, <2>4, <2>5, <2>6, <2>7 DEF InbNext
<1>3. InbInv => InboundHolds
  BY DEF InbInv
<1>4. QED
  BY <1>1, <1>2, <1>3, ServedInvHolds, PTL DEF InbSpec

-----------------------------------------------------------------------------
(* Retention.                                                              *)

\* The types: messages, the lines of settings, the allowance, chats, frames, and what the
\* users have left to do.
Entries == [id : Texts, at : Nat, mine : BOOLEAN, burn : Nat, viewed : Nat,
            delivery : {"", "sent", "queued", "expired"}, expired : BOOLEAN]
Timers == [changed : Nat, value : Nat]
Switches == [changed : Nat, value : BOOLEAN]
Allowances == [start : Nat, messages : Nat, noticed : BOOLEAN]
Histories == SUBSET Entries
ChatsOf == [up : BOOLEAN, pumped : BOOLEAN, timer : Nat, storage : BOOLEAN, timerLine : Seq(Timers),
            storageLine : Seq(Switches), history : Histories, receipts : BOOLEAN, allowance : Allowances]
Frames ==
    [kind : {"text"}, to : Devices, id : Texts, burn : Nat]
        \cup [kind : {"timer"}, to : Devices, secs : Nat, nth : Nat]
        \cup [kind : {"storage"}, to : Devices, on : BOOLEAN, nth : Nat]
        \cup [kind : {"viewed"}, to : Devices, id : Texts]
Purses == [texts : SUBSET Texts, burns : SUBSET Nat, timers : SUBSET Nat, switches : SUBSET BOOLEAN,
           changes : Nat, reboots : Nat, senders : SUBSET Devices, changers : SUBSET Devices,
           losses : BOOLEAN, receipts : BOOLEAN]
Taps == Devices \X Texts \X Nat
TapSets == SUBSET Taps
Showings == [Texts -> Nat]
Keeps == SUBSET (Texts \X Nat)
Ticks == 0 .. MaxClock
TickSets == SUBSET Ticks
Arrivals == [Ticks -> Nat]

\* The types of the state.
RetTypes ==
    /\ clock \in Ticks /\ chat \in [Devices -> ChatsOf] /\ air \subseteq Frames
    /\ taps \in TapSets
    /\ shown \in [Devices -> Showings] /\ kept \in [Devices -> Keeps]
    /\ arrived \in [Devices -> Arrivals] /\ spent \in Purses

\* A chat c of device d, of which s was shown and the taps p are under way, at time now:
\* each message once; and a burn message that was shown has a tap under way or counts
\* from that time, and is gone after a pump past its time.
Watched(d, c, s, p, now) ==
    /\ \A m, n \in c.history : m.id = n.id => m = n
    /\ \A id \in Texts : s[id] # Never => s[id] <= now
    /\ \A m \in c.history :
          /\ m.at <= now /\ (m.mine => s[m.id] = Never) /\ (m.viewed # Never => m.viewed = s[m.id])
          /\ m.burn > 0 /\ m.viewed = Never /\ s[m.id] # Never => \E t \in p : t[1] = d /\ t[2] = m.id
          /\ c.up /\ c.pumped /\ m.burn > 0 /\ m.viewed # Never => now < m.viewed + m.burn
    /\ \A t \in p : t[1] = d =>
          /\ t[3] <= now /\ s[t[2]] # Never
          /\ \A m \in c.history : m.id = t[2] /\ m.burn > 0 /\ m.viewed = Never => t[3] = s[t[2]]

\* The lines record the settings in force.
Lined(c, now) ==
    /\ IF c.timerLine = <<>> THEN c.timer = 0 ELSE c.timerLine[Len(c.timerLine)].value = c.timer
    /\ IF c.storageLine = <<>> THEN c.storage = FALSE ELSE c.storageLine[Len(c.storageLine)].value = c.storage
    /\ \A i \in DOMAIN c.timerLine : c.timerLine[i].changed <= now
    /\ \A i \in DOMAIN c.storageLine : c.storageLine[i].changed <= now

\* What was kept with every timer off is there, under a line that still says so.
Stays(c, k) ==
    \/ SwitchedAt(c, k[2])
    \/ /\ TimerAt(c.timerLine, k[2]) = 0 /\ StorageOnAt(c.storageLine, k[2]) = FALSE
       /\ \E m \in c.history : m.id = k[1] /\ m.at = k[2] /\ m.burn = 0

\* The allowance counts what arrived since its window began, all of it before the window
\* ends, and no window's length that reaches into it had more than a day's before it.
Span(from, to) == {u \in Ticks : from <= u /\ u < to}
Since(from) == {u \in Ticks : from <= u}
Allowed(al, arr, now) ==
    /\ al.start <= now /\ al.messages <= MaxPerDay
    /\ \A u \in Ticks : u > now \/ u >= al.start + RelayKeeps => arr[u] = 0
    /\ Total(Since(al.start), arr) <= al.messages
    /\ \A t \in Ticks :
          /\ Total(Span(t, t + RelayKeeps), arr) <= 2 * MaxPerDay
          /\ t + RelayKeeps > al.start => Total(Span(t, al.start), arr) <= MaxPerDay

\* What holds of one device.
DeviceOK(d, c, s, p, ks, arr, now) ==
    Watched(d, c, s, p, now) /\ Lined(c, now) /\ (\A k \in ks : Stays(c, k)) /\ Allowed(c.allowance, arr, now)

\* A text is sent once and reaches a device once.
Unread(d, id) == shown[d][id] = Never /\ \A m \in chat[d].history : m.id # id
OnceSent ==
    /\ \A id \in spent.texts : \A d \in Devices : Unread(d, id)
    /\ \A f \in air : f.kind = "text" =>
          /\ f.id \notin spent.texts /\ Unread(f.to, f.id)
          /\ \A g \in air : g.kind = "text" /\ g.id = f.id => g = f

\* The inductive invariant.
RetInv ==
    /\ RetTypes /\ OnceSent
    /\ \A d \in Devices : DeviceOK(d, chat[d], shown[d], taps, kept[d], arrived[d], clock)
-----------------------------------------------------------------------------
(* The timelines.                                                          *)

\* A set of positions in a line has a last one.
LEMMA LatestExists ==
    ASSUME NEW n \in Nat, NEW S \in SUBSET (1 .. n), S # {}
    PROVE  \E i \in S : \A j \in S : j <= i
<1> DEFINE T == {n - i : i \in S}
<1>1. T # {} /\ T \subseteq Nat
  <2>1. \A i \in S : i \in Nat /\ n - i \in Nat
    OBVIOUS
  <2>2. QED BY <2>1
<1>2. PICK m \in T : \A k \in T : ~ (<<k, m>> \in OpToRel(<, Nat))
  <2> HIDE DEF T
  <2>1. QED BY <1>1, NatLessThanWellFounded, WFMin
<1>3. PICK i \in S : m = n - i
  OBVIOUS
<1>4. ASSUME NEW j \in S PROVE j <= i
  <2>1. n - j \in T /\ n - j \in Nat /\ m \in Nat
    BY <1>1
  <2>2. ~ (n - j < m)
    BY <1>2, <2>1 DEF OpToRel
  <2>3. QED BY <1>3, <2>2
<1>5. QED BY <1>4

\* A change recorded later does not change the past.
LEMMA PastIsKept ==
    ASSUME NEW T, NEW line \in Seq(T), NEW x \in T, NEW at \in Nat, NEW default,
           \A y \in T : y.changed \in Nat, x.changed > at
    PROVE  LastChange(Append(line, x), at, default) = LastChange(line, at, default)
<1> DEFINE long == Append(line, x)
           past(l) == {i \in DOMAIN l : l[i].changed <= at}
<1>1. /\ DOMAIN line = 1 .. Len(line) /\ DOMAIN long = 1 .. (Len(line) + 1) /\ Len(line) \in Nat
      /\ \A i \in 1 .. Len(line) : long[i] = line[i]
      /\ long[Len(line) + 1] = x
  OBVIOUS
<1>2. past(long) = past(line)
  BY <1>1
<1>3. CASE past(line) = {}
  BY <1>2, <1>3 DEF LastChange
<1>4. CASE past(line) # {}
  <2> DEFINE last == CHOOSE i \in past(line) : \A j \in past(line) : j <= i
  <2>1. past(line) \in SUBSET (1 .. Len(line))
    BY <1>1
  <2>2. \E i \in past(line) : \A j \in past(line) : j <= i
    BY <1>1, <1>4, <2>1, LatestExists
  <2>3. last \in past(line)
    BY <2>2
  <2>4. long[last] = line[last]
    BY <1>1, <2>1, <2>3
  <2>5. LastChange(long, at, default) = long[last].value
    BY <1>2, <1>4 DEF LastChange
  <2>6. LastChange(line, at, default) = line[last].value
    BY <1>4 DEF LastChange
  <2>7. QED BY <2>4, <2>5, <2>6
<1>5. QED BY <1>3, <1>4

\* At the time of the last change, or later, the last value is in force.
LEMMA NowInForce ==
    ASSUME NEW T, NEW line \in Seq(T), NEW at \in Nat, NEW default,
           \A i \in DOMAIN line : line[i].changed <= at
    PROVE  LastChange(line, at, default) = IF line = <<>> THEN default ELSE line[Len(line)].value
<1> DEFINE past == {i \in DOMAIN line : line[i].changed <= at}
<1>1. DOMAIN line = 1 .. Len(line) /\ Len(line) \in Nat /\ past = 1 .. Len(line)
  OBVIOUS
<1>2. CASE line = <<>>
  <2>1. past = {}
    BY <1>1, <1>2
  <2>2. QED BY <1>2, <2>1 DEF LastChange
<1>3. CASE line # <<>>
  <2>1. Len(line) > 0
    BY <1>3
  <2> DEFINE last == CHOOSE i \in past : \A j \in past : j <= i
  <2>2. Len(line) \in past /\ \A j \in past : j <= Len(line)
    BY <1>1, <2>1
  <2>3. last \in past /\ Len(line) <= last
    BY <2>2
  <2>4. last = Len(line)
    BY <1>1, <2>3
  <2>5. LastChange(line, at, default) = line[last].value
    BY <2>2 DEF LastChange
  <2>6. QED BY <1>3, <2>4, <2>5
<1>4. QED BY <1>2, <1>3
-----------------------------------------------------------------------------
(* What is watched: the history of a chat.                                 *)

USE DEF Histories, TapSets, Showings, Ticks

\* A sweep's entry x comes from the entry m, as it was or as a marker.
Descends(x, m) ==
    /\ x.id = m.id /\ x.at = m.at /\ x.mine = m.mine
    /\ (x.burn = m.burn /\ x.viewed = m.viewed) \/ (x.burn = 0 /\ x.viewed = Never)

\* A history holds each message once.
OneEntry(h) == \A m, n \in h : m.id = n.id => m = n

\* The burn sweep leaves no burn message past its time, only entries that were there or
\* markers of them, and every message that does not burn.
LEMMA BurnsSwept ==
    ASSUME NEW h \in Histories, NEW now \in Nat, OneEntry(h)
    PROVE  /\ SweepBurns(h, now) \in Histories /\ OneEntry(SweepBurns(h, now))
           /\ \A x \in SweepBurns(h, now) : ~BurnDone(x, now) /\ \E m \in h : Descends(x, m)
           /\ \A m \in h : m.burn = 0 => m \in SweepBurns(h, now)
<1> DEFINE aged(m) == IF Unopened(m, now) THEN Tombstone(m) ELSE m
<1>1. ASSUME NEW m \in h PROVE aged(m) \in Entries /\ Descends(aged(m), m)
  <2>1. m \in Entries /\ Never \in Nat
    BY RetentionAssumption DEF Never
  <2>2. Tombstone(m) \in Entries /\ Descends(Tombstone(m), m)
    BY <2>1 DEF Tombstone, Entries, Descends
  <2>3. Descends(m, m)
    BY DEF Descends
  <2>4. QED BY <2>1, <2>2, <2>3
<1>2. \A x \in SweepBurns(h, now) : ~BurnDone(x, now) /\ \E m \in h : x = aged(m)
  BY DEF SweepBurns
<1>3. ASSUME NEW m \in h, m.burn = 0 PROVE m \in SweepBurns(h, now)
  <2>1. ~Unopened(m, now) /\ ~BurnDone(m, now)
    BY <1>3 DEF Unopened, BurnDone
  <2>2. QED BY <2>1 DEF SweepBurns
<1>4. OneEntry(SweepBurns(h, now))
  <2> SUFFICES ASSUME NEW x \in SweepBurns(h, now), NEW y \in SweepBurns(h, now), x.id = y.id
               PROVE  x = y
    BY DEF OneEntry
  <2> HIDE DEF aged
  <2>1. PICK m \in h : x = aged(m)
    BY <1>2
  <2>2. PICK n \in h : y = aged(n)
    BY <1>2
  <2>3. m.id = n.id
    BY <1>1, <2>1, <2>2 DEF Descends
  <2>4. QED BY <2>1, <2>2, <2>3 DEF OneEntry
<1>5. QED
  <2> HIDE DEF aged
  <2>1. \A x \in SweepBurns(h, now) : x \in Entries /\ \E m \in h : Descends(x, m)
    BY <1>1, <1>2
  <2>2. QED BY <1>2, <1>3, <1>4, <2>1

\* So does the time sweep, but for messages sent under a timer or under server storage.
LEMMA TimeSwept ==
    ASSUME NEW c \in ChatsOf, NEW now \in Nat, OneEntry(c.history)
    PROVE  /\ SweepTime(c, now) \in Histories /\ OneEntry(SweepTime(c, now))
           /\ \A x \in SweepTime(c, now) : ~BurnDone(x, now) /\ \E m \in c.history : Descends(x, m)
           /\ \A m \in c.history :
                 m.burn = 0 /\ TimerAt(c.timerLine, m.at) = 0 /\ StorageOnAt(c.storageLine, m.at) = FALSE
                   => \E x \in SweepTime(c, now) : x.id = m.id /\ x.at = m.at /\ x.burn = 0
<1> DEFINE h == c.history
           badged(m) == IF m.mine /\ m.delivery = "queued" /\ now - m.at > RelayKeeps
                        THEN [m EXCEPT !.delivery = "expired"] ELSE m
<1>1. h \in Histories
  BY DEF ChatsOf
<1>2. /\ SweepBurns(h, now) \in Histories /\ OneEntry(SweepBurns(h, now))
      /\ \A x \in SweepBurns(h, now) : ~BurnDone(x, now) /\ \E m \in h : Descends(x, m)
      /\ \A m \in h : m.burn = 0 => m \in SweepBurns(h, now)
  BY <1>1, BurnsSwept
<1>3. ASSUME NEW y \in Entries
      PROVE  /\ badged(y) \in Entries /\ Descends(badged(y), y) /\ badged(y).burn = y.burn
             /\ (BurnDone(badged(y), now) <=> BurnDone(y, now))
             /\ (Expired(c, badged(y), now) <=> Expired(c, y, now))
  <2>1. [y EXCEPT !.delivery = "expired"] \in Entries
    BY DEF Entries
  <2>2. badged(y) \in Entries
    BY <2>1
  <2>3. /\ badged(y).id = y.id /\ badged(y).at = y.at /\ badged(y).mine = y.mine
        /\ badged(y).burn = y.burn /\ badged(y).viewed = y.viewed
    BY DEF Entries
  <2> HIDE DEF badged
  <2>4. QED BY <2>2, <2>3 DEF Descends, BurnDone, Expired
<1>4. \A x \in SweepTime(c, now) : \E y \in SweepBurns(h, now) : x = badged(y)
  BY DEF SweepTime
<1>5. \A y \in SweepBurns(h, now) : ~Expired(c, badged(y), now) => badged(y) \in SweepTime(c, now)
  BY DEF SweepTime
<1> HIDE DEF badged, h
<1>6. ASSUME NEW x \in SweepTime(c, now)
      PROVE  x \in Entries /\ ~BurnDone(x, now) /\ \E m \in h : Descends(x, m)
  <2>1. PICK y \in SweepBurns(h, now) : x = badged(y)
    BY <1>4
  <2>2. PICK m \in h : Descends(y, m)
    BY <1>2
  <2>3. x \in Entries /\ Descends(x, y) /\ ~BurnDone(x, now) /\ x.burn = y.burn
    BY <1>2, <1>3, <2>1
  <2>4. Descends(x, m)
    BY <2>2, <2>3 DEF Descends
  <2>5. QED BY <2>3, <2>4
<1>7. OneEntry(SweepTime(c, now))
  <2> SUFFICES ASSUME NEW x \in SweepTime(c, now), NEW z \in SweepTime(c, now), x.id = z.id
               PROVE  x = z
    BY DEF OneEntry
  <2>1. PICK y \in SweepBurns(h, now) : x = badged(y)
    BY <1>4
  <2>2. PICK w \in SweepBurns(h, now) : z = badged(w)
    BY <1>4
  <2>3. y.id = w.id
    BY <1>2, <1>3, <2>1, <2>2 DEF Descends
  <2>4. QED BY <1>2, <2>1, <2>2, <2>3 DEF OneEntry
<1>8. ASSUME NEW m \in h, m.burn = 0, TimerAt(c.timerLine, m.at) = 0, StorageOnAt(c.storageLine, m.at) = FALSE
      PROVE  \E x \in SweepTime(c, now) : x.id = m.id /\ x.at = m.at /\ x.burn = 0
  <2>1. m \in SweepBurns(h, now) /\ m \in Entries
    BY <1>1, <1>2, <1>8 DEF h
  <2>2. ~Expired(c, m, now)
    BY <1>8 DEF Expired
  <2>3. badged(m) \in SweepTime(c, now) /\ Descends(badged(m), m) /\ badged(m).burn = m.burn
    BY <1>3, <1>5, <2>1, <2>2
  <2>4. QED BY <1>8, <2>3 DEF Descends
<1>9. QED
  <2>1. \A x \in SweepTime(c, now) : x \in Entries
    BY <1>6
  <2>2. QED BY <1>6, <1>7, <1>8, <2>1 DEF h

\* After a sweep at the pump, what is left of what was shown is within its time.
LEMMA WatchedSwept ==
    ASSUME NEW d, NEW c \in ChatsOf, NEW C \in ChatsOf, NEW s \in Showings, NEW p \in TapSets,
           NEW now \in Ticks, Watched(d, c, s, p, now), OneEntry(C.history),
           \A x \in C.history : ~BurnDone(x, now) /\ \E m \in c.history : Descends(x, m)
    PROVE  Watched(d, C, s, p, now)
<1>1. ASSUME NEW x \in C.history
      PROVE  /\ x.at <= now /\ (x.mine => s[x.id] = Never) /\ (x.viewed # Never => x.viewed = s[x.id])
             /\ x.burn > 0 /\ x.viewed = Never /\ s[x.id] # Never => \E t \in p : t[1] = d /\ t[2] = x.id
             /\ C.up /\ C.pumped /\ x.burn > 0 /\ x.viewed # Never => now < x.viewed + x.burn
  <2>1. PICK m \in c.history : Descends(x, m)
    OBVIOUS
  <2>2. x \in Entries /\ m \in Entries /\ Never \in Nat
    BY RetentionAssumption DEF ChatsOf, Never
  <2>3. x.at <= now /\ (x.mine => s[x.id] = Never) /\ (x.viewed # Never => x.viewed = s[x.id])
    BY <2>1 DEF Watched, Descends
  <2>4. x.burn > 0 /\ x.viewed = Never /\ s[x.id] # Never => \E t \in p : t[1] = d /\ t[2] = x.id
    BY <2>1 DEF Watched, Descends
  <2>5. ASSUME x.burn > 0, x.viewed # Never PROVE now < x.viewed + x.burn
    <3>1. x.burn \in Nat /\ x.viewed \in Nat /\ x.id \in Texts
      BY <2>2 DEF Entries
    <3>2. x.viewed <= now
      BY <2>3, <2>5, <3>1 DEF Watched
    <3>3. ~(now - x.viewed >= x.burn)
      BY <2>5 DEF BurnDone
    <3>4. QED BY <3>1, <3>2, <3>3
  <2>6. QED BY <2>3, <2>4, <2>5
<1>2. ASSUME NEW t \in p, t[1] = d
      PROVE  /\ t[3] <= now /\ s[t[2]] # Never
             /\ \A x \in C.history : x.id = t[2] /\ x.burn > 0 /\ x.viewed = Never => t[3] = s[t[2]]
  BY <1>2 DEF Watched, Descends
<1>3. QED BY <1>1, <1>2 DEF Watched, OneEntry

\* The taps p and q have the same reveals of device d under way.
SameTaps(d, p, q) == \A t \in p \cup q : t[1] = d => t \in p /\ t \in q

\* Nothing new to watch: what else a step may do to a chat.
LEMMA WatchedLess ==
    ASSUME NEW d, NEW c \in ChatsOf, NEW C \in ChatsOf, NEW s \in Showings, NEW p \in TapSets,
           NEW q \in TapSets, SameTaps(d, p, q), NEW now \in Ticks, NEW later \in Ticks,
           now <= later, Watched(d, c, s, p, now), C.history \subseteq c.history,
           C.up /\ C.pumped => c.up /\ c.pumped /\ later = now
    PROVE  Watched(d, C, s, q, later)
<1>1. ASSUME NEW x \in C.history
      PROVE  /\ x.at <= later /\ (x.mine => s[x.id] = Never) /\ (x.viewed # Never => x.viewed = s[x.id])
             /\ x.burn > 0 /\ x.viewed = Never /\ s[x.id] # Never => \E t \in q : t[1] = d /\ t[2] = x.id
             /\ C.up /\ C.pumped /\ x.burn > 0 /\ x.viewed # Never => later < x.viewed + x.burn
  <2>1. x \in c.history /\ x \in Entries /\ x.at \in Nat
    BY DEF ChatsOf, Entries
  <2>2. x.at <= later
    BY <2>1 DEF Watched
  <2>3. x.burn > 0 /\ x.viewed = Never /\ s[x.id] # Never => \E t \in q : t[1] = d /\ t[2] = x.id
    BY <2>1 DEF Watched, SameTaps
  <2>4. QED BY <2>1, <2>2, <2>3 DEF Watched
<1>2. ASSUME NEW t \in q, t[1] = d
      PROVE  /\ t[3] <= later /\ s[t[2]] # Never
             /\ \A x \in C.history : x.id = t[2] /\ x.burn > 0 /\ x.viewed = Never => t[3] = s[t[2]]
  <2>1. t \in p /\ t[3] \in Nat
    BY <1>2 DEF SameTaps, Taps
  <2>2. QED BY <1>2, <2>1 DEF Watched
<1>3. \A id \in Texts : s[id] # Never => s[id] <= later
  BY DEF Watched
<1>4. QED BY <1>1, <1>2, <1>3 DEF Watched

\* A message that is new to the device.
LEMMA WatchedAdded ==
    ASSUME NEW d, NEW c \in ChatsOf, NEW C \in ChatsOf, NEW s \in Showings, NEW p \in TapSets,
           NEW now \in Ticks, Watched(d, c, s, p, now), NEW x \in Entries,
           C.history = c.history \cup {x}, C.up = c.up, C.pumped = c.pumped,
           x.at = now, x.viewed = Never, s[x.id] = Never, \A m \in c.history : m.id # x.id
    PROVE  Watched(d, C, s, p, now)
<1>1. \A m, n \in C.history : m.id = n.id => m = n
  BY DEF Watched
<1>2. ASSUME NEW m \in C.history
      PROVE  /\ m.at <= now /\ (m.mine => s[m.id] = Never) /\ (m.viewed # Never => m.viewed = s[m.id])
             /\ m.burn > 0 /\ m.viewed = Never /\ s[m.id] # Never => \E t \in p : t[1] = d /\ t[2] = m.id
             /\ C.up /\ C.pumped /\ m.burn > 0 /\ m.viewed # Never => now < m.viewed + m.burn
  <2>1. CASE m \in c.history
    BY <2>1 DEF Watched
  <2>2. CASE m = x
    BY <2>2
  <2>3. QED BY <2>1, <2>2
<1>3. ASSUME NEW t \in p, t[1] = d
      PROVE  /\ t[3] <= now /\ s[t[2]] # Never
             /\ \A m \in C.history : m.id = t[2] /\ m.burn > 0 /\ m.viewed = Never => t[3] = s[t[2]]
  BY <1>3 DEF Watched
<1>4. QED BY <1>1, <1>2, <1>3 DEF Watched

\* A burn message shown on the screen.
LEMMA WatchedShown ==
    ASSUME NEW d, NEW c \in ChatsOf, NEW s \in Showings, NEW p \in TapSets,
           NEW now \in Ticks, Watched(d, c, s, p, now), NEW id \in Texts,
           \E m \in c.history : m.id = id /\ m.burn > 0 /\ ~m.mine,
           ~\E t \in p : t[1] = d /\ t[2] = id,
           NEW r \in Showings, r = [s EXCEPT ![id] = IF @ = Never THEN now ELSE @],
           NEW q \in TapSets, q = p \cup {<<d, id, now>>}
    PROVE  Watched(d, c, r, q, now)
<1>1. /\ \A i \in Texts \ {id} : r[i] = s[i]
      /\ r[id] = IF s[id] = Never THEN now ELSE s[id]
      /\ now # Never /\ r[id] # Never /\ Never \in Nat
  BY RetentionAssumption DEF Never
<1>2. \A m \in c.history : m.id \in Texts /\ m \in Entries
  BY DEF ChatsOf, Entries
<1>3. \A m \in c.history : m.id = id => ~m.mine
  BY DEF Watched
<1>4. \A m \in c.history : m.id = id /\ m.burn > 0 /\ m.viewed = Never => s[id] = Never
  BY DEF Watched
<1>5. \A i \in Texts : r[i] # Never => r[i] <= now
  BY <1>1 DEF Watched
<1>6. ASSUME NEW m \in c.history
      PROVE  /\ m.at <= now /\ (m.mine => r[m.id] = Never) /\ (m.viewed # Never => m.viewed = r[m.id])
             /\ m.burn > 0 /\ m.viewed = Never /\ r[m.id] # Never => \E t \in q : t[1] = d /\ t[2] = m.id
             /\ c.up /\ c.pumped /\ m.burn > 0 /\ m.viewed # Never => now < m.viewed + m.burn
  <2>1. CASE m.id = id
    <3>1. <<d, id, now>> \in q /\ <<d, id, now>>[1] = d /\ <<d, id, now>>[2] = id
      OBVIOUS
    <3>2. m.viewed # Never => m.viewed = r[m.id]
      BY <1>1, <2>1 DEF Watched
    <3>3. ~m.mine
      BY <1>3, <2>1
    <3>4. QED BY <2>1, <3>1, <3>2, <3>3 DEF Watched
  <2>2. CASE m.id # id
    BY <1>1, <1>2, <2>2 DEF Watched
  <2>3. QED BY <2>1, <2>2
<1>7. ASSUME NEW t \in q, t[1] = d
      PROVE  /\ t[3] <= now /\ r[t[2]] # Never
             /\ \A m \in c.history : m.id = t[2] /\ m.burn > 0 /\ m.viewed = Never => t[3] = r[t[2]]
  <2>1. CASE t \in p
    <3>1. t[2] \in Texts /\ t[2] # id
      BY <1>7, <2>1 DEF Taps
    <3>2. QED BY <1>1, <1>7, <2>1, <3>1 DEF Watched
  <2>2. CASE t = <<d, id, now>>
    <3>1. t[2] = id /\ t[3] = now
      BY <2>2
    <3>2. QED BY <1>1, <1>4, <3>1
  <2>3. QED BY <2>1, <2>2
<1>8. QED BY <1>5, <1>6, <1>7 DEF Watched

\* The call of a tap: the countdown runs from the showing.
LEMMA WatchedViewed ==
    ASSUME NEW d, NEW c \in ChatsOf, NEW C \in ChatsOf, NEW s \in Showings, NEW p \in TapSets,
           clock \in Ticks, Watched(d, c, s, p, clock), NEW id \in Texts, NEW at \in Nat,
           <<d, id, at>> \in p, NEW old \in Histories,
           old = {m \in c.history : m.id = id /\ m.burn > 0 /\ ~m.mine},
           C.history = (c.history \ old) \cup {[m EXCEPT !.viewed = ViewedFrom(m, at)] : m \in old}, ~C.pumped,
           NEW q \in TapSets, q = p \ {<<d, id, at>>}
    PROVE  Watched(d, C, s, q, clock)
<1> DEFINE new(m) == [m EXCEPT !.viewed = ViewedFrom(m, at)]
<1>1. <<d, id, at>>[1] = d /\ <<d, id, at>>[2] = id /\ <<d, id, at>>[3] = at
  OBVIOUS
<1>2. at <= clock /\ s[id] # Never
  BY <1>1 DEF Watched
<1>3. ASSUME NEW m \in old
      PROVE  /\ new(m) \in Entries /\ new(m).id = id /\ new(m).at = m.at /\ ~new(m).mine
             /\ new(m).viewed = s[id] /\ m \in c.history /\ m.id = id
  <2>1. m \in c.history /\ m \in Entries /\ m.id = id /\ m.burn > 0 /\ ~m.mine
    OBVIOUS
  <2>2. ViewedFrom(m, at) = s[id]
    <3>1. CASE m.viewed # Never
      BY <2>1, <3>1 DEF Watched, ViewedFrom
    <3>2. CASE m.viewed = Never
      <4>1. at = s[id]
        BY <1>1, <2>1, <3>2 DEF Watched
      <4>2. (IF at < clock THEN at ELSE clock) = at
        BY <1>2
      <4>3. QED BY <3>2, <4>1, <4>2 DEF ViewedFrom
    <3>3. QED BY <3>1, <3>2
  <2>3. s[id] \in Nat
    OBVIOUS
  <2>4. QED BY <2>1, <2>2, <2>3 DEF Entries
<1>4. \A x \in C.history : x \in c.history \ old \/ \E m \in old : x = new(m)
  OBVIOUS
<1> HIDE DEF new
<1>5. \A m, n \in C.history : m.id = n.id => m = n
  <2> SUFFICES ASSUME NEW x \in C.history, NEW y \in C.history, x.id = y.id PROVE x = y
    OBVIOUS
  <2>1. CASE x \in c.history \ old /\ y \in c.history \ old
    BY <2>1 DEF Watched
  <2>2. ASSUME NEW m \in old, x = new(m) \/ y = new(m) PROVE x = y
    <3>1. x.id = id /\ y.id = id
      BY <1>3, <2>2
    <3>2. \A n \in c.history : n.id = id => n = m
      BY <1>3 DEF Watched
    <3>3. x = new(m) /\ y = new(m)
      BY <1>3, <1>4, <3>1, <3>2
    <3>4. QED BY <3>3
  <2>3. QED BY <1>4, <2>1, <2>2
<1>6. ASSUME NEW x \in C.history
      PROVE  /\ x.at <= clock /\ (x.mine => s[x.id] = Never) /\ (x.viewed # Never => x.viewed = s[x.id])
             /\ x.burn > 0 /\ x.viewed = Never /\ s[x.id] # Never => \E t \in q : t[1] = d /\ t[2] = x.id
             /\ ~(x.burn > 0 /\ x.viewed = Never /\ x.id = id)
  <2>1. CASE x \in c.history \ old
    <3>1. ~(x.burn > 0 /\ x.id = id)
      <4>1. x.id = id => ~x.mine
        BY <1>2, <2>1 DEF Watched
      <4>2. QED BY <2>1, <4>1
    <3>2. ASSUME x.burn > 0, x.viewed = Never, s[x.id] # Never
          PROVE  \E t \in q : t[1] = d /\ t[2] = x.id
      <4>1. PICK t \in p : t[1] = d /\ t[2] = x.id
        BY <2>1, <3>2 DEF Watched
      <4>2. t \in q
        BY <1>1, <3>1, <3>2, <4>1
      <4>3. QED BY <4>1, <4>2
    <3>3. QED BY <2>1, <3>1, <3>2 DEF Watched
  <2>2. ASSUME NEW m \in old, x = new(m)
        PROVE  x.at <= clock /\ ~x.mine /\ x.viewed = s[x.id] /\ x.viewed # Never
    BY <1>2, <1>3, <2>2 DEF Watched
  <2>3. QED BY <1>4, <2>1, <2>2
<1>7. ASSUME NEW t \in q, t[1] = d
      PROVE  /\ t[3] <= clock /\ s[t[2]] # Never
             /\ \A x \in C.history : x.id = t[2] /\ x.burn > 0 /\ x.viewed = Never => t[3] = s[t[2]]
  <2>1. t \in p
    OBVIOUS
  <2>2. t[3] <= clock /\ s[t[2]] # Never
    BY <1>7, <2>1 DEF Watched
  <2>3. ASSUME NEW x \in C.history, x.id = t[2], x.burn > 0, x.viewed = Never PROVE t[3] = s[t[2]]
    <3>1. x \in c.history
      <4>1. ASSUME NEW m \in old, x = new(m) PROVE FALSE
        BY <1>2, <1>3, <2>3, <4>1
      <4>2. QED BY <1>4, <4>1
    <3>2. QED BY <1>7, <2>1, <2>3, <3>1 DEF Watched
  <2>4. QED BY <2>2, <2>3
<1>8. QED BY <1>5, <1>6, <1>7 DEF Watched

\* A kill: what was shown and not recorded is unseen again.
LEMMA WatchedKilled ==
    ASSUME NEW d, NEW c \in ChatsOf, NEW C \in ChatsOf, NEW s \in Showings, NEW p \in TapSets,
           NEW now \in Ticks, Watched(d, c, s, p, now), C.history = c.history, ~C.up,
           NEW r \in Showings,
           r = [id \in Texts |-> IF \E m \in c.history : m.id = id /\ m.viewed = Never THEN Never ELSE s[id]],
           NEW q \in TapSets, q = {t \in p : t[1] # d}
    PROVE  Watched(d, C, r, q, now)
<1>1. \A id \in Texts : r[id] = Never \/ r[id] = s[id]
  OBVIOUS
<1>2. \A m \in c.history : m.id \in Texts
  BY DEF ChatsOf, Entries
<1>3. ASSUME NEW m \in c.history
      PROVE  (m.mine => r[m.id] = Never) /\ (m.viewed # Never => m.viewed = r[m.id])
             /\ (m.viewed = Never => r[m.id] = Never)
  <2>1. m.viewed = Never => r[m.id] = Never
    BY <1>2
  <2>2. m.viewed # Never => r[m.id] = s[m.id]
    <3>1. m.viewed # Never => ~\E n \in c.history : n.id = m.id /\ n.viewed = Never
      BY DEF Watched
    <3>2. QED BY <1>2, <3>1
  <2>3. QED BY <1>1, <1>2, <2>1, <2>2 DEF Watched
<1>4. \A id \in Texts : r[id] # Never => r[id] <= now
  BY <1>1 DEF Watched
<1>5. QED BY <1>3, <1>4 DEF Watched

HIDE DEF Histories, TapSets, Showings, Ticks

-----------------------------------------------------------------------------
(* The daily allowance.                                                    *)

\* What arrived in a set of ticks.
LEMMA TicksWeigh ==
    ASSUME NEW w \in Arrivals, NEW S \in TickSets
    PROVE  IsFiniteSet(S) /\ Weighs(S, w) /\ Total(S, w) \in Nat
<1>1. IsFiniteSet(Ticks)
  BY FS_Interval, RetentionAssumption DEF Ticks
<1>2. IsFiniteSet(S) /\ Weighs(S, w)
  BY <1>1, FS_Subset DEF Weighs, Arrivals, TickSets
<1>3. QED BY <1>2, UnitsAreFinite

\* Nothing in total where nothing arrived.
LEMMA NothingArrived ==
    ASSUME NEW S, NEW w, \A x \in S : w[x] = 0
    PROVE  Total(S, w) = 0
<1>1. Units(S, w) = {}
  BY DEF Units
<1>2. QED BY <1>1, FS_EmptySet DEF Total

\* A set of ticks has at most the arrivals of two sets that cover it.
LEMMA ArrivedCovered ==
    ASSUME NEW w \in Arrivals, NEW S \in TickSets,
           NEW T \in TickSets, NEW U \in TickSets, S \subseteq T \cup U
    PROVE  Total(S, w) <= Total(T, w) + Total(U, w)
<1> DEFINE A == S \cap T
           B == S \ T
<1>1. /\ A \in TickSets /\ B \in TickSets
      /\ A \cap B = {} /\ A \cup B = S /\ A \in SUBSET T /\ B \in SUBSET U
  BY DEF TickSets
<1> HIDE DEF A, B
<1>2. /\ IsFiniteSet(A) /\ IsFiniteSet(B) /\ IsFiniteSet(T) /\ IsFiniteSet(U)
      /\ Weighs(A \cup B, w) /\ Weighs(T, w) /\ Weighs(U, w)
      /\ Total(A, w) \in Nat /\ Total(B, w) \in Nat /\ Total(T, w) \in Nat /\ Total(U, w) \in Nat
  BY <1>1, TicksWeigh
<1>3. Total(A \cup B, w) = Total(A, w) + Total(B, w)
  BY <1>1, <1>2, TotalOfBoth
<1>4. Total(A, w) <= Total(T, w) /\ Total(B, w) <= Total(U, w)
  BY <1>1, <1>2, TotalOfFewer
<1>5. QED BY <1>1, <1>2, <1>3, <1>4

\* One more arrival at tick n.
LEMMA OneMore ==
    ASSUME NEW w \in Arrivals, NEW n \in Ticks, NEW v \in Arrivals,
           v[n] = w[n] + 1, \A x \in Ticks \ {n} : v[x] = w[x], NEW S \in TickSets
    PROVE  (n \in S => Total(S, v) = Total(S, w) + 1) /\ (n \notin S => Total(S, v) = Total(S, w))
<1>1. v[n] = w[n] + 1 /\ \A x \in S \ {n} : v[x] = w[x]
  BY DEF TickSets
<1>2. CASE n \in S
  <2>1. Total(S \ {n}, v) = Total(S \ {n}, w)
    BY <1>1, TotalSame
  <2>2. IsFiniteSet(S) /\ Weighs(S, w) /\ Weighs(S, v)
    BY TicksWeigh
  <2>3. Total(S, w) = Total(S \ {n}, w) + w[n] /\ Total(S \ {n}, w) \in Nat /\ w[n] \in Nat
    BY <1>2, <2>2, TotalRemove
  <2>4. Total(S, v) = Total(S \ {n}, v) + v[n]
    BY <1>2, <2>2, TotalRemove
  <2>5. QED BY <1>1, <1>2, <2>1, <2>3, <2>4
<1>3. CASE n \notin S
  <2>1. \A x \in S : v[x] = w[x]
    BY <1>1, <1>3
  <2>2. QED BY <1>3, <2>1, TotalSame
<1>4. QED BY <1>2, <1>3

\* A span and what came since a tick are sets of ticks.
LEMMA SpanIs ==
    /\ \A from \in Nat, to \in Nat : Span(from, to) \in TickSets /\ Since(from) \in TickSets
    /\ \A from \in Nat, to \in Nat : \A u : u \in Span(from, to) <=> u \in Ticks /\ from <= u /\ u < to
    /\ \A from \in Nat : \A u : u \in Since(from) <=> u \in Ticks /\ from <= u
BY DEF Span, Since, TickSets

\* A tick is a number up to the bound.
LEMMA TickIs == MaxClock \in Nat /\ \A t \in Ticks : t \in Nat /\ t <= MaxClock
BY RetentionAssumption DEF Ticks

\* Whatever the window, what is admitted is counted in it.
LEMMA AdmitCounts ==
    ASSUME NEW al \in Allowances, NEW w \in Arrivals, NEW now \in Ticks,
           Allowed(al, w, now), NEW v, v = Admit(al, now),
           NEW r \in Arrivals, r = [w EXCEPT ![now] = @ + 1]
    PROVE  /\ v.al \in Allowances
           /\ v.yes => Allowed(v.al, r, now)
           /\ ~v.yes => Allowed(v.al, w, now)
<1> DEFINE x == Windowed(al, now)
<1>1. /\ al.start \in Nat /\ al.messages \in Nat /\ al.noticed \in BOOLEAN /\ al.start <= now
      /\ MaxPerDay \in Nat \ {0} /\ RelayKeeps \in Nat \ {0} /\ MaxClock \in Nat /\ now \in Nat /\ now <= MaxClock
      /\ al.messages <= MaxPerDay
  BY RetentionAssumption, TickIs DEF Allowances, Allowed
<1>w. /\ \A u \in Ticks : u > now \/ u >= al.start + RelayKeeps => w[u] = 0
      /\ Total(Since(al.start), w) <= al.messages
      /\ \A t \in Ticks :
            /\ Total(Span(t, t + RelayKeeps), w) <= 2 * MaxPerDay
            /\ t + RelayKeeps > al.start => Total(Span(t, al.start), w) <= MaxPerDay
  BY DEF Allowed
<1>2. /\ \A s \in Nat : Since(s) \in TickSets
      /\ \A s \in Nat, t \in Nat : /\ Span(s, t) \in TickSets
                                   /\ Total(Span(s, t), w) \in Nat /\ Total(Span(s, t), r) \in Nat
      /\ \A s \in Nat : Total(Since(s), w) \in Nat /\ Total(Since(s), r) \in Nat
  BY SpanIs, TicksWeigh
<1>3. \A u \in Ticks : r[u] = (IF u = now THEN w[u] + 1 ELSE w[u])
  BY DEF Arrivals
<1>4. x \in Allowances /\ x.start \in Nat /\ x.messages \in Nat
  BY <1>1 DEF Windowed, FreshAllowance, Allowances
<1>5. CASE ~v.yes
  <2>1. x.messages >= MaxPerDay /\ v.al = [x EXCEPT !.noticed = TRUE]
    BY <1>5 DEF Admit
  <2>2. x = al
    BY <1>1, <2>1 DEF Windowed, FreshAllowance
  <2>3. v.al \in Allowances /\ v.al.start = al.start /\ v.al.messages = al.messages
    BY <2>1, <2>2 DEF Allowances
  <2>4. QED BY <1>5, <2>3 DEF Allowed
<1>6. CASE v.yes
  <2>1. x.messages < MaxPerDay /\ v.al = [x EXCEPT !.messages = @ + 1]
    BY <1>1, <1>4, <1>6 DEF Admit
  <2>2. v.al \in Allowances /\ v.al.start = x.start /\ v.al.messages = x.messages + 1
    BY <1>4, <2>1 DEF Allowances
  <2>3. \A S \in TickSets : /\ now \in S => Total(S, r) = Total(S, w) + 1
                            /\ now \notin S => Total(S, r) = Total(S, w)
    <3>1. r[now] = w[now] + 1 /\ \A u \in Ticks \ {now} : r[u] = w[u]
      BY <1>3
    <3>2. QED BY <3>1, OneMore
  <2>4. CASE now < al.start + RelayKeeps
    <3>1. x = al
      BY <1>1, <2>4 DEF Windowed
    <3>2. \A u \in Ticks : u > now \/ u >= al.start + RelayKeeps => r[u] = 0
      BY <1>1, <1>w, <1>3, <2>4, TickIs
    <3>3. Total(Since(al.start), r) <= al.messages + 1
      <4>1. Since(al.start) \in TickSets /\ Total(Since(al.start), w) \in Nat
        BY <1>1, <1>2
      <4>2. now \in Since(al.start)
        BY <1>1, SpanIs
      <4>3. Total(Since(al.start), r) = Total(Since(al.start), w) + 1
        BY <2>3, <4>1, <4>2
      <4>4. Total(Since(al.start), w) <= al.messages
        BY <1>w
      <4>5. QED BY <1>1, <4>1, <4>3, <4>4
    <3>4. ASSUME NEW t \in Ticks
          PROVE  /\ Total(Span(t, t + RelayKeeps), r) <= 2 * MaxPerDay
                 /\ t + RelayKeeps > al.start => Total(Span(t, al.start), r) <= MaxPerDay
      <4>t. t \in Nat /\ t <= MaxClock /\ t + RelayKeeps \in Nat
        BY <1>1, TickIs
      <4>1. Total(Span(t, al.start), r) = Total(Span(t, al.start), w)
        <5>1. now \notin Span(t, al.start)
          BY <1>1, SpanIs, TickIs
        <5>2. Span(t, al.start) \in TickSets
          BY <1>1, <1>2, <4>t
        <5>3. QED BY <2>3, <5>1, <5>2
      <4>2. CASE now \notin Span(t, t + RelayKeeps)
        <5>1. Span(t, t + RelayKeeps) \in TickSets
          BY <1>1, <1>2, <4>t
        <5>2. Total(Span(t, t + RelayKeeps), r) = Total(Span(t, t + RelayKeeps), w)
          BY <2>3, <4>2, <5>1
        <5>3. QED BY <1>w, <4>1, <5>2
      <4>3. CASE now \in Span(t, t + RelayKeeps)
        <5>1. t + RelayKeeps > al.start
          BY <1>1, <4>t, <4>3, SpanIs, TickIs
        <5>2. Span(t, t + RelayKeeps) \subseteq Span(t, al.start) \cup Since(al.start)
          <6> SUFFICES ASSUME NEW u \in Span(t, t + RelayKeeps) PROVE u \in Span(t, al.start) \/ u \in Since(al.start)
            OBVIOUS
          <6>1. u \in Ticks /\ t <= u
            BY <4>t, SpanIs
          <6>2. u \in Nat
            BY <6>1, TickIs
          <6>3. u < al.start \/ al.start <= u
            BY <1>1, <6>2
          <6>4. QED BY <1>1, <4>t, <6>1, <6>3, SpanIs
        <5>3. Total(Span(t, t + RelayKeeps), r) <= Total(Span(t, al.start), r) + Total(Since(al.start), r)
          BY <1>1, <1>2, <4>t, <5>2, ArrivedCovered
        <5>4. Total(Span(t, al.start), w) <= MaxPerDay
          BY <1>w, <5>1
        <5>5. al.messages + 1 <= MaxPerDay
          BY <1>1, <2>1, <3>1
        <5>6. /\ Total(Span(t, t + RelayKeeps), r) \in Nat /\ Total(Span(t, al.start), w) \in Nat
              /\ Total(Since(al.start), r) \in Nat
          BY <1>1, <1>2, <4>t
        <5>7. Total(Span(t, t + RelayKeeps), r) <= 2 * MaxPerDay
          BY <1>1, <3>3, <4>1, <5>3, <5>4, <5>5, <5>6
        <5>8. QED BY <4>1, <5>4, <5>7
      <4>4. QED BY <4>2, <4>3
    <3>5. al.messages + 1 <= MaxPerDay
      BY <1>1, <2>1, <3>1
    <3>6. QED BY <1>1, <1>6, <2>2, <3>1, <3>2, <3>3, <3>4, <3>5 DEF Allowed
  <2>5. CASE now >= al.start + RelayKeeps
    <3>1. x.start = now /\ x.messages = 0
      BY <1>1, <2>5 DEF Windowed, FreshAllowance
    <3>2. \A u \in Ticks : u > now \/ u >= now + RelayKeeps => r[u] = 0
      BY <1>1, <1>w, <1>3, TickIs
    <3>3. Total(Since(now), r) <= 1
      <4>1. ASSUME NEW u \in Since(now) PROVE w[u] = 0
        <5>1. u \in Ticks /\ now <= u
          BY <1>1, SpanIs
        <5>2. u \in Nat
          BY <5>1, TickIs
        <5>3. u >= al.start + RelayKeeps
          BY <1>1, <2>5, <5>1, <5>2
        <5>4. QED BY <1>w, <5>1, <5>3
      <4>2. Total(Since(now), w) = 0
        BY <4>1, NothingArrived
      <4>3. Since(now) \in TickSets
        BY <1>1, <1>2
      <4>4. now \in Since(now)
        BY <1>1, SpanIs
      <4>5. Total(Since(now), r) = Total(Since(now), w) + 1
        BY <2>3, <4>3, <4>4
      <4>6. QED BY <4>2, <4>5
    <3>4. ASSUME NEW t \in Ticks, t + RelayKeeps > now
          PROVE  Total(Span(t, now), r) <= MaxPerDay
      <4>t. t \in Nat /\ t <= MaxClock
        BY TickIs
      <4>1. Span(t, now) \subseteq Since(al.start)
        <5> SUFFICES ASSUME NEW u \in Span(t, now) PROVE u \in Since(al.start)
          OBVIOUS
        <5>1. u \in Ticks /\ t <= u
          BY <1>1, <4>t, SpanIs
        <5>2. u \in Nat
          BY <5>1, TickIs
        <5>3. al.start <= u
          BY <1>1, <2>5, <3>4, <4>t, <5>1, <5>2
        <5>4. QED BY <1>1, <5>1, <5>3, SpanIs
      <4>2. now \notin Span(t, now)
        BY <1>1, SpanIs, TickIs
      <4>3. Total(Span(t, now), r) = Total(Span(t, now), w)
        <5>1. Span(t, now) \in TickSets
          BY <1>1, <1>2, <4>t
        <5>2. QED BY <2>3, <4>2, <5>1
      <4>4. Total(Span(t, now), w) <= Total(Since(al.start), w)
        BY <1>1, <1>2, <4>1, TicksWeigh, TotalOfFewer
      <4>5. Total(Span(t, now), w) \in Nat /\ Total(Since(al.start), w) \in Nat
        BY <1>1, <1>2, <4>t
      <4>6. Total(Since(al.start), w) <= MaxPerDay
        BY <1>1, <1>w, <4>5
      <4>7. QED BY <1>1, <4>3, <4>4, <4>5, <4>6
    <3>5. ASSUME NEW t \in Ticks PROVE Total(Span(t, t + RelayKeeps), r) <= 2 * MaxPerDay
      <4>t. t \in Nat /\ t <= MaxClock /\ t + RelayKeeps \in Nat
        BY <1>1, TickIs
      <4>1. CASE now \notin Span(t, t + RelayKeeps)
        <5>1. Span(t, t + RelayKeeps) \in TickSets
          BY <1>1, <1>2, <4>t
        <5>2. Total(Span(t, t + RelayKeeps), r) = Total(Span(t, t + RelayKeeps), w)
          BY <2>3, <4>1, <5>1
        <5>3. QED BY <1>w, <5>2
      <4>2. CASE now \in Span(t, t + RelayKeeps)
        <5>1. Total(Span(t, now), r) <= MaxPerDay
          BY <1>1, <3>4, <4>t, <4>2, SpanIs, TickIs
        <5>2. Span(t, t + RelayKeeps) \subseteq Span(t, now) \cup Since(now)
          <6> SUFFICES ASSUME NEW u \in Span(t, t + RelayKeeps) PROVE u \in Span(t, now) \/ u \in Since(now)
            OBVIOUS
          <6>1. u \in Ticks /\ t <= u
            BY <4>t, SpanIs
          <6>2. u \in Nat
            BY <6>1, TickIs
          <6>3. u < now \/ now <= u
            BY <1>1, <6>2
          <6>4. QED BY <1>1, <4>t, <6>1, <6>3, SpanIs
        <5>3. Total(Span(t, t + RelayKeeps), r) <= Total(Span(t, now), r) + Total(Since(now), r)
          BY <1>1, <1>2, <4>t, <5>2, ArrivedCovered
        <5>4. /\ Total(Span(t, t + RelayKeeps), r) \in Nat /\ Total(Span(t, now), r) \in Nat
              /\ Total(Since(now), r) \in Nat
          BY <1>1, <1>2, <4>t
        <5>5. QED BY <1>1, <3>3, <5>1, <5>3, <5>4
      <4>3. QED BY <4>1, <4>2
    <3>6. v.al.start = now /\ v.al.messages = 1 /\ now <= now /\ 1 <= MaxPerDay
      BY <1>1, <2>2, <3>1
    <3>7. Allowed(v.al, r, now)
      BY <3>2, <3>3, <3>4, <3>5, <3>6 DEF Allowed
    <3>8. QED BY <1>6, <2>2, <3>7
  <2>6. QED BY <1>1, <2>4, <2>5
<1>7. QED BY <1>2, <1>4, <1>5, <1>6

-----------------------------------------------------------------------------
(* What stays.                                                             *)

\* Whatever was kept is still there when the lines are the same and no message without a
\* timer is gone.
LEMMA StaysKept ==
    ASSUME NEW c, NEW C, C.timerLine = c.timerLine, C.storageLine = c.storageLine,
           \A m \in c.history :
              m.burn = 0 /\ TimerAt(c.timerLine, m.at) = 0 /\ StorageOnAt(c.storageLine, m.at) = FALSE
                 => \E x \in C.history : x.id = m.id /\ x.at = m.at /\ x.burn = 0,
           NEW k, Stays(c, k)
    PROVE  Stays(C, k)
<1>1. SwitchedAt(c, k[2]) => SwitchedAt(C, k[2])
  BY DEF SwitchedAt
<1>2. QED BY <1>1 DEF Stays

\* A new message under no timer stays too.
LEMMA StaysAdded ==
    ASSUME NEW c \in ChatsOf, NEW C \in ChatsOf, NEW now \in Ticks, Lined(c, now), NEW x \in Entries,
           C.history = c.history \cup {x}, C.timerLine = c.timerLine, C.storageLine = c.storageLine,
           C.timer = c.timer, C.storage = c.storage, x.at = now,
           NEW ks \in Keeps, \A k \in ks : Stays(c, k), NEW K \in Keeps,
           K = ks \/ (x.burn = 0 /\ Unmarked(c) /\ K = ks \cup {<<x.id, now>>})
    PROVE  Lined(C, now) /\ \A k \in K : Stays(C, k)
<1>1. Lined(C, now)
  BY DEF Lined
<1>2. \A k \in ks : Stays(C, k)
  BY DEF Stays, SwitchedAt
<1>3. ASSUME x.burn = 0, Unmarked(c) PROVE Stays(C, <<x.id, now>>)
  <2>1. now \in Nat /\ c.timerLine \in Seq(Timers) /\ c.storageLine \in Seq(Switches)
    BY TickIs DEF ChatsOf
  <2>2. TimerAt(c.timerLine, now) = 0
    <3>1. TimerAt(c.timerLine, now) = IF c.timerLine = <<>> THEN 0 ELSE c.timerLine[Len(c.timerLine)].value
      BY <2>1, NowInForce DEF Lined, TimerAt
    <3>2. c.timer = 0
      BY <1>3 DEF Unmarked
    <3>3. QED BY <3>1, <3>2 DEF Lined
  <2>3. StorageOnAt(c.storageLine, now) = FALSE
    <3>1. StorageOnAt(c.storageLine, now)
             = IF c.storageLine = <<>> THEN FALSE ELSE c.storageLine[Len(c.storageLine)].value
      BY <2>1, NowInForce DEF Lined, StorageOnAt
    <3>2. c.storage = FALSE
      BY <1>3 DEF Unmarked, ChatsOf
    <3>3. QED BY <3>1, <3>2 DEF Lined
  <2>4. QED BY <1>3, <2>2, <2>3 DEF Stays
<1>4. QED BY <1>1, <1>2, <1>3

\* A switch made now changes nothing for what was there before, and marks what is of now.
LEMMA StaysSwitched ==
    ASSUME NEW c \in ChatsOf, NEW C \in ChatsOf, NEW now \in Ticks, Lined(c, now), C.history = c.history,
           \A m \in c.history : m.at <= now,
           NEW x \in Timers, x.changed = now, NEW y \in Switches, y.changed = now,
           \/ /\ C.timerLine = Append(c.timerLine, x) /\ C.timer = x.value
              /\ C.storageLine = c.storageLine /\ C.storage = c.storage
           \/ /\ C.storageLine = Append(c.storageLine, y) /\ C.storage = y.value
              /\ C.timerLine = c.timerLine /\ C.timer = c.timer
    PROVE  Lined(C, now) /\ \A q : Stays(c, q) => Stays(C, q)
<1>1. /\ now \in Nat /\ c.timerLine \in Seq(Timers) /\ c.storageLine \in Seq(Switches)
      /\ \A z \in Timers : z.changed \in Nat
      /\ \A z \in Switches : z.changed \in Nat
      /\ \A m \in c.history : m.at \in Nat
  BY TickIs DEF ChatsOf, Timers, Switches, Histories, Entries
<1>c. ASSUME NEW T, NEW s \in Seq(T), NEW z \in T
      PROVE  /\ \A i \in DOMAIN s : i \in DOMAIN Append(s, z) /\ Append(s, z)[i] = s[i]
             /\ \A i \in DOMAIN Append(s, z) : i \in DOMAIN s \/ Append(s, z)[i] = z
             /\ Append(s, z) # <<>>
             /\ Append(s, z)[Len(Append(s, z))] = z
  <2>1. Len(Append(s, z)) = Len(s) + 1 /\ Len(s) \in Nat
    OBVIOUS
  <2>2. DOMAIN s = 1 .. Len(s) /\ DOMAIN Append(s, z) = 1 .. (Len(s) + 1)
    OBVIOUS
  <2>3. Append(s, z)[Len(s) + 1] = z /\ \A i \in 1 .. Len(s) : Append(s, z)[i] = s[i]
    OBVIOUS
  <2>4. Append(s, z) # <<>>
    OBVIOUS
  <2>5. QED BY <2>1, <2>2, <2>3, <2>4
<1>a. /\ \A i \in DOMAIN c.timerLine : i \in DOMAIN Append(c.timerLine, x) /\ Append(c.timerLine, x)[i] = c.timerLine[i]
      /\ \A i \in DOMAIN Append(c.timerLine, x) : i \in DOMAIN c.timerLine \/ Append(c.timerLine, x)[i] = x
      /\ Append(c.timerLine, x) # <<>>
      /\ Append(c.timerLine, x)[Len(Append(c.timerLine, x))] = x
  BY <1>1, <1>c
<1>b. /\ \A i \in DOMAIN c.storageLine : i \in DOMAIN Append(c.storageLine, y) /\ Append(c.storageLine, y)[i] = c.storageLine[i]
      /\ \A i \in DOMAIN Append(c.storageLine, y) : i \in DOMAIN c.storageLine \/ Append(c.storageLine, y)[i] = y
      /\ Append(c.storageLine, y) # <<>>
      /\ Append(c.storageLine, y)[Len(Append(c.storageLine, y))] = y
  BY <1>1, <1>c
<1>2. Lined(C, now)
  <2>n. now <= now
    BY <1>1
  <2>1. \A i \in DOMAIN C.timerLine : C.timerLine[i].changed <= now
    <3>1. CASE C.timerLine = c.timerLine
      BY <3>1 DEF Lined
    <3>2. CASE C.timerLine = Append(c.timerLine, x)
      <4> SUFFICES ASSUME NEW i \in DOMAIN Append(c.timerLine, x)
                   PROVE  Append(c.timerLine, x)[i].changed <= now
        BY <3>2
      <4>1. CASE i \in DOMAIN c.timerLine
        BY <1>a, <4>1 DEF Lined
      <4>2. CASE Append(c.timerLine, x)[i] = x
        BY <2>n, <4>2
      <4>3. QED BY <1>a, <4>1, <4>2
    <3>3. QED BY <3>1, <3>2
  <2>2. \A i \in DOMAIN C.storageLine : C.storageLine[i].changed <= now
    <3>1. CASE C.storageLine = c.storageLine
      BY <3>1 DEF Lined
    <3>2. CASE C.storageLine = Append(c.storageLine, y)
      <4> SUFFICES ASSUME NEW i \in DOMAIN Append(c.storageLine, y)
                   PROVE  Append(c.storageLine, y)[i].changed <= now
        BY <3>2
      <4>1. CASE i \in DOMAIN c.storageLine
        BY <1>b, <4>1 DEF Lined
      <4>2. CASE Append(c.storageLine, y)[i] = y
        BY <2>n, <4>2
      <4>3. QED BY <1>b, <4>1, <4>2
    <3>3. QED BY <3>1, <3>2
  <2>3. IF C.timerLine = <<>> THEN C.timer = 0 ELSE C.timerLine[Len(C.timerLine)].value = C.timer
    BY <1>a DEF Lined
  <2>4. IF C.storageLine = <<>> THEN C.storage = FALSE ELSE C.storageLine[Len(C.storageLine)].value = C.storage
    BY <1>b DEF Lined
  <2>5. QED BY <2>1, <2>2, <2>3, <2>4 DEF Lined
<1>3. ASSUME NEW t, SwitchedAt(c, t) PROVE SwitchedAt(C, t)
  BY <1>a, <1>b, <1>3 DEF SwitchedAt
<1>4. SwitchedAt(C, now)
  <2>1. CASE C.timerLine = Append(c.timerLine, x)
    <3>1. Len(c.timerLine) + 1 \in DOMAIN C.timerLine /\ C.timerLine[Len(c.timerLine) + 1] = x
      BY <1>1, <2>1
    <3>2. QED BY <3>1 DEF SwitchedAt
  <2>2. CASE C.storageLine = Append(c.storageLine, y)
    <3>1. Len(c.storageLine) + 1 \in DOMAIN C.storageLine /\ C.storageLine[Len(c.storageLine) + 1] = y
      BY <1>1, <2>2
    <3>2. QED BY <3>1 DEF SwitchedAt
  <2>3. QED BY <2>1, <2>2
<1>5. ASSUME NEW at \in Nat, at < now
      PROVE  TimerAt(C.timerLine, at) = TimerAt(c.timerLine, at) /\ StorageOnAt(C.storageLine, at) = StorageOnAt(c.storageLine, at)
  <2>1. LastChange(Append(c.timerLine, x), at, 0) = LastChange(c.timerLine, at, 0)
    <3>1. x.changed > at
      BY <1>1, <1>5
    <3>2. QED BY ONLY <1>1, <3>1, PastIsKept, x \in Timers, at \in Nat
  <2>2. LastChange(Append(c.storageLine, y), at, FALSE) = LastChange(c.storageLine, at, FALSE)
    <3>1. y.changed > at
      BY <1>1, <1>5
    <3>2. ASSUME NEW b PROVE LastChange(Append(c.storageLine, y), at, b) = LastChange(c.storageLine, at, b)
      BY ONLY <1>1, <3>1, PastIsKept, y \in Switches, at \in Nat
    <3>3. QED BY <3>2
  <2>3. QED BY <2>1, <2>2 DEF TimerAt, StorageOnAt
<1>6. ASSUME NEW q, Stays(c, q) PROVE Stays(C, q)
  <2>1. CASE SwitchedAt(c, q[2])
    BY <1>3, <2>1 DEF Stays
  <2>2. ASSUME NEW m \in c.history, m.id = q[1], m.at = q[2], m.burn = 0,
               TimerAt(c.timerLine, q[2]) = 0, StorageOnAt(c.storageLine, q[2]) = FALSE
        PROVE  Stays(C, q)
    <3>1. q[2] \in Nat /\ (q[2] < now \/ q[2] = now)
      BY <1>1, <2>2
    <3>2. CASE q[2] = now
      BY <1>4, <3>2 DEF Stays
    <3>3. CASE q[2] < now
      BY <1>5, <2>2, <3>1, <3>3 DEF Stays
    <3>4. QED BY <3>1, <3>2, <3>3
  <2>3. QED BY <1>6, <2>1, <2>2 DEF Stays
<1>7. QED BY <1>2, <1>6

-----------------------------------------------------------------------------
(* One device at a time.                                                   *)

\* What the invariant says of one device.
LEMMA DeviceIs ==
    ASSUME RetInv, NEW d \in Devices
    PROVE  /\ chat[d] \in ChatsOf /\ shown[d] \in Showings /\ kept[d] \in Keeps /\ arrived[d] \in Arrivals
           /\ taps \in TapSets /\ clock \in Ticks /\ clock \in Nat /\ spent \in Purses /\ air \subseteq Frames
           /\ chat[d].history \in Histories /\ (\A m \in chat[d].history : m \in Entries /\ m.at <= clock)
           /\ OneEntry(chat[d].history)
           /\ Watched(d, chat[d], shown[d], taps, clock) /\ Lined(chat[d], clock)
           /\ (\A k \in kept[d] : Stays(chat[d], k)) /\ Allowed(chat[d].allowance, arrived[d], clock)
<1>1. /\ chat[d] \in ChatsOf /\ shown[d] \in Showings /\ kept[d] \in Keeps /\ arrived[d] \in Arrivals
      /\ taps \in TapSets /\ clock \in Ticks /\ spent \in Purses /\ air \subseteq Frames
  BY DEF RetInv, RetTypes
<1>2. chat[d].history \in Histories /\ clock \in Nat /\ \A m \in chat[d].history : m \in Entries
  BY <1>1, TickIs DEF ChatsOf, Histories
<1>3. /\ Watched(d, chat[d], shown[d], taps, clock) /\ Lined(chat[d], clock)
      /\ (\A k \in kept[d] : Stays(chat[d], k)) /\ Allowed(chat[d].allowance, arrived[d], clock)
  BY DEF RetInv, DeviceOK
<1>4. OneEntry(chat[d].history) /\ \A m \in chat[d].history : m.at <= clock
  BY <1>3 DEF Watched, OneEntry
<1>5. QED BY <1>1, <1>2, <1>3, <1>4

\* A step of device d that leaves the other one alone.
LEMMA DeviceAlone ==
    ASSUME RetInv, NEW d \in Devices, NEW C \in ChatsOf, NEW S \in Showings, NEW K \in Keeps, NEW W \in Arrivals,
           chat' = [chat EXCEPT ![d] = C], shown' = [shown EXCEPT ![d] = S],
           kept' = [kept EXCEPT ![d] = K], arrived' = [arrived EXCEPT ![d] = W], clock' = clock,
           taps' \in TapSets, \A e \in Devices \ {d} : SameTaps(e, taps, taps'),
           air' \subseteq Frames, spent' \in Purses, OnceSent',
           Watched(d, C, S, taps', clock), Lined(C, clock), \A k \in K : Stays(C, k),
           Allowed(C.allowance, W, clock)
    PROVE  RetInv'
<1>1. RetTypes'
  BY DEF RetInv, RetTypes
<1>2. /\ chat'[d] = C /\ shown'[d] = S /\ kept'[d] = K /\ arrived'[d] = W
      /\ \A e \in Devices \ {d} : chat'[e] = chat[e] /\ shown'[e] = shown[e] /\ kept'[e] = kept[e] /\ arrived'[e] = arrived[e]
  BY DEF RetInv, RetTypes
<1>3. DeviceOK(d, chat'[d], shown'[d], taps', kept'[d], arrived'[d], clock')
  BY <1>2 DEF DeviceOK
<1>4. ASSUME NEW e \in Devices \ {d}
      PROVE  DeviceOK(e, chat'[e], shown'[e], taps', kept'[e], arrived'[e], clock')
  <2>1. /\ chat[e] \in ChatsOf /\ shown[e] \in Showings /\ taps \in TapSets /\ clock \in Ticks /\ clock \in Nat
        /\ Watched(e, chat[e], shown[e], taps, clock) /\ Lined(chat[e], clock)
        /\ (\A k \in kept[e] : Stays(chat[e], k)) /\ Allowed(chat[e].allowance, arrived[e], clock)
    BY DeviceIs
  <2>2. SameTaps(e, taps, taps') /\ clock <= clock
    BY <2>1
  <2>3. PICK q \in TapSets : q = taps'
    OBVIOUS
  <2>4. Watched(e, chat[e], shown[e], q, clock)
    BY <2>1, <2>2, <2>3, WatchedLess
  <2>5. QED BY <1>2, <2>1, <2>3, <2>4 DEF DeviceOK
<1>5. \A e \in Devices : DeviceOK(e, chat'[e], shown'[e], taps', kept'[e], arrived'[e], clock')
  BY <1>3, <1>4
<1>6. QED BY <1>1, <1>5 DEF RetInv

\* The frames.
LEMMA FrameIs ==
    \A f \in Frames :
        /\ f.to \in Devices /\ f.kind \in {"text", "timer", "storage", "viewed"}
        /\ f.kind = "text" => f.id \in Texts /\ f.burn \in Nat
        /\ f.kind = "timer" => f.secs \in Nat
        /\ f.kind = "storage" => f.on \in BOOLEAN
BY DEF Frames

\* Nothing new is sent, and what is new to a device stays new to it.
LEMMA OnceStays ==
    ASSUME RetInv, spent'.texts = spent.texts, \A f \in air' : f.kind = "text" => f \in air,
           \A d \in Devices, id \in Texts : Unread(d, id) => Unread(d, id)'
    PROVE  OnceSent'
<1>1. OnceSent /\ air \subseteq Frames /\ spent.texts \subseteq Texts
  BY DEF RetInv, RetTypes, Purses
<1>2. \A id \in spent'.texts : \A d \in Devices : Unread(d, id)'
  BY <1>1 DEF OnceSent
<1>3. ASSUME NEW f \in air', f.kind = "text"
      PROVE  /\ f.id \notin spent'.texts /\ Unread(f.to, f.id)'
             /\ \A g \in air' : g.kind = "text" /\ g.id = f.id => g = f
  <2>1. f \in air /\ f.to \in Devices /\ f.id \in Texts
    BY <1>1, <1>3, FrameIs
  <2>2. Unread(f.to, f.id)
    BY <1>1, <1>3, <2>1 DEF OnceSent
  <2>3. QED BY <1>1, <1>3, <2>1, <2>2 DEF OnceSent
<1>4. QED BY <1>2, <1>3 DEF OnceSent

\* A step of device d that sends and gets no text.
LEMMA DeviceQuiet ==
    ASSUME RetInv, NEW d \in Devices, NEW C \in ChatsOf, NEW S \in Showings, NEW W \in Arrivals,
           chat' = [chat EXCEPT ![d] = C], shown' = [shown EXCEPT ![d] = S], kept' = kept,
           arrived' = [arrived EXCEPT ![d] = W], clock' = clock,
           taps' \in TapSets, \A e \in Devices \ {d} : SameTaps(e, taps, taps'),
           air' \subseteq Frames, \A f \in air' : f.kind = "text" => f \in air,
           spent' \in Purses, spent'.texts = spent.texts,
           \A id \in Texts : Unread(d, id) => S[id] = Never,
           \A m \in C.history : \E n \in chat[d].history : n.id = m.id,
           Watched(d, C, S, taps', clock), Lined(C, clock), \A k \in kept[d] : Stays(C, k),
           Allowed(C.allowance, W, clock)
    PROVE  RetInv'
<1>1. chat \in [Devices -> ChatsOf] /\ shown \in [Devices -> Showings] /\ kept \in [Devices -> Keeps]
  BY DEF RetInv, RetTypes
<1>2. ASSUME NEW e \in Devices, NEW id \in Texts, Unread(e, id) PROVE Unread(e, id)'
  <2>1. CASE e = d
    BY <1>1, <1>2, <2>1 DEF Unread
  <2>2. CASE e # d
    BY <1>1, <1>2, <2>2 DEF Unread
  <2>3. QED BY <2>1, <2>2
<1>3. OnceSent'
  BY <1>2, OnceStays
<1>4. kept[d] \in Keeps /\ kept' = [kept EXCEPT ![d] = kept[d]]
  BY <1>1
<1>5. QED BY <1>3, <1>4, DeviceAlone

-----------------------------------------------------------------------------
(* The steps.                                                              *)

\* A fresh window in which nothing arrived.
LEMMA FreshIsAllowed ==
    ASSUME NEW w \in Arrivals, \A t \in Ticks : w[t] = 0, NEW now \in Nat
    PROVE  FreshAllowance(0) \in Allowances /\ Allowed(FreshAllowance(0), w, now)
<1>1. FreshAllowance(0).start = 0 /\ FreshAllowance(0).messages = 0 /\ FreshAllowance(0) \in Allowances
  BY DEF FreshAllowance, Allowances
<1>2. ASSUME NEW S \in TickSets PROVE Total(S, w) = 0
  BY NothingArrived DEF TickSets
<1>3. Total(Since(0), w) = 0 /\ \A t \in Ticks : Total(Span(t, t + RelayKeeps), w) = 0 /\ Total(Span(t, 0), w) = 0
  BY <1>2, SpanIs, TickIs, RetentionAssumption
<1> HIDE DEF FreshAllowance
<1>4. QED BY <1>1, <1>3, RetentionAssumption DEF Allowed

\* The invariant holds when both devices start.
LEMMA RetStarts ==
    ASSUME RetInit
    PROVE  RetInv
<1> DEFINE c0 == [up |-> TRUE, pumped |-> FALSE, timer |-> 0, storage |-> FALSE, timerLine |-> <<>>,
                  storageLine |-> <<>>, history |-> {}, receipts |-> FALSE, allowance |-> FreshAllowance(0)]
           s0 == [id \in Texts |-> Never]
           w0 == [t \in 0 .. MaxClock |-> 0]
<1>1. c0 \in ChatsOf /\ s0 \in Showings /\ w0 \in Arrivals /\ 0 \in Ticks
  BY RetentionAssumption DEF ChatsOf, Showings, Arrivals, Ticks, Never, FreshAllowance, Allowances, Histories
<1>2. /\ clock = 0 /\ air = {} /\ taps = {} /\ kept = [d \in Devices |-> {}]
      /\ chat = [d \in Devices |-> c0] /\ shown = [d \in Devices |-> s0] /\ arrived = [d \in Devices |-> w0]
      /\ spent \in {[c EXCEPT !.texts = Texts] : c \in RetCases}
  BY DEF RetInit
<1>3. spent \in Purses /\ spent.texts = Texts
  <2>1. PICK c \in RetCases : spent = [c EXCEPT !.texts = Texts]
    BY <1>2
  <2>2. c \in [texts : {{}}, burns : SUBSET Nat, timers : SUBSET Nat, switches : SUBSET BOOLEAN,
               changes : Nat, reboots : Nat, senders : SUBSET {"a", "b"}, changers : SUBSET {"a", "b"},
               losses : BOOLEAN, receipts : BOOLEAN]
    BY RetentionAssumption
  <2>3. QED BY <2>1, <2>2 DEF Purses, Devices
<1>c. c0.timerLine = <<>> /\ c0.storageLine = <<>> /\ c0.timer = 0 /\ c0.storage = FALSE /\ c0.history = {}
      /\ c0.allowance = FreshAllowance(0)
  OBVIOUS
<1>s. (\A id \in Texts : s0[id] = Never) /\ \A t \in Ticks : w0[t] = 0
  BY DEF Ticks
<1> HIDE DEF c0, s0, w0
<1>4. RetTypes
  BY <1>1, <1>2, <1>3 DEF RetTypes, TapSets, Keeps
<1>5. OnceSent
  BY <1>1, <1>2, <1>3, <1>c, <1>s DEF OnceSent, Unread
<1>6. Watched("a", c0, s0, {}, 0) /\ Watched("b", c0, s0, {}, 0)
  BY <1>c, <1>s DEF Watched
<1>7. Lined(c0, 0)
  BY <1>c DEF Lined
<1>8. Allowed(c0.allowance, w0, 0)
  BY <1>1, <1>c, <1>s, FreshIsAllowed
<1>9. \A d \in Devices : DeviceOK(d, chat[d], shown[d], taps, kept[d], arrived[d], clock)
  BY <1>2, <1>6, <1>7, <1>8 DEF DeviceOK, Devices
<1>10. QED BY <1>4, <1>5, <1>9 DEF RetInv

\* Never is a number: shown times and view times share one type.
LEMMA NeverIs == Never \in Nat
BY TickIs DEF Never

\* A message of the user's own: its id was fresh, so no device held it.
LEMMA SentKept ==
    ASSUME RetInv, NEW d \in Devices, NEW id \in Texts, NEW burn \in Nat, NEW q \in {"sent", "queued"},
           SendText(d, id, burn, q)
    PROVE  RetInv'
<1> DEFINE x == Entry(id, TRUE, burn, q)
           K == IF burn = 0 /\ Unmarked(chat[d]) THEN kept[d] \cup {<<id, clock>>} ELSE kept[d]
           f == [kind |-> "text", to |-> Peer(d), id |-> id, burn |-> burn]
<1>1. /\ id \in spent.texts /\ air' = air \cup {f} /\ spent' = [spent EXCEPT !.texts = @ \ {id}]
      /\ chat' = [chat EXCEPT ![d].history = @ \cup {x}] /\ kept' = [kept EXCEPT ![d] = K]
      /\ UNCHANGED <<clock, taps, shown, arrived>>
  BY DEF SendText
<1>2. /\ chat[d] \in ChatsOf /\ shown[d] \in Showings /\ kept[d] \in Keeps /\ arrived[d] \in Arrivals
      /\ taps \in TapSets /\ clock \in Ticks /\ clock \in Nat /\ spent \in Purses /\ air \subseteq Frames
      /\ chat[d].history \in Histories
      /\ Watched(d, chat[d], shown[d], taps, clock) /\ Lined(chat[d], clock)
      /\ (\A k \in kept[d] : Stays(chat[d], k)) /\ Allowed(chat[d].allowance, arrived[d], clock)
  BY DeviceIs
<1>3. x \in Entries /\ x.id = id /\ x.at = clock /\ x.burn = burn /\ x.viewed = Never
  BY <1>2, NeverIs DEF Entry, Entries
<1> HIDE DEF x
<1>4. PICK C \in ChatsOf : C = [chat[d] EXCEPT !.history = @ \cup {x}]
  BY <1>2, <1>3 DEF ChatsOf, Histories
<1>5. /\ C.history = chat[d].history \cup {x} /\ C.up = chat[d].up /\ C.pumped = chat[d].pumped
      /\ C.timer = chat[d].timer /\ C.storage = chat[d].storage /\ C.timerLine = chat[d].timerLine
      /\ C.storageLine = chat[d].storageLine /\ C.allowance = chat[d].allowance
  BY <1>2, <1>4 DEF ChatsOf
<1>6. Unread(d, id) /\ Unread(Peer(d), id) /\ Peer(d) \in Devices /\ Peer(d) # d
  BY <1>1 DEF RetInv, OnceSent, Peer, Devices
<1>7. Watched(d, C, shown[d], taps, clock)
  <2>1. shown[d][x.id] = Never /\ \A m \in chat[d].history : m.id # x.id
    BY <1>3, <1>6 DEF Unread
  <2>2. QED BY <1>2, <1>3, <1>5, <2>1, WatchedAdded
<1>8. K \in Keeps
  BY <1>2 DEF Keeps
<1>9. K = kept[d] \/ (x.burn = 0 /\ Unmarked(chat[d]) /\ K = kept[d] \cup {<<x.id, clock>>})
  BY <1>3
<1> HIDE DEF K
<1>10. Lined(C, clock) /\ \A k \in K : Stays(C, k)
  BY <1>2, <1>3, <1>5, <1>8, <1>9, StaysAdded
<1>11. f \in Frames /\ f.kind = "text" /\ f.id = id /\ f.to = Peer(d)
  BY <1>6 DEF Frames
<1> HIDE DEF f
<1>12. spent' \in Purses /\ spent'.texts = spent.texts \ {id}
  BY <1>1, <1>2 DEF Purses
<1>13. chat' = [chat EXCEPT ![d] = C] /\ shown' = shown
  BY <1>1, <1>4
<1>14. chat \in [Devices -> ChatsOf]
  BY DEF RetInv, RetTypes
<1>15. ASSUME NEW e \in Devices, NEW i \in Texts, Unread(e, i), e # d \/ i # id PROVE Unread(e, i)'
  BY <1>3, <1>5, <1>13, <1>14, <1>15 DEF Unread
<1>16. OnceSent'
  <2>1. ASSUME NEW i \in spent'.texts, NEW e \in Devices PROVE Unread(e, i)'
    <3>1. i # id /\ i \in spent.texts /\ i \in Texts
      BY <1>2, <1>12 DEF Purses
    <3>2. QED BY <1>15, <3>1 DEF RetInv, OnceSent
  <2>2. ASSUME NEW g \in air, g.kind = "text"
        PROVE  g.id \notin spent'.texts /\ Unread(g.to, g.id)' /\ g.id # id
    <3>1. g.id \notin spent.texts /\ Unread(g.to, g.id) /\ g.to \in Devices /\ g.id \in Texts
      BY <1>2, <2>2, FrameIs DEF RetInv, OnceSent
    <3>2. g.id # id
      BY <1>1, <3>1
    <3>3. QED BY <1>12, <1>15, <3>1, <3>2
  <2>3. f.id \notin spent'.texts /\ Unread(f.to, f.id)'
    BY <1>6, <1>11, <1>12, <1>15
  <2>4. ASSUME NEW g \in air', g.kind = "text", NEW h \in air', h.kind = "text", g.id = h.id PROVE h = g
    <3>1. CASE g = f \/ h = f
      BY <1>1, <1>11, <2>2, <2>4, <3>1
    <3>2. CASE g \in air /\ h \in air
      BY <2>4, <3>2 DEF RetInv, OnceSent
    <3>3. QED BY <1>1, <3>1, <3>2
  <2>5. QED BY <1>1, <2>1, <2>2, <2>3, <2>4 DEF OnceSent
<1>17. /\ shown' = [shown EXCEPT ![d] = shown[d]] /\ arrived' = [arrived EXCEPT ![d] = arrived[d]]
       /\ taps' \in TapSets /\ \A e \in Devices \ {d} : SameTaps(e, taps, taps')
  BY <1>1, <1>2 DEF RetInv, RetTypes, SameTaps
<1>18. air' \subseteq Frames /\ taps' = taps /\ clock' = clock /\ kept' = [kept EXCEPT ![d] = K]
  BY <1>1, <1>2, <1>11
<1>19. Watched(d, C, shown[d], taps', clock) /\ Allowed(C.allowance, arrived[d], clock)
  BY <1>2, <1>5, <1>7, <1>18
<1>20. QED
  BY ONLY RetInv, d \in Devices, C \in ChatsOf, <1>2, <1>8, <1>10, <1>12, <1>13, <1>16, <1>17, <1>18, <1>19, DeviceAlone

\* What a step of d that puts C, S and W in place needs, when no text moves.
Quietly(d, C, S, W) ==
    /\ chat' = [chat EXCEPT ![d] = C] /\ shown' = [shown EXCEPT ![d] = S] /\ kept' = kept
    /\ arrived' = [arrived EXCEPT ![d] = W] /\ clock' = clock

\* A step that leaves the taps alone.
LEMMA NoTap ==
    ASSUME RetInv, UNCHANGED taps
    PROVE  taps' \in TapSets /\ \A e \in Devices : SameTaps(e, taps, taps')
BY DEF RetInv, RetTypes, SameTaps

\* A step that leaves a device alone writes back what it had.
LEMMA Same ==
    ASSUME RetInv, NEW d \in Devices
    PROVE  /\ chat = [chat EXCEPT ![d] = chat[d]] /\ shown = [shown EXCEPT ![d] = shown[d]]
           /\ arrived = [arrived EXCEPT ![d] = arrived[d]]
BY DEF RetInv, RetTypes

\* A switch of the timer or of server storage, by its user or by a frame: the line grows.
LEMMA SwitchKept ==
    ASSUME RetInv, NEW d \in Devices, NEW C \in ChatsOf, NEW W \in Arrivals, Quietly(d, C, shown[d], W),
           UNCHANGED taps, air' \subseteq Frames, \A f \in air' : f.kind = "text" => f \in air,
           spent' \in Purses, spent'.texts = spent.texts,
           C.history = chat[d].history, C.up = chat[d].up, C.pumped = chat[d].pumped,
           NEW x \in Timers, x.changed = clock, NEW y \in Switches, y.changed = clock,
           \/ /\ C.timerLine = Append(chat[d].timerLine, x) /\ C.timer = x.value
              /\ C.storageLine = chat[d].storageLine /\ C.storage = chat[d].storage
           \/ /\ C.storageLine = Append(chat[d].storageLine, y) /\ C.storage = y.value
              /\ C.timerLine = chat[d].timerLine /\ C.timer = chat[d].timer,
           Allowed(C.allowance, W, clock)
    PROVE  RetInv'
<1>1. /\ chat[d] \in ChatsOf /\ shown[d] \in Showings /\ taps \in TapSets /\ clock \in Ticks /\ clock \in Nat
      /\ (\A m \in chat[d].history : m.at <= clock)
      /\ Watched(d, chat[d], shown[d], taps, clock) /\ Lined(chat[d], clock)
      /\ (\A k \in kept[d] : Stays(chat[d], k))
  BY DeviceIs
<1>2. Lined(C, clock) /\ \A k \in kept[d] : Stays(C, k)
  BY <1>1, StaysSwitched
<1>3. taps' \in TapSets /\ taps' = taps /\ \A e \in Devices : SameTaps(e, taps, taps')
  BY NoTap
<1>4. Watched(d, C, shown[d], taps', clock)
  <2>1. SameTaps(d, taps, taps) /\ clock <= clock
    BY <1>1, <1>3
  <2>2. Watched(d, C, shown[d], taps, clock)
    BY <1>1, <2>1, WatchedLess
  <2>3. QED BY <1>3, <2>2
<1>5. /\ \A m \in C.history : \E n \in chat[d].history : n.id = m.id
      /\ \A id \in Texts : Unread(d, id) => shown[d][id] = Never
  BY DEF Unread
<1>6. QED
  BY <1>1, <1>2, <1>3, <1>4, <1>5, DeviceQuiet DEF Quietly

\* A step that leaves the lines and what is kept as they are.
LEMMA QuietKept ==
    ASSUME RetInv, NEW d \in Devices, NEW C \in ChatsOf, NEW S \in Showings, NEW W \in Arrivals,
           Quietly(d, C, S, W), C.timerLine = chat[d].timerLine, C.storageLine = chat[d].storageLine,
           C.timer = chat[d].timer, C.storage = chat[d].storage,
           taps' \in TapSets, \A e \in Devices \ {d} : SameTaps(e, taps, taps'),
           air' \subseteq Frames, \A f \in air' : f.kind = "text" => f \in air,
           spent' \in Purses, spent'.texts = spent.texts,
           \A id \in Texts : Unread(d, id) => S[id] = Never,
           \A m \in C.history : \E n \in chat[d].history : n.id = m.id,
           \A m \in chat[d].history :
              m.burn = 0 /\ TimerAt(chat[d].timerLine, m.at) = 0 /\ StorageOnAt(chat[d].storageLine, m.at) = FALSE
                 => \E x \in C.history : x.id = m.id /\ x.at = m.at /\ x.burn = 0,
           Watched(d, C, S, taps', clock), Allowed(C.allowance, W, clock)
    PROVE  RetInv'
<1>1. Lined(chat[d], clock) /\ \A k \in kept[d] : Stays(chat[d], k)
  BY DeviceIs
<1>2. Lined(C, clock)
  BY <1>1 DEF Lined
<1>3. ASSUME NEW k \in kept[d] PROVE Stays(C, k)
  BY <1>1, StaysKept
<1>4. QED
  BY <1>2, <1>3, DeviceQuiet DEF Quietly

\* A setting that the user changes, or the view receipts.
LEMMA SettingKept ==
    ASSUME RetInv, NEW d \in Devices,
           \/ \E secs \in Nat : SetDisappearing(d, secs)
           \/ \E on \in BOOLEAN : SetRemoteStorage(d, on)
           \/ SetBurnReceipts(d)
    PROVE  RetInv'
<1>1. /\ chat[d] \in ChatsOf /\ shown[d] \in Showings /\ arrived[d] \in Arrivals
      /\ taps \in TapSets /\ clock \in Ticks /\ clock \in Nat /\ spent \in Purses /\ air \subseteq Frames
      /\ chat[d].history \in Histories /\ Watched(d, chat[d], shown[d], taps, clock)
      /\ Allowed(chat[d].allowance, arrived[d], clock)
  BY DeviceIs
<1>2. Peer(d) \in Devices
  BY DEF Peer, Devices
<1>3. CASE \E secs \in Nat : SetDisappearing(d, secs)
  <2>1. PICK secs \in Nat : SetDisappearing(d, secs)
    BY <1>3
  <2>2. PICK x \in Timers : x = [changed |-> clock, value |-> secs]
    BY <1>1 DEF Timers
  <2>3. PICK C \in ChatsOf : C = [chat[d] EXCEPT !.timer = secs, !.timerLine = Append(@, x)]
    <3>1. chat[d].timerLine \in Seq(Timers)
      BY <1>1 DEF ChatsOf
    <3>2. PICK L \in Seq(Timers) : L = Append(chat[d].timerLine, x)
      <4>1. ASSUME NEW T, NEW s \in Seq(T), NEW z \in T PROVE Append(s, z) \in Seq(T)
        OBVIOUS
      <4>2. QED BY <3>1, <4>1
    <3>3. [chat[d] EXCEPT !.timer = secs, !.timerLine = L] \in ChatsOf
      BY <1>1 DEF ChatsOf
    <3>4. QED BY <3>2, <3>3
  <2>4. PICK f \in Frames : f = [kind |-> "timer", to |-> Peer(d), secs |-> secs, nth |-> spent.changes]
    BY <1>1, <1>2 DEF Frames, Purses
  <2>5. /\ chat' = [chat EXCEPT ![d] = C] /\ air' = air \cup {f}
        /\ spent' = [spent EXCEPT !.changes = @ - 1] /\ spent.changes > 0
        /\ UNCHANGED <<clock, taps, shown, kept, arrived>>
    BY <2>1, <2>2, <2>3, <2>4 DEF SetDisappearing
  <2>6. /\ C.history = chat[d].history /\ C.up = chat[d].up /\ C.pumped = chat[d].pumped
        /\ C.timerLine = Append(chat[d].timerLine, x) /\ C.timer = x.value /\ x.changed = clock
        /\ C.storageLine = chat[d].storageLine /\ C.storage = chat[d].storage /\ C.allowance = chat[d].allowance
    BY <1>1, <2>2, <2>3 DEF ChatsOf
  <2>7. spent' \in Purses /\ spent'.texts = spent.texts
    BY <1>1, <2>5 DEF Purses
  <2>8. air' \subseteq Frames /\ (\A g \in air' : g.kind = "text" => g \in air) /\ UNCHANGED taps
    BY <1>1, <2>4, <2>5
  <2>9. Quietly(d, C, shown[d], arrived[d])
    BY <2>5, Same DEF Quietly
  <2>10. PICK y \in Switches : y = [changed |-> clock, value |-> TRUE]
    BY <1>1 DEF Switches
  <2>11. y.changed = clock /\ Allowed(C.allowance, arrived[d], clock)
    BY <1>1, <2>6, <2>10
  <2>12. QED
    BY ONLY RetInv, d \in Devices, C \in ChatsOf, x \in Timers, y \in Switches, <1>1, <2>6, <2>7, <2>8, <2>9, <2>11, SwitchKept
<1>4. CASE \E on \in BOOLEAN : SetRemoteStorage(d, on)
  <2>1. PICK on \in BOOLEAN : SetRemoteStorage(d, on)
    BY <1>4
  <2>2. PICK y \in Switches : y = [changed |-> clock, value |-> on]
    BY <1>1 DEF Switches
  <2>3. PICK C \in ChatsOf : C = [chat[d] EXCEPT !.storage = on, !.storageLine = Append(@, y)]
    <3>1. chat[d].storageLine \in Seq(Switches)
      BY <1>1 DEF ChatsOf
    <3>2. PICK L \in Seq(Switches) : L = Append(chat[d].storageLine, y)
      <4>1. ASSUME NEW T, NEW s \in Seq(T), NEW z \in T PROVE Append(s, z) \in Seq(T)
        OBVIOUS
      <4>2. QED BY <3>1, <4>1
    <3>3. [chat[d] EXCEPT !.storage = on, !.storageLine = L] \in ChatsOf
      BY <1>1 DEF ChatsOf
    <3>4. QED BY <3>2, <3>3
  <2>4. PICK f \in Frames : f = [kind |-> "storage", to |-> Peer(d), on |-> on, nth |-> spent.changes]
    BY <1>1, <1>2 DEF Frames, Purses
  <2>5. /\ chat' = [chat EXCEPT ![d] = C] /\ air' = air \cup {f}
        /\ spent' = [spent EXCEPT !.changes = @ - 1] /\ spent.changes > 0
        /\ UNCHANGED <<clock, taps, shown, kept, arrived>>
    BY <2>1, <2>2, <2>3, <2>4 DEF SetRemoteStorage
  <2>6. /\ C.history = chat[d].history /\ C.up = chat[d].up /\ C.pumped = chat[d].pumped
        /\ C.storageLine = Append(chat[d].storageLine, y) /\ C.storage = y.value /\ y.changed = clock
        /\ C.timerLine = chat[d].timerLine /\ C.timer = chat[d].timer /\ C.allowance = chat[d].allowance
    BY <1>1, <2>2, <2>3 DEF ChatsOf
  <2>7. spent' \in Purses /\ spent'.texts = spent.texts
    BY <1>1, <2>5 DEF Purses
  <2>8. air' \subseteq Frames /\ (\A g \in air' : g.kind = "text" => g \in air) /\ UNCHANGED taps
    BY <1>1, <2>4, <2>5
  <2>9. Quietly(d, C, shown[d], arrived[d])
    BY <2>5, Same DEF Quietly
  <2>10. PICK x \in Timers : x = [changed |-> clock, value |-> 0]
    BY <1>1 DEF Timers
  <2>11. x.changed = clock /\ Allowed(C.allowance, arrived[d], clock)
    BY <1>1, <2>6, <2>10
  <2>12. QED
    BY ONLY RetInv, d \in Devices, C \in ChatsOf, x \in Timers, y \in Switches, <1>1, <2>6, <2>7, <2>8, <2>9, <2>11, SwitchKept
<1>5. CASE SetBurnReceipts(d)
  <2>1. PICK C \in ChatsOf : C = [chat[d] EXCEPT !.receipts = TRUE]
    BY <1>1 DEF ChatsOf
  <2>2. chat' = [chat EXCEPT ![d] = C] /\ UNCHANGED <<clock, air, taps, shown, kept, arrived, spent>>
    BY <1>5, <2>1 DEF SetBurnReceipts
  <2>3. /\ C.history = chat[d].history /\ C.up = chat[d].up /\ C.pumped = chat[d].pumped
        /\ C.timerLine = chat[d].timerLine /\ C.timer = chat[d].timer
        /\ C.storageLine = chat[d].storageLine /\ C.storage = chat[d].storage /\ C.allowance = chat[d].allowance
    BY <1>1, <2>1 DEF ChatsOf
  <2>4. taps' = taps /\ air' = air /\ spent' = spent
    BY <2>2
  <2>5. taps' \in TapSets /\ \A e \in Devices : SameTaps(e, taps, taps')
    BY <2>4, NoTap
  <2>6. Watched(d, C, shown[d], taps, clock)
    <3>1. SameTaps(d, taps, taps) /\ clock <= clock /\ C.history \subseteq chat[d].history
      BY <1>1, <2>3, <2>4, <2>5
    <3>2. QED BY <1>1, <2>3, <3>1, WatchedLess
  <2>7. Quietly(d, C, shown[d], arrived[d])
    BY <2>2, Same DEF Quietly
  <2>8. /\ \A m \in C.history : \E n \in chat[d].history : n.id = m.id
        /\ \A id \in Texts : Unread(d, id) => shown[d][id] = Never
        /\ \A m \in chat[d].history :
              m.burn = 0 /\ TimerAt(chat[d].timerLine, m.at) = 0 /\ StorageOnAt(chat[d].storageLine, m.at) = FALSE
                 => \E x \in C.history : x.id = m.id /\ x.at = m.at /\ x.burn = 0
    BY <2>3 DEF Unread
  <2>9. Watched(d, C, shown[d], taps', clock) /\ Allowed(C.allowance, arrived[d], clock)
    BY <1>1, <2>3, <2>4, <2>6
  <2>10. air' \subseteq Frames /\ (\A g \in air' : g.kind = "text" => g \in air) /\ spent' \in Purses /\ spent'.texts = spent.texts
    BY <1>1, <2>4
  <2>11. QED
    BY ONLY RetInv, d \in Devices, C \in ChatsOf, <1>1, <2>3, <2>5, <2>7, <2>8, <2>9, <2>10, QuietKept
<1>6. QED BY <1>3, <1>4, <1>5

\* The first showing of a message starts its time; later ones change nothing.
LEMMA RevealKept ==
    ASSUME RetInv, NEW d \in Devices, NEW id \in Texts, Reveal(d, id)
    PROVE  RetInv'
<1>1. /\ chat[d] \in ChatsOf /\ shown[d] \in Showings /\ arrived[d] \in Arrivals
      /\ taps \in TapSets /\ clock \in Ticks /\ clock \in Nat /\ spent \in Purses /\ air \subseteq Frames
      /\ chat[d].history \in Histories /\ Watched(d, chat[d], shown[d], taps, clock)
      /\ Allowed(chat[d].allowance, arrived[d], clock)
  BY DeviceIs
<1>2. /\ \E m \in chat[d].history : m.id = id /\ m.burn > 0 /\ ~m.mine
      /\ ~\E t \in taps : t[1] = d /\ t[2] = id
      /\ taps' = taps \cup {<<d, id, clock>>}
      /\ shown' = [shown EXCEPT ![d][id] = IF @ = Never THEN clock ELSE @]
      /\ UNCHANGED <<clock, chat, air, kept, arrived, spent>>
  BY DEF Reveal
<1>3. PICK S \in Showings : S = [shown[d] EXCEPT ![id] = IF @ = Never THEN clock ELSE @]
  BY <1>1 DEF Showings
<1>4. shown' = [shown EXCEPT ![d] = S]
  BY <1>2, <1>3
<1>5. PICK q \in TapSets : q = taps \cup {<<d, id, clock>>}
  <2>1. <<d, id, clock>> \in Taps
    BY <1>1 DEF Taps
  <2>2. taps \cup {<<d, id, clock>>} \in TapSets
    BY <1>1, <2>1 DEF TapSets
  <2>3. QED BY <2>2
<1>6. Watched(d, chat[d], S, q, clock)
  BY <1>1, <1>2, <1>3, <1>5, WatchedShown
<1>7. taps' = q /\ air' = air /\ spent' = spent
  BY <1>2, <1>5
<1>8. ASSUME NEW e \in Devices \ {d} PROVE SameTaps(e, taps, taps')
  <2>1. <<d, id, clock>>[1] = d
    OBVIOUS
  <2>2. QED BY <1>5, <1>7, <2>1 DEF SameTaps
<1>9. Quietly(d, chat[d], S, arrived[d])
  BY <1>2, <1>4, Same DEF Quietly
<1>10. ASSUME NEW i \in Texts, Unread(d, i) PROVE S[i] = Never
  <2>1. i # id
    BY <1>2, <1>10 DEF Unread
  <2>2. S[i] = shown[d][i]
    BY <1>1, <1>3, <2>1 DEF Showings
  <2>3. QED BY <1>10, <2>2 DEF Unread
<1>11. /\ \A m \in chat[d].history : \E n \in chat[d].history : n.id = m.id
       /\ \A m \in chat[d].history :
             m.burn = 0 /\ TimerAt(chat[d].timerLine, m.at) = 0 /\ StorageOnAt(chat[d].storageLine, m.at) = FALSE
                => \E x \in chat[d].history : x.id = m.id /\ x.at = m.at /\ x.burn = 0
  OBVIOUS
<1>12. Watched(d, chat[d], S, taps', clock) /\ taps' \in TapSets
  BY <1>6, <1>7
<1>13. air' \subseteq Frames /\ (\A g \in air' : g.kind = "text" => g \in air) /\ spent' \in Purses /\ spent'.texts = spent.texts
  BY <1>1, <1>7
<1>14. QED
  BY ONLY RetInv, d \in Devices, S \in Showings, <1>1, <1>8, <1>9, <1>10, <1>11, <1>12, <1>13, QuietKept

\* The call of a tap reaches the core: the message counts from the tap.
LEMMA ViewedKept ==
    ASSUME RetInv, NEW d \in Devices, NEW id \in Texts, NEW at \in Nat, MarkBurnViewed(d, id, at)
    PROVE  RetInv'
<1>1. /\ chat[d] \in ChatsOf /\ shown[d] \in Showings /\ arrived[d] \in Arrivals
      /\ taps \in TapSets /\ clock \in Ticks /\ clock \in Nat /\ spent \in Purses /\ air \subseteq Frames
      /\ chat[d].history \in Histories /\ (\A m \in chat[d].history : m \in Entries)
      /\ Watched(d, chat[d], shown[d], taps, clock)
      /\ Allowed(chat[d].allowance, arrived[d], clock)
  BY DeviceIs
<1>2. PICK old \in Histories : old = {m \in chat[d].history : m.id = id /\ m.burn > 0 /\ ~m.mine}
  BY <1>1 DEF Histories
<1>3. PICK H \in Histories :
         H = (chat[d].history \ old) \cup {[m EXCEPT !.viewed = ViewedFrom(m, at)] : m \in old}
  <2>1. ASSUME NEW m \in old PROVE [m EXCEPT !.viewed = ViewedFrom(m, at)] \in Entries
    <3>1. m \in Entries
      BY DEF Histories
    <3>2. ViewedFrom(m, at) \in Nat
      BY <1>1, <3>1 DEF ViewedFrom, Entries
    <3>3. QED BY <3>1, <3>2 DEF Entries
  <2>2. QED BY <1>1, <2>1 DEF Histories
<1>4. PICK C \in ChatsOf : C = [chat[d] EXCEPT !.pumped = FALSE, !.history = H]
  BY <1>1, <1>3 DEF ChatsOf
<1>5. /\ C.history = H /\ C.pumped = FALSE /\ C.timerLine = chat[d].timerLine /\ C.timer = chat[d].timer
      /\ C.storageLine = chat[d].storageLine /\ C.storage = chat[d].storage /\ C.allowance = chat[d].allowance
  BY <1>1, <1>4 DEF ChatsOf
<1>6. PICK f \in Frames : f = [kind |-> "viewed", to |-> Peer(d), id |-> id]
  <2>1. Peer(d) \in Devices
    BY DEF Peer, Devices
  <2>2. [kind |-> "viewed", to |-> Peer(d), id |-> id] \in Frames
    BY <2>1 DEF Frames
  <2>3. QED BY <2>2
<1>7. /\ <<d, id, at>> \in taps /\ taps' = taps \ {<<d, id, at>>}
      /\ chat' = [chat EXCEPT ![d] = C]
      /\ air' = air \/ air' = air \cup {f}
      /\ UNCHANGED <<clock, shown, kept, arrived, spent>>
  BY <1>2, <1>3, <1>4, <1>6 DEF MarkBurnViewed
<1>8. PICK q \in TapSets : q = taps \ {<<d, id, at>>}
  BY <1>1 DEF TapSets
<1>9. Watched(d, C, shown[d], q, clock)
  <2>1. ~C.pumped
    BY <1>5
  <2>2. C.history = (chat[d].history \ old) \cup {[m EXCEPT !.viewed = ViewedFrom(m, at)] : m \in old}
    BY <1>3, <1>5
  <2>3. QED
    BY ONLY RetInv, C \in ChatsOf, old \in Histories, q \in TapSets, id \in Texts, at \in Nat,
            <1>1, <1>2, <1>7, <1>8, <2>1, <2>2, WatchedViewed
<1>10. /\ \A m \in H : \E n \in chat[d].history : n.id = m.id
       /\ \A m \in chat[d].history : m.burn = 0 => m \in H
  <2>1. \A m \in old : [m EXCEPT !.viewed = ViewedFrom(m, at)].id = m.id
    BY DEF Histories, Entries
  <2>2. \A m \in H : m \in chat[d].history \ old \/ \E n \in old : m = [n EXCEPT !.viewed = ViewedFrom(n, at)]
    BY <1>3
  <2>3. \A m \in old : m \in chat[d].history /\ m.burn # 0
    BY <1>2
  <2>4. \A m \in chat[d].history : m \notin old => m \in H
    BY <1>3
  <2>5. QED BY <2>1, <2>2, <2>3, <2>4
<1>11. taps' = q /\ \A e \in Devices \ {d} : SameTaps(e, taps, taps')
  <2>1. <<d, id, at>>[1] = d
    OBVIOUS
  <2>2. QED BY <1>7, <1>8, <2>1 DEF SameTaps
<1>12. Quietly(d, C, shown[d], arrived[d])
  BY <1>7, Same DEF Quietly
<1>13. /\ \A m \in C.history : \E n \in chat[d].history : n.id = m.id
       /\ \A i \in Texts : Unread(d, i) => shown[d][i] = Never
       /\ \A m \in chat[d].history :
             m.burn = 0 /\ TimerAt(chat[d].timerLine, m.at) = 0 /\ StorageOnAt(chat[d].storageLine, m.at) = FALSE
                => \E x \in C.history : x.id = m.id /\ x.at = m.at /\ x.burn = 0
  BY <1>5, <1>10 DEF Unread
<1>14. /\ Watched(d, C, shown[d], taps', clock) /\ taps' \in TapSets
       /\ Allowed(C.allowance, arrived[d], clock)
  BY <1>1, <1>5, <1>9, <1>11
<1>15. air' \subseteq Frames /\ (\A g \in air' : g.kind = "text" => g \in air) /\ spent' \in Purses /\ spent'.texts = spent.texts
  BY <1>1, <1>6, <1>7
<1>16. QED
  BY ONLY RetInv, d \in Devices, C \in ChatsOf, <1>1, <1>5, <1>11, <1>12, <1>13, <1>14, <1>15, QuietKept

\* Both sweeps: they delete what is past its time and keep what was kept with no timer.
LEMMA SweepKept ==
    ASSUME RetInv, NEW d \in Devices, PumpSweep(d) \/ CadenceSweep(d)
    PROVE  RetInv'
<1>1. /\ chat[d] \in ChatsOf /\ shown[d] \in Showings /\ arrived[d] \in Arrivals
      /\ taps \in TapSets /\ clock \in Ticks /\ clock \in Nat /\ spent \in Purses /\ air \subseteq Frames
      /\ chat[d].history \in Histories /\ OneEntry(chat[d].history)
      /\ Watched(d, chat[d], shown[d], taps, clock)
      /\ Allowed(chat[d].allowance, arrived[d], clock)
  BY DeviceIs
<1>2. PICK H \in Histories :
         /\ chat' = [chat EXCEPT ![d].pumped = TRUE, ![d].history = H]
         /\ OneEntry(H)
         /\ \A x \in H : ~BurnDone(x, clock) /\ \E m \in chat[d].history : Descends(x, m)
         /\ \A m \in chat[d].history :
               m.burn = 0 /\ TimerAt(chat[d].timerLine, m.at) = 0 /\ StorageOnAt(chat[d].storageLine, m.at) = FALSE
                  => \E x \in H : x.id = m.id /\ x.at = m.at /\ x.burn = 0
  <2>1. CASE PumpSweep(d)
    <3>1. chat' = [chat EXCEPT ![d].pumped = TRUE, ![d].history = SweepBurns(chat[d].history, clock)]
      BY <2>1 DEF PumpSweep
    <3>2. /\ SweepBurns(chat[d].history, clock) \in Histories /\ OneEntry(SweepBurns(chat[d].history, clock))
          /\ \A x \in SweepBurns(chat[d].history, clock) : ~BurnDone(x, clock) /\ \E m \in chat[d].history : Descends(x, m)
          /\ \A m \in chat[d].history : m.burn = 0 => m \in SweepBurns(chat[d].history, clock)
      BY <1>1, BurnsSwept
    <3>3. QED BY <3>1, <3>2
  <2>2. CASE CadenceSweep(d)
    <3>1. chat' = [chat EXCEPT ![d].pumped = TRUE, ![d].history = SweepTime(chat[d], clock)]
      BY <2>2 DEF CadenceSweep
    <3>2. /\ SweepTime(chat[d], clock) \in Histories /\ OneEntry(SweepTime(chat[d], clock))
          /\ \A x \in SweepTime(chat[d], clock) : ~BurnDone(x, clock) /\ \E m \in chat[d].history : Descends(x, m)
          /\ \A m \in chat[d].history :
                m.burn = 0 /\ TimerAt(chat[d].timerLine, m.at) = 0 /\ StorageOnAt(chat[d].storageLine, m.at) = FALSE
                   => \E x \in SweepTime(chat[d], clock) : x.id = m.id /\ x.at = m.at /\ x.burn = 0
      BY <1>1, TimeSwept
    <3>3. QED BY <3>1, <3>2
  <2>3. QED BY <2>1, <2>2
<1>3. PICK C \in ChatsOf : C = [chat[d] EXCEPT !.pumped = TRUE, !.history = H]
  BY <1>1 DEF ChatsOf
<1>4. /\ C.history = H /\ C.timerLine = chat[d].timerLine /\ C.timer = chat[d].timer
      /\ C.storageLine = chat[d].storageLine /\ C.storage = chat[d].storage /\ C.allowance = chat[d].allowance
  BY <1>1, <1>3 DEF ChatsOf
<1>5. chat' = [chat EXCEPT ![d] = C] /\ UNCHANGED <<clock, air, taps, shown, kept, arrived, spent>>
  BY <1>2, <1>3 DEF PumpSweep, CadenceSweep
<1>6. Watched(d, C, shown[d], taps, clock)
  <2>1. OneEntry(C.history) /\ \A x \in C.history : ~BurnDone(x, clock) /\ \E m \in chat[d].history : Descends(x, m)
    BY <1>2, <1>4
  <2>2. QED BY <1>1, <2>1, WatchedSwept
<1>7. taps' = taps /\ air' = air /\ spent' = spent
  BY <1>5
<1>8. taps' \in TapSets /\ \A e \in Devices : SameTaps(e, taps, taps')
  BY <1>7, NoTap
<1>9. Quietly(d, C, shown[d], arrived[d])
  BY <1>5, Same DEF Quietly
<1>10. /\ \A m \in C.history : \E n \in chat[d].history : n.id = m.id
       /\ \A i \in Texts : Unread(d, i) => shown[d][i] = Never
       /\ \A m \in chat[d].history :
             m.burn = 0 /\ TimerAt(chat[d].timerLine, m.at) = 0 /\ StorageOnAt(chat[d].storageLine, m.at) = FALSE
                => \E x \in C.history : x.id = m.id /\ x.at = m.at /\ x.burn = 0
  BY <1>2, <1>4 DEF Unread, Descends
<1>11. Watched(d, C, shown[d], taps', clock) /\ Allowed(C.allowance, arrived[d], clock)
  BY <1>1, <1>4, <1>6, <1>7
<1>12. air' \subseteq Frames /\ (\A g \in air' : g.kind = "text" => g \in air) /\ spent' \in Purses /\ spent'.texts = spent.texts
  BY <1>1, <1>7
<1>13. QED
  BY ONLY RetInv, d \in Devices, C \in ChatsOf, <1>1, <1>4, <1>8, <1>9, <1>10, <1>11, <1>12, QuietKept

\* A frame that is lost.
LEMMA LossKept ==
    ASSUME RetInv, NEW f, LoseFrame(f)
    PROVE  RetInv'
<1> DEFINE d == "a"
<1>1. /\ chat[d] \in ChatsOf /\ shown[d] \in Showings /\ arrived[d] \in Arrivals
      /\ taps \in TapSets /\ clock \in Ticks /\ clock \in Nat /\ spent \in Purses /\ air \subseteq Frames
      /\ Watched(d, chat[d], shown[d], taps, clock) /\ Allowed(chat[d].allowance, arrived[d], clock)
  BY DeviceIs DEF Devices
<1>2. air' = air \ {f} /\ UNCHANGED <<clock, chat, taps, shown, kept, arrived, spent>>
  BY DEF LoseFrame
<1>3. d \in Devices
  BY DEF Devices
<1> HIDE DEF d
<1>4. taps' = taps /\ spent' = spent /\ Quietly(d, chat[d], shown[d], arrived[d])
  BY <1>2, <1>3, Same DEF Quietly
<1>5. taps' \in TapSets /\ \A e \in Devices : SameTaps(e, taps, taps')
  BY <1>4, NoTap
<1>6. air' \subseteq Frames /\ (\A g \in air' : g.kind = "text" => g \in air) /\ spent' \in Purses /\ spent'.texts = spent.texts
  BY <1>1, <1>2, <1>4
<1>7. Watched(d, chat[d], shown[d], taps', clock)
  BY <1>1, <1>4
<1>8. \A i \in Texts : Unread(d, i) => shown[d][i] = Never
  BY DEF Unread
<1>9. QED
  BY ONLY RetInv, <1>1, <1>3, <1>4, <1>5, <1>6, <1>7, <1>8, QuietKept

\* A kill takes the taps with it, and the showings of which the core never heard.
LEMMA KillKept ==
    ASSUME RetInv, NEW d \in Devices, KillDevice(d)
    PROVE  RetInv'
<1>1. /\ chat[d] \in ChatsOf /\ shown[d] \in Showings /\ arrived[d] \in Arrivals
      /\ taps \in TapSets /\ clock \in Ticks /\ clock \in Nat /\ spent \in Purses /\ air \subseteq Frames
      /\ chat[d].history \in Histories /\ Watched(d, chat[d], shown[d], taps, clock)
      /\ Allowed(chat[d].allowance, arrived[d], clock)
  BY DeviceIs
<1>2. PICK C \in ChatsOf : C = [chat[d] EXCEPT !.up = FALSE]
  BY <1>1 DEF ChatsOf
<1>3. /\ C.history = chat[d].history /\ ~C.up /\ C.timerLine = chat[d].timerLine /\ C.timer = chat[d].timer
      /\ C.storageLine = chat[d].storageLine /\ C.storage = chat[d].storage /\ C.allowance = chat[d].allowance
  BY <1>1, <1>2 DEF ChatsOf
<1>4. PICK S \in Showings :
         S = [id \in Texts |-> IF \E m \in chat[d].history : m.id = id /\ m.viewed = Never
                               THEN Never ELSE shown[d][id]]
  BY <1>1, NeverIs DEF Showings
<1>5. /\ taps' = {t \in taps : t[1] # d}
      /\ chat' = [chat EXCEPT ![d] = C] /\ shown' = [shown EXCEPT ![d] = S]
      /\ spent.reboots > 0 /\ spent' = [spent EXCEPT !.reboots = @ - 1]
      /\ UNCHANGED <<clock, air, kept, arrived>>
  BY <1>2, <1>4 DEF KillDevice
<1>6. PICK q \in TapSets : q = {t \in taps : t[1] # d}
  BY <1>1 DEF TapSets
<1>7. Watched(d, C, S, q, clock)
  BY <1>1, <1>3, <1>4, <1>6, WatchedKilled
<1>8. taps' = q /\ air' = air /\ \A e \in Devices \ {d} : SameTaps(e, taps, taps')
  BY <1>5, <1>6 DEF SameTaps
<1>9. spent' \in Purses /\ spent'.texts = spent.texts
  BY <1>1, <1>5 DEF Purses
<1>10. Quietly(d, C, S, arrived[d])
  BY <1>5, Same DEF Quietly
<1>11. \A i \in Texts : Unread(d, i) => S[i] = Never
  BY <1>4 DEF Unread
<1>12. /\ \A m \in C.history : \E n \in chat[d].history : n.id = m.id
       /\ \A m \in chat[d].history :
             m.burn = 0 /\ TimerAt(chat[d].timerLine, m.at) = 0 /\ StorageOnAt(chat[d].storageLine, m.at) = FALSE
                => \E x \in C.history : x.id = m.id /\ x.at = m.at /\ x.burn = 0
  BY <1>3
<1>13. /\ Watched(d, C, S, taps', clock) /\ taps' \in TapSets /\ Allowed(C.allowance, arrived[d], clock)
       /\ air' \subseteq Frames /\ (\A g \in air' : g.kind = "text" => g \in air)
  BY <1>1, <1>3, <1>7, <1>8
<1>14. QED
  BY ONLY RetInv, d \in Devices, C \in ChatsOf, S \in Showings, <1>1, <1>3, <1>8, <1>9, <1>10, <1>11, <1>12, <1>13, QuietKept

\* A launch: a fresh allowance, and nothing counted in it.
LEMMA LaunchKept ==
    ASSUME RetInv, NEW d \in Devices, LaunchDevice(d)
    PROVE  RetInv'
<1>1. /\ chat[d] \in ChatsOf /\ shown[d] \in Showings
      /\ taps \in TapSets /\ clock \in Ticks /\ clock \in Nat /\ spent \in Purses /\ air \subseteq Frames
      /\ chat[d].history \in Histories /\ Watched(d, chat[d], shown[d], taps, clock)
  BY DeviceIs
<1>2. PICK W \in Arrivals : W = [t \in 0 .. MaxClock |-> 0]
  BY DEF Arrivals, Ticks
<1>3. \A t \in Ticks : W[t] = 0
  BY <1>2 DEF Ticks
<1>4. FreshAllowance(0) \in Allowances /\ Allowed(FreshAllowance(0), W, clock)
  BY <1>1, <1>3, FreshIsAllowed
<1>5. PICK C \in ChatsOf : C = [chat[d] EXCEPT !.up = TRUE, !.pumped = FALSE, !.allowance = FreshAllowance(0)]
  BY <1>1, <1>4 DEF ChatsOf
<1>6. /\ C.history = chat[d].history /\ C.pumped = FALSE /\ C.timerLine = chat[d].timerLine /\ C.timer = chat[d].timer
      /\ C.storageLine = chat[d].storageLine /\ C.storage = chat[d].storage /\ C.allowance = FreshAllowance(0)
  BY <1>1, <1>5 DEF ChatsOf
<1>7. /\ chat' = [chat EXCEPT ![d] = C] /\ arrived' = [arrived EXCEPT ![d] = W]
      /\ UNCHANGED <<clock, air, taps, shown, kept, spent>>
  BY <1>2, <1>5 DEF LaunchDevice
<1>8. taps' = taps /\ air' = air /\ spent' = spent
  BY <1>7
<1>9. taps' \in TapSets /\ \A e \in Devices : SameTaps(e, taps, taps')
  BY <1>8, NoTap
<1>10. Watched(d, C, shown[d], taps, clock)
  <2>1. SameTaps(d, taps, taps) /\ clock <= clock /\ C.history \subseteq chat[d].history
        /\ ~(C.up /\ C.pumped)
    BY <1>1, <1>6, <1>8, <1>9
  <2>2. QED BY <1>1, <2>1, WatchedLess
<1>11. Quietly(d, C, shown[d], W)
  BY <1>7, Same DEF Quietly
<1>12. /\ \A m \in C.history : \E n \in chat[d].history : n.id = m.id
       /\ \A i \in Texts : Unread(d, i) => shown[d][i] = Never
       /\ \A m \in chat[d].history :
             m.burn = 0 /\ TimerAt(chat[d].timerLine, m.at) = 0 /\ StorageOnAt(chat[d].storageLine, m.at) = FALSE
                => \E x \in C.history : x.id = m.id /\ x.at = m.at /\ x.burn = 0
  BY <1>6 DEF Unread
<1>13. /\ Watched(d, C, shown[d], taps', clock) /\ Allowed(C.allowance, W, clock)
       /\ air' \subseteq Frames /\ (\A g \in air' : g.kind = "text" => g \in air)
       /\ spent' \in Purses /\ spent'.texts = spent.texts
  BY <1>1, <1>4, <1>6, <1>8, <1>10
<1>14. QED
  BY ONLY RetInv, d \in Devices, C \in ChatsOf, W \in Arrivals, <1>1, <1>6, <1>9, <1>11, <1>12, <1>13, QuietKept

\* The clock moves on when every running device has pumped: no burn message is past its time.
LEMMA TickKept ==
    ASSUME RetInv, RetTick
    PROVE  RetInv'
<1>1. /\ clock' = clock + 1 /\ clock < MaxClock /\ clock \in Ticks /\ clock \in Nat
      /\ chat' = [d \in Devices |-> [chat[d] EXCEPT !.pumped = FALSE]]
      /\ UNCHANGED <<air, taps, shown, kept, arrived, spent>>
  BY TickIs DEF RetTick, RetInv, RetTypes
<1>2. PICK later \in Ticks : later = clock + 1
  BY <1>1, TickIs DEF Ticks
<1>3. clock' = later /\ clock <= later /\ later \in Nat /\ taps' = taps /\ air' = air /\ spent' = spent
  BY <1>1, <1>2
<1>4. ASSUME NEW d \in Devices
      PROVE  /\ chat'[d] \in ChatsOf /\ chat'[d].history = chat[d].history /\ chat'[d].pumped = FALSE
             /\ chat'[d].timerLine = chat[d].timerLine /\ chat'[d].timer = chat[d].timer
             /\ chat'[d].storageLine = chat[d].storageLine /\ chat'[d].storage = chat[d].storage
             /\ chat'[d].allowance = chat[d].allowance
  <2>1. chat[d] \in ChatsOf
    BY DeviceIs
  <2>2. chat'[d] = [chat[d] EXCEPT !.pumped = FALSE]
    BY <1>1
  <2>3. QED BY <2>1, <2>2 DEF ChatsOf
<1>5. RetTypes'
  <2>1. chat' \in [Devices -> ChatsOf]
    BY <1>1, <1>4
  <2>2. QED BY <1>1, <1>3, <2>1 DEF RetInv, RetTypes
<1>6. OnceSent'
  <2>1. ASSUME NEW d \in Devices, NEW id \in Texts, Unread(d, id) PROVE Unread(d, id)'
    BY <1>1, <1>4, <2>1 DEF Unread
  <2>2. QED BY <1>3, <2>1, OnceStays
<1>7. ASSUME NEW d \in Devices
      PROVE  DeviceOK(d, chat'[d], shown'[d], taps', kept'[d], arrived'[d], clock')
  <2>1. /\ chat[d] \in ChatsOf /\ shown[d] \in Showings /\ arrived[d] \in Arrivals /\ taps \in TapSets
        /\ Watched(d, chat[d], shown[d], taps, clock) /\ Lined(chat[d], clock)
        /\ (\A k \in kept[d] : Stays(chat[d], k)) /\ Allowed(chat[d].allowance, arrived[d], clock)
    BY DeviceIs
  <2>2. PICK C \in ChatsOf : C = chat'[d]
    BY <1>4
  <2>3. Watched(d, C, shown[d], taps, later)
    <3>1. SameTaps(d, taps, taps) /\ C.history \subseteq chat[d].history /\ ~(C.up /\ C.pumped)
      BY <1>4, <2>2 DEF SameTaps
    <3>2. QED BY <1>1, <1>3, <2>1, <3>1, WatchedLess
  <2>4. Lined(C, later)
    <3>1. /\ \A i \in DOMAIN chat[d].timerLine : chat[d].timerLine[i].changed \in Nat
          /\ \A i \in DOMAIN chat[d].storageLine : chat[d].storageLine[i].changed \in Nat
      <4>1. chat[d].timerLine \in Seq(Timers) /\ chat[d].storageLine \in Seq(Switches)
        BY <2>1 DEF ChatsOf
      <4>2. /\ \A i \in DOMAIN chat[d].timerLine : chat[d].timerLine[i] \in Timers
            /\ \A i \in DOMAIN chat[d].storageLine : chat[d].storageLine[i] \in Switches
        BY <4>1
      <4>3. QED BY <4>2 DEF Timers, Switches
    <3>2. /\ \A i \in DOMAIN chat[d].timerLine : chat[d].timerLine[i].changed <= later
          /\ \A i \in DOMAIN chat[d].storageLine : chat[d].storageLine[i].changed <= later
      BY <1>1, <1>3, <2>1, <3>1 DEF Lined
    <3>3. QED BY <1>4, <2>1, <2>2, <3>2 DEF Lined
  <2>5. \A k \in kept[d] : Stays(C, k)
    <3>1. C.timerLine = chat[d].timerLine /\ C.storageLine = chat[d].storageLine /\ C.history = chat[d].history
      BY <1>4, <2>2
    <3>2. QED BY <2>1, <3>1 DEF Stays, SwitchedAt
  <2>6. Allowed(chat[d].allowance, arrived[d], later)
    <3>1. /\ chat[d].allowance.start <= clock /\ chat[d].allowance.start \in Nat
          /\ \A u \in Ticks : u > clock \/ u >= chat[d].allowance.start + RelayKeeps => arrived[d][u] = 0
      BY <2>1 DEF Allowed, ChatsOf, Allowances
    <3>2. chat[d].allowance.start <= later
      BY <1>1, <1>3, <3>1
    <3>3. \A u \in Ticks : u > later => u > clock
      BY <1>1, <1>2, TickIs
    <3>4. QED BY <2>1, <3>1, <3>2, <3>3 DEF Allowed
  <2>7. /\ chat'[d] = C /\ shown' = shown /\ kept' = kept /\ arrived' = arrived /\ taps' = taps
        /\ clock' = later /\ C.allowance = chat[d].allowance
    BY <1>1, <1>2, <1>4, <2>2
  <2>8. QED BY <2>3, <2>4, <2>5, <2>6, <2>7 DEF DeviceOK
<1>8. QED BY <1>5, <1>6, <1>7 DEF RetInv

\* A text that reaches a device: a message of its own, or none when the day is full.
LEMMA TextKept ==
    ASSUME RetInv, NEW d \in Devices, NEW f \in air, f.to = d, f.kind = "text",
           air' = air \ {f}, UNCHANGED <<clock, taps, shown, spent>>, RecvText(d, f)
    PROVE  RetInv'
<1> DEFINE v == Admit(chat[d].allowance, clock)
           x == Entry(f.id, FALSE, f.burn, "")
<1>1. /\ chat[d] \in ChatsOf /\ shown[d] \in Showings /\ kept[d] \in Keeps /\ arrived[d] \in Arrivals
      /\ taps \in TapSets /\ clock \in Ticks /\ clock \in Nat /\ spent \in Purses /\ air \subseteq Frames
      /\ chat[d].history \in Histories
      /\ Watched(d, chat[d], shown[d], taps, clock) /\ Lined(chat[d], clock)
      /\ (\A k \in kept[d] : Stays(chat[d], k)) /\ Allowed(chat[d].allowance, arrived[d], clock)
  BY DeviceIs
<1>2. f.id \in Texts /\ f.burn \in Nat /\ Unread(d, f.id) /\ f.id \notin spent.texts
  BY <1>1, FrameIs DEF RetInv, OnceSent
<1>3. ~Holds(d, f.id)
  BY <1>2 DEF Unread, Holds
<1>4. chat[d].allowance \in Allowances
  BY <1>1 DEF ChatsOf
<1>5. PICK r \in Arrivals : r = [arrived[d] EXCEPT ![clock] = @ + 1]
  <2>1. arrived[d][clock] \in Nat
    BY <1>1 DEF Arrivals
  <2>2. PICK k \in Nat : k = arrived[d][clock] + 1
    BY <2>1
  <2>3. [arrived[d] EXCEPT ![clock] = k] \in Arrivals
    BY <1>1, <2>2 DEF Arrivals
  <2>4. QED BY <2>2, <2>3
<1>6. v.al \in Allowances /\ (v.yes => Allowed(v.al, r, clock)) /\ (~v.yes => Allowed(v.al, arrived[d], clock))
  BY <1>1, <1>4, <1>5, AdmitCounts
<1>7. x \in Entries /\ x.id = f.id /\ x.at = clock /\ x.burn = f.burn /\ x.viewed = Never /\ x.mine = FALSE
  BY <1>1, <1>2, NeverIs DEF Entry, Entries
<1>8. /\ chat' = [chat EXCEPT ![d].allowance = v.al,
                              ![d].history = IF v.yes THEN @ \cup {x} ELSE @]
      /\ v.yes => arrived' = [arrived EXCEPT ![d][clock] = @ + 1]
      /\ ~v.yes => UNCHANGED arrived
      /\ kept' = [kept EXCEPT ![d] = IF v.yes /\ f.burn = 0 /\ Unmarked(chat[d])
                                     THEN @ \cup {<<f.id, clock>>} ELSE @]
  BY <1>3 DEF RecvText, Count
<1>9. PICK al \in Allowances : al = v.al
  BY <1>6
<1> HIDE DEF x
<1>10. chat \in [Devices -> ChatsOf] /\ shown \in [Devices -> Showings]
  BY DEF RetInv, RetTypes
<1>11. taps' = taps /\ spent' = spent /\ clock' = clock /\ shown' = shown
  OBVIOUS
<1>12. taps' \in TapSets /\ \A e \in Devices : SameTaps(e, taps, taps')
  BY <1>11, NoTap
<1>13. air' \subseteq Frames /\ spent' \in Purses
  BY <1>1, <1>11
<1>14. CASE v.yes
  <2> DEFINE K == IF f.burn = 0 /\ Unmarked(chat[d]) THEN kept[d] \cup {<<f.id, clock>>} ELSE kept[d]
  <2>1. PICK C \in ChatsOf : C = [chat[d] EXCEPT !.allowance = al, !.history = @ \cup {x}]
    BY <1>1, <1>7 DEF ChatsOf, Histories
  <2>2. /\ C.history = chat[d].history \cup {x} /\ C.up = chat[d].up /\ C.pumped = chat[d].pumped
        /\ C.timer = chat[d].timer /\ C.storage = chat[d].storage /\ C.timerLine = chat[d].timerLine
        /\ C.storageLine = chat[d].storageLine /\ C.allowance = al
    BY <1>1, <2>1 DEF ChatsOf
  <2>3. /\ chat' = [chat EXCEPT ![d] = C] /\ arrived' = [arrived EXCEPT ![d] = r] /\ kept' = [kept EXCEPT ![d] = K]
        /\ shown' = [shown EXCEPT ![d] = shown[d]]
    BY <1>5, <1>8, <1>9, <1>10, <1>11, <1>14, <2>1
  <2>4. Watched(d, C, shown[d], taps, clock)
    <3>1. shown[d][x.id] = Never /\ \A m \in chat[d].history : m.id # x.id
      BY <1>2, <1>7 DEF Unread
    <3>2. QED BY <1>1, <1>7, <2>2, <3>1, WatchedAdded
  <2>5. K \in Keeps
    BY <1>1, <1>2 DEF Keeps
  <2>6. K = kept[d] \/ (x.burn = 0 /\ Unmarked(chat[d]) /\ K = kept[d] \cup {<<x.id, clock>>})
    BY <1>7
  <2> HIDE DEF K
  <2>7. Lined(C, clock) /\ \A k \in K : Stays(C, k)
    BY <1>1, <1>7, <2>2, <2>5, <2>6, StaysAdded
  <2>8. OnceSent'
    <3>1. ASSUME NEW e \in Devices, NEW i \in Texts, Unread(e, i), e # d \/ i # f.id PROVE Unread(e, i)'
      BY <1>7, <1>10, <1>11, <2>2, <2>3, <3>1 DEF Unread
    <3>2. ASSUME NEW i \in spent'.texts, NEW e \in Devices PROVE Unread(e, i)'
      <4>1. i \in spent.texts /\ i \in Texts /\ i # f.id
        BY <1>1, <1>2, <1>11 DEF Purses
      <4>2. QED BY <3>1, <4>1 DEF RetInv, OnceSent
    <3>3. ASSUME NEW g \in air', g.kind = "text"
          PROVE  /\ g.id \notin spent'.texts /\ Unread(g.to, g.id)'
                 /\ \A h \in air' : h.kind = "text" /\ h.id = g.id => h = g
      <4>1. g \in air /\ g # f /\ g.to \in Devices /\ g.id \in Texts
        BY <1>1, <3>3, FrameIs
      <4>2. /\ g.id \notin spent.texts /\ Unread(g.to, g.id) /\ g.id # f.id
            /\ \A h \in air : h.kind = "text" /\ h.id = g.id => h = g
        BY <3>3, <4>1 DEF RetInv, OnceSent
      <4>3. QED BY <1>11, <3>1, <4>1, <4>2
    <3>4. QED BY <3>2, <3>3 DEF OnceSent
  <2>9. Allowed(C.allowance, r, clock)
    BY <1>6, <1>9, <1>14, <2>2
  <2>10. Watched(d, C, shown[d], taps', clock) /\ \A e \in Devices \ {d} : SameTaps(e, taps, taps')
    BY <1>11, <1>12, <2>4
  <2>11. QED
    BY ONLY RetInv, d \in Devices, C \in ChatsOf, r \in Arrivals, <1>1, <1>11, <1>12, <1>13,
            <2>3, <2>5, <2>7, <2>8, <2>9, <2>10, DeviceAlone
<1>15. CASE ~v.yes
  <2>1. PICK C \in ChatsOf : C = [chat[d] EXCEPT !.allowance = al]
    BY <1>1 DEF ChatsOf
  <2>2. /\ C.history = chat[d].history /\ C.up = chat[d].up /\ C.pumped = chat[d].pumped
        /\ C.timer = chat[d].timer /\ C.storage = chat[d].storage /\ C.timerLine = chat[d].timerLine
        /\ C.storageLine = chat[d].storageLine /\ C.allowance = al
    BY <1>1, <2>1 DEF ChatsOf
  <2>3. chat' = [chat EXCEPT ![d] = C] /\ arrived' = arrived /\ kept' = kept
    <3>1. chat' = [chat EXCEPT ![d].allowance = v.al, ![d].history = chat[d].history]
      BY <1>8, <1>15
    <3>2. [chat[d] EXCEPT !.allowance = v.al, !.history = chat[d].history] = [chat[d] EXCEPT !.allowance = v.al]
      BY <1>1 DEF ChatsOf
    <3>3. kept' = [kept EXCEPT ![d] = kept[d]] /\ kept \in [Devices -> Keeps]
      BY <1>8, <1>15 DEF RetInv, RetTypes
    <3>4. chat' = [chat EXCEPT ![d] = C]
      BY <1>9, <1>10, <2>1, <3>1, <3>2
    <3>5. kept' = kept
      BY <3>3
    <3>6. QED BY <1>8, <1>15, <3>4, <3>5
  <2>4. Quietly(d, C, shown[d], arrived[d])
    BY <1>11, <2>3, Same DEF Quietly
  <2>5. Watched(d, C, shown[d], taps', clock)
    <3>1. SameTaps(d, taps, taps) /\ clock <= clock /\ C.history \subseteq chat[d].history
      BY <1>1, <1>11, <1>12, <2>2
    <3>2. Watched(d, C, shown[d], taps, clock)
      BY <1>1, <2>2, <3>1, WatchedLess
    <3>3. QED BY <1>11, <3>2
  <2>6. /\ \A m \in C.history : \E n \in chat[d].history : n.id = m.id
        /\ \A i \in Texts : Unread(d, i) => shown[d][i] = Never
        /\ \A m \in chat[d].history :
              m.burn = 0 /\ TimerAt(chat[d].timerLine, m.at) = 0 /\ StorageOnAt(chat[d].storageLine, m.at) = FALSE
                 => \E n \in C.history : n.id = m.id /\ n.at = m.at /\ n.burn = 0
    BY <2>2 DEF Unread
  <2>7. /\ Allowed(C.allowance, arrived[d], clock) /\ (\A g \in air' : g.kind = "text" => g \in air)
        /\ spent'.texts = spent.texts
    BY <1>6, <1>9, <1>11, <1>15, <2>2
  <2>8. QED
    BY ONLY RetInv, d \in Devices, C \in ChatsOf, <1>1, <1>12, <1>13, <2>2, <2>4, <2>5, <2>6, <2>7, QuietKept
<1>16. QED BY <1>14, <1>15

\* A frame with a setting, or one that says what was opened.
LEMMA ControlKept ==
    ASSUME RetInv, NEW d \in Devices, NEW f \in air, f.to = d, f.kind # "text",
           air' = air \ {f}, UNCHANGED <<clock, taps, shown, spent>>,
           \/ f.kind = "timer" /\ RecvTimer(d, f)
           \/ f.kind = "storage" /\ RecvStorage(d, f)
           \/ f.kind = "viewed" /\ RecvViewed(d, f)
    PROVE  RetInv'
<1> DEFINE v == Admit(chat[d].allowance, clock)
<1>1. /\ chat[d] \in ChatsOf /\ shown[d] \in Showings /\ arrived[d] \in Arrivals
      /\ taps \in TapSets /\ clock \in Ticks /\ clock \in Nat /\ spent \in Purses /\ air \subseteq Frames
      /\ chat[d].history \in Histories /\ Watched(d, chat[d], shown[d], taps, clock)
      /\ Allowed(chat[d].allowance, arrived[d], clock)
  BY DeviceIs
<1>2. chat[d].allowance \in Allowances
  BY <1>1 DEF ChatsOf
<1>3. PICK r \in Arrivals : r = [arrived[d] EXCEPT ![clock] = @ + 1]
  <2>1. arrived[d][clock] \in Nat
    BY <1>1 DEF Arrivals
  <2>2. PICK k \in Nat : k = arrived[d][clock] + 1
    BY <2>1
  <2>3. [arrived[d] EXCEPT ![clock] = k] \in Arrivals
    BY <1>1, <2>2 DEF Arrivals
  <2>4. QED BY <2>2, <2>3
<1>4. v.al \in Allowances /\ (v.yes => Allowed(v.al, r, clock)) /\ (~v.yes => Allowed(v.al, arrived[d], clock))
  BY <1>1, <1>2, <1>3, AdmitCounts
<1>5. PICK al \in Allowances : al = v.al
  BY <1>4
<1>6. taps' = taps /\ spent' = spent /\ clock' = clock /\ shown' = shown /\ kept' = kept /\ UNCHANGED taps
  BY DEF RecvTimer, RecvStorage, RecvViewed
<1>7. taps' \in TapSets /\ \A e \in Devices : SameTaps(e, taps, taps')
  BY <1>6, NoTap
<1>8. /\ air' \subseteq Frames /\ (\A g \in air' : g.kind = "text" => g \in air)
      /\ spent' \in Purses /\ spent'.texts = spent.texts
  BY <1>1, <1>6
<1>9. ASSUME NEW C \in ChatsOf, chat' = [chat EXCEPT ![d] = C], arrived' = arrived,
             C.history \subseteq chat[d].history, \A m \in chat[d].history : m.burn = 0 => m \in C.history,
             C.up = chat[d].up, C.pumped = chat[d].pumped, C.timer = chat[d].timer, C.storage = chat[d].storage,
             C.timerLine = chat[d].timerLine, C.storageLine = chat[d].storageLine,
             Allowed(C.allowance, arrived[d], clock)
      PROVE  RetInv'
  <2>1. Quietly(d, C, shown[d], arrived[d])
    BY <1>6, <1>9, Same DEF Quietly
  <2>2. Watched(d, C, shown[d], taps', clock)
    <3>1. SameTaps(d, taps, taps) /\ clock <= clock
      BY <1>1, <1>6, <1>7
    <3>2. Watched(d, C, shown[d], taps, clock)
      BY <1>1, <1>9, <3>1, WatchedLess
    <3>3. QED BY <1>6, <3>2
  <2>3. /\ \A m \in C.history : \E n \in chat[d].history : n.id = m.id
        /\ \A i \in Texts : Unread(d, i) => shown[d][i] = Never
        /\ \A m \in chat[d].history :
              m.burn = 0 /\ TimerAt(chat[d].timerLine, m.at) = 0 /\ StorageOnAt(chat[d].storageLine, m.at) = FALSE
                 => \E n \in C.history : n.id = m.id /\ n.at = m.at /\ n.burn = 0
    BY <1>9 DEF Unread
  <2>4. QED
    BY ONLY RetInv, d \in Devices, C \in ChatsOf, <1>1, <1>7, <1>8, <1>9, <2>1, <2>2, <2>3, QuietKept
<1>10. CASE UNCHANGED <<chat, arrived>>
  <2>1. chat' = [chat EXCEPT ![d] = chat[d]] /\ arrived' = arrived
    BY <1>10, Same
  <2>2. QED BY <1>1, <1>9, <2>1
<1>11. CASE ~v.yes /\ chat' = [chat EXCEPT ![d].allowance = v.al] /\ UNCHANGED arrived
  <2>1. PICK C \in ChatsOf : C = [chat[d] EXCEPT !.allowance = al]
    BY <1>1 DEF ChatsOf
  <2>2. /\ C.history = chat[d].history /\ C.up = chat[d].up /\ C.pumped = chat[d].pumped
        /\ C.timer = chat[d].timer /\ C.storage = chat[d].storage /\ C.timerLine = chat[d].timerLine
        /\ C.storageLine = chat[d].storageLine /\ C.allowance = al
    BY <1>1, <2>1 DEF ChatsOf
  <2>3. chat' = [chat EXCEPT ![d] = C] /\ arrived' = arrived
    BY <1>5, <1>11, <2>1
  <2>4. Allowed(C.allowance, arrived[d], clock)
    BY <1>4, <1>5, <1>11, <2>2
  <2>5. QED BY <1>9, <2>2, <2>3, <2>4
<1>12. CASE f.kind = "timer"
  <2>1. f.secs \in Nat
    BY <1>1, <1>12, FrameIs
  <2>2. PICK x \in Timers : x = [changed |-> clock, value |-> f.secs]
    BY <1>1, <2>1 DEF Timers
  <2>3. ASSUME v.yes, chat' = [chat EXCEPT ![d].allowance = v.al, ![d].timer = f.secs,
                                           ![d].timerLine = Append(@, x)], Count(d)
        PROVE  RetInv'
    <3>1. PICK C \in ChatsOf : C = [chat[d] EXCEPT !.allowance = al, !.timer = f.secs, !.timerLine = Append(@, x)]
      <4>1. ASSUME NEW T, NEW s \in Seq(T), NEW z \in T PROVE Append(s, z) \in Seq(T)
        OBVIOUS
      <4>2. chat[d].timerLine \in Seq(Timers)
        BY <1>1 DEF ChatsOf
      <4>3. PICK L \in Seq(Timers) : L = Append(chat[d].timerLine, x)
        BY <4>1, <4>2
      <4>4. [chat[d] EXCEPT !.allowance = al, !.timer = f.secs, !.timerLine = L] \in ChatsOf
        BY <1>1, <2>1 DEF ChatsOf
      <4>5. QED BY <4>3, <4>4
    <3>2. /\ C.history = chat[d].history /\ C.up = chat[d].up /\ C.pumped = chat[d].pumped
          /\ C.timerLine = Append(chat[d].timerLine, x) /\ C.timer = x.value /\ x.changed = clock
          /\ C.storageLine = chat[d].storageLine /\ C.storage = chat[d].storage /\ C.allowance = al
      <4>1. /\ C.history = chat[d].history /\ C.up = chat[d].up /\ C.pumped = chat[d].pumped
            /\ C.storageLine = chat[d].storageLine /\ C.storage = chat[d].storage /\ C.allowance = al
        BY <1>1, <3>1 DEF ChatsOf
      <4>2. C.timerLine = Append(chat[d].timerLine, x) /\ C.timer = f.secs
        BY <1>1, <3>1 DEF ChatsOf
      <4>3. QED BY <2>2, <4>1, <4>2
    <3>3. Quietly(d, C, shown[d], r)
      <4>1. chat' = [chat EXCEPT ![d] = C]
        BY <1>5, <2>3, <3>1
      <4>2. arrived' = [arrived EXCEPT ![d] = r]
        BY <1>3, <2>3 DEF Count
      <4>3. QED BY <1>6, <4>1, <4>2, Same DEF Quietly
    <3>4. PICK y \in Switches : y = [changed |-> clock, value |-> TRUE]
      BY <1>1 DEF Switches
    <3>5. y.changed = clock /\ Allowed(C.allowance, r, clock)
      BY <1>4, <1>5, <2>3, <3>2, <3>4
    <3>6. QED
      BY ONLY RetInv, d \in Devices, C \in ChatsOf, r \in Arrivals, x \in Timers, y \in Switches,
              <1>1, <1>6, <1>8, <3>2, <3>3, <3>5, SwitchKept
  <2>4. QED BY <1>10, <1>11, <1>12, <2>2, <2>3 DEF RecvTimer
<1>13. CASE f.kind = "storage"
  <2>1. f.on \in BOOLEAN
    BY <1>1, <1>13, FrameIs
  <2>2. PICK y \in Switches : y = [changed |-> clock, value |-> f.on]
    BY <1>1, <2>1 DEF Switches
  <2>3. ASSUME v.yes, chat' = [chat EXCEPT ![d].allowance = v.al, ![d].storage = f.on,
                                           ![d].storageLine = Append(@, y)], Count(d)
        PROVE  RetInv'
    <3>1. PICK C \in ChatsOf : C = [chat[d] EXCEPT !.allowance = al, !.storage = f.on, !.storageLine = Append(@, y)]
      <4>1. ASSUME NEW T, NEW s \in Seq(T), NEW z \in T PROVE Append(s, z) \in Seq(T)
        OBVIOUS
      <4>2. chat[d].storageLine \in Seq(Switches)
        BY <1>1 DEF ChatsOf
      <4>3. PICK L \in Seq(Switches) : L = Append(chat[d].storageLine, y)
        BY <4>1, <4>2
      <4>4. [chat[d] EXCEPT !.allowance = al, !.storage = f.on, !.storageLine = L] \in ChatsOf
        BY <1>1, <2>1 DEF ChatsOf
      <4>5. QED BY <4>3, <4>4
    <3>2. /\ C.history = chat[d].history /\ C.up = chat[d].up /\ C.pumped = chat[d].pumped
          /\ C.storageLine = Append(chat[d].storageLine, y) /\ C.storage = y.value /\ y.changed = clock
          /\ C.timerLine = chat[d].timerLine /\ C.timer = chat[d].timer /\ C.allowance = al
      <4>1. /\ C.history = chat[d].history /\ C.up = chat[d].up /\ C.pumped = chat[d].pumped
            /\ C.timerLine = chat[d].timerLine /\ C.timer = chat[d].timer /\ C.allowance = al
        BY <1>1, <3>1 DEF ChatsOf
      <4>2. C.storageLine = Append(chat[d].storageLine, y) /\ C.storage = f.on
        BY <1>1, <3>1 DEF ChatsOf
      <4>3. QED BY <2>2, <4>1, <4>2
    <3>3. Quietly(d, C, shown[d], r)
      <4>1. chat' = [chat EXCEPT ![d] = C]
        BY <1>5, <2>3, <3>1
      <4>2. arrived' = [arrived EXCEPT ![d] = r]
        BY <1>3, <2>3 DEF Count
      <4>3. QED BY <1>6, <4>1, <4>2, Same DEF Quietly
    <3>4. PICK x \in Timers : x = [changed |-> clock, value |-> 0]
      BY <1>1 DEF Timers
    <3>5. x.changed = clock /\ Allowed(C.allowance, r, clock)
      BY <1>4, <1>5, <2>3, <3>2, <3>4
    <3>6. QED
      BY ONLY RetInv, d \in Devices, C \in ChatsOf, r \in Arrivals, x \in Timers, y \in Switches,
              <1>1, <1>6, <1>8, <3>2, <3>3, <3>5, SwitchKept
  <2>4. QED BY <1>10, <1>11, <1>13, <2>2, <2>3 DEF RecvStorage
<1>14. CASE f.kind = "viewed"
  <2>1. PICK H \in Histories : H = {m \in chat[d].history : ~Named(m, f)}
    BY <1>1 DEF Histories
  <2>2. PICK C \in ChatsOf : C = [chat[d] EXCEPT !.history = H]
    BY <1>1, <2>1 DEF ChatsOf
  <2>3. /\ C.history = H /\ C.up = chat[d].up /\ C.pumped = chat[d].pumped
        /\ C.timer = chat[d].timer /\ C.storage = chat[d].storage /\ C.timerLine = chat[d].timerLine
        /\ C.storageLine = chat[d].storageLine /\ C.allowance = chat[d].allowance
    BY <1>1, <2>2 DEF ChatsOf
  <2>4. RecvViewed(d, f)
    BY <1>14
  <2>5. chat' = [chat EXCEPT ![d] = C] /\ arrived' = arrived
    BY <2>1, <2>2, <2>4 DEF RecvViewed
  <2>6. C.history \subseteq chat[d].history /\ \A m \in chat[d].history : m.burn = 0 => m \in C.history
    BY <2>1, <2>3 DEF Named
  <2>7. Allowed(C.allowance, arrived[d], clock)
    BY <1>1, <2>3
  <2>8. QED BY <1>9, <2>3, <2>5, <2>6, <2>7
<1>15. QED BY <1>12, <1>13, <1>14

\* A frame of any kind that reaches a device.
LEMMA RecvKept ==
    ASSUME RetInv, NEW f \in air, RecvRetention(f.to, f)
    PROVE  RetInv'
<1>1. f.to \in Devices /\ f.kind \in {"text", "timer", "storage", "viewed"}
  BY FrameIs, air \subseteq Frames DEF RetInv, RetTypes
<1>2. air' = air \ {f} /\ UNCHANGED <<clock, taps, shown, spent>>
  BY DEF RecvRetention
<1>3. CASE f.kind = "text"
  <2>1. RecvText(f.to, f)
    BY <1>3 DEF RecvRetention
  <2>2. QED BY <1>1, <1>2, <1>3, <2>1, TextKept
<1>4. CASE f.kind # "text"
  <2>1. \/ f.kind = "timer" /\ RecvTimer(f.to, f)
        \/ f.kind = "storage" /\ RecvStorage(f.to, f)
        \/ f.kind = "viewed" /\ RecvViewed(f.to, f)
    BY <1>1, <1>4 DEF RecvRetention
  <2>2. QED BY <1>1, <1>2, <1>4, <2>1, ControlKept
<1>5. QED BY <1>3, <1>4

\* Every step of the two devices, or none, keeps the invariant.
LEMMA RetSteps ==
    ASSUME RetInv, [RetNext]_retVars
    PROVE  RetInv'
<1>1. /\ spent.senders \subseteq Devices /\ spent.changers \subseteq Devices /\ spent.burns \subseteq Nat
      /\ spent.timers \subseteq Nat /\ spent.switches \subseteq BOOLEAN /\ taps \in SUBSET Taps
  BY DEF RetInv, RetTypes, Purses, TapSets
<1>2. CASE \E d \in spent.senders, id \in Texts, burn \in spent.burns, q \in {"sent", "queued"} :
              SendText(d, id, burn, q)
  BY <1>1, <1>2, SentKept
<1>3. CASE \E d \in spent.changers, secs \in spent.timers : SetDisappearing(d, secs)
  BY <1>1, <1>3, SettingKept
<1>4. CASE \E d \in spent.changers, on \in spent.switches : SetRemoteStorage(d, on)
  BY <1>1, <1>4, SettingKept
<1>5. CASE \E d \in Devices : SetBurnReceipts(d)
  BY <1>5, SettingKept
<1>6. CASE \E d \in Devices, id \in Texts : Reveal(d, id)
  BY <1>6, RevealKept
<1>7. CASE \E t \in taps : MarkBurnViewed(t[1], t[2], t[3])
  <2>1. PICK t \in taps : MarkBurnViewed(t[1], t[2], t[3])
    BY <1>7
  <2>2. t[1] \in Devices /\ t[2] \in Texts /\ t[3] \in Nat
    BY <1>1 DEF Taps
  <2>3. QED BY <2>1, <2>2, ViewedKept
<1>8. CASE \E f \in air : RecvRetention(f.to, f)
  BY <1>8, RecvKept
<1>9. CASE \E d \in Devices : PumpSweep(d) \/ CadenceSweep(d)
  BY <1>9, SweepKept
<1>10. CASE RetTick
  BY <1>10, TickKept
<1>11. CASE \E f \in air : LoseFrame(f)
  BY <1>11, LossKept
<1>12. CASE \E d \in Devices : KillDevice(d)
  BY <1>12, KillKept
<1>13. CASE \E d \in Devices : LaunchDevice(d)
  BY <1>13, LaunchKept
<1>14. CASE UNCHANGED retVars
  <2>1. /\ clock' = clock /\ chat' = chat /\ air' = air /\ taps' = taps /\ shown' = shown /\ kept' = kept
        /\ arrived' = arrived /\ spent' = spent
    BY <1>14 DEF retVars
  <2>2. RetTypes'
    BY <2>1 DEF RetInv, RetTypes
  <2>3. OnceSent'
    BY <2>1 DEF RetInv, OnceSent, Unread
  <2>4. ASSUME NEW d \in Devices
        PROVE  DeviceOK(d, chat[d], shown[d], taps, kept[d], arrived[d], clock)'
    <3>1. DeviceOK(d, chat[d], shown[d], taps, kept[d], arrived[d], clock)
      BY DEF RetInv
    <3>2. QED BY ONLY <2>1, <3>1
  <2>5. QED BY <2>2, <2>3, <2>4 DEF RetInv
<1>15. QED
  BY <1>2, <1>3, <1>4, <1>5, <1>6, <1>7, <1>8, <1>9, <1>10, <1>11, <1>12, <1>13, <1>14 DEF RetNext

\* What the invariant says of deletion.
LEMMA RetMeans ==
    ASSUME RetInv
    PROVE  DeletionHolds
<1>1. RetTypeOK
  <2>1. ASSUME NEW d \in Devices, NEW m \in chat[d].history, NEW n \in chat[d].history
        PROVE  m.id \in Texts /\ m.at <= clock /\ (m.id = n.id => m = n)
    BY DeviceIs DEF Entries, OneEntry
  <2>2. QED BY <2>1 DEF RetTypeOK, RetInv, RetTypes, Ticks
<1>2. BurnsOnTime
  <2>1. SUFFICES ASSUME NEW d \in Devices, NEW m \in chat[d].history, chat[d].up, chat[d].pumped, m.burn > 0,
                        shown[d][m.id] # Never, ~\E t \in taps : t[1] = d /\ t[2] = m.id
                 PROVE  clock < shown[d][m.id] + m.burn
    BY DEF BurnsOnTime
  <2>2. /\ (m.viewed # Never => m.viewed = shown[d][m.id])
        /\ (m.viewed = Never => \E t \in taps : t[1] = d /\ t[2] = m.id)
        /\ (m.viewed # Never => clock < m.viewed + m.burn)
    BY <2>1, DeviceIs DEF Watched
  <2>3. QED BY <2>1, <2>2
<1>3. OldMessagesStay
  <2>1. ASSUME NEW d \in Devices, NEW k \in kept[d]
        PROVE  Holds(d, k[1]) \/ SwitchedAt(chat[d], k[2])
    BY DeviceIs DEF Stays, Holds
  <2>2. QED BY <2>1 DEF OldMessagesStay
<1>4. AllowanceHolds
  <2>1. ASSUME NEW d \in Devices, NEW t \in Ticks
        PROVE  Total(Span(t, t + RelayKeeps), arrived[d]) <= 2 * MaxPerDay
    BY DeviceIs DEF Allowed
  <2>2. QED BY <2>1 DEF AllowanceHolds, Span, Ticks
<1>5. QED BY <1>1, <1>2, <1>3, <1>4 DEF DeletionHolds

\* What must go goes on time, what must stay stays, and a contact's allowance is kept: of
\* the burn sweep, the time sweep, the settings' timelines and Allowance::admit, whatever
\* is sent, switched, opened, lost or killed in between.
THEOREM DeletionIsRight == RetSpec => []DeletionHolds
<1>1. RetInit => RetInv
  BY RetStarts
<1>2. RetInv /\ [RetNext]_retVars => RetInv'
  BY RetSteps
<1>3. RetInv => DeletionHolds
  BY RetMeans
<1>4. QED BY <1>1, <1>2, <1>3, PTL DEF RetSpec
===============================================================================
