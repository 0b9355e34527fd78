----------------------------- MODULE Lifecycle -----------------------------
(***************************************************************************)
(* The life of the app's cores over one state file: the background poller  *)
(* with its drain and outbox jobs, the debounced saves, and the shutdown   *)
(* that stops a core before the next one is started over the same file.    *)
(* A core's memory is a set of facts: the mail it applied, the notices its *)
(* user asked for, and the notices that landed.                            *)
(***************************************************************************)
EXTENDS Naturals

CONSTANTS
    Messages,    \* blobs on the relays that carry a message
    Controls,    \* blobs on the relays that carry a control frame
    Notices,     \* control frames the user's actions queue
    MaxCores,    \* cores started one after the other
    SlowPoller   \* TRUE when a wait for the poller may outlast POLLER_EXIT_TIMEOUT

ASSUME LifecycleAssumption ==
    /\ MaxCores \in Nat \ {0} /\ SlowPoller \in BOOLEAN /\ Messages \cap Controls = {}

Cores == 1 .. MaxCores
Got(b) == <<"got", b>>
Asked(n) == <<"asked", n>>
Landed(n) == <<"landed", n>>
Facts == {Got(b) : b \in Messages \cup Controls} \cup {Asked(n) : n \in Notices}
             \cup {Landed(n) : n \in Notices}

VARIABLES
    relay,    \* blobs waiting on the relays
    disk,     \* the state file
    started,  \* cores started so far
    core      \* each core's memory, poller, jobs and shutdown
lifeVars == <<relay, disk, started, core>>

PollerPcs == {"sleep", "collect", "send", "locked", "outbox", "exitDrain", "exitOutbox",
              "exitAbandon", "gone"}
NewCore(facts) ==
    [mem |-> facts, pending |-> FALSE, stop |-> FALSE, closed |-> FALSE, pc |-> "sleep",
     drain |-> "none", hand |-> {}, harvest |-> {}, outbox |-> {}, job |-> "none",
     sending |-> {}, reached |-> {}, sd |-> "none", early |-> FALSE]

LifeTypeOK ==
    /\ relay \subseteq Messages \cup Controls /\ disk \subseteq Facts /\ started \in Cores
    /\ \A c \in Cores :
          /\ core[c].pc \in PollerPcs /\ core[c].sd \in {"none", "close", "wait", "close2", "done"}
          /\ core[c].mem \subseteq Facts /\ core[c].hand \cup core[c].harvest \subseteq Messages \cup Controls
          /\ {core[c].drain, core[c].job} \subseteq {"none", "running", "done"}
          /\ core[c].outbox \cup core[c].sending \subseteq Notices

LifeInit ==
    /\ relay = Messages \cup Controls /\ disk = {} /\ started = 1
    /\ core = [c \in Cores |-> NewCore({})]

----------------------------------------------------------------------------
(* Saves.  save writes now; save_soon writes when the debounce window has  *)
(* elapsed and leaves a pending write otherwise; time is not modelled, so  *)
(* `due` may be either.                                                    *)
Running(c) == c <= started /\ core[c].pc # "gone"
Put(c, k) == core' = [core EXCEPT ![c] = k]
Saved(k) == [k EXCEPT !.pending = FALSE]
\* save
Save(c, k) == Put(c, Saved(k)) /\ disk' = k.mem
\* save_soon
SaveSoon(c, k, due) ==
    IF due THEN Save(c, k) ELSE Put(c, [k EXCEPT !.pending = TRUE]) /\ UNCHANGED disk
\* flush_pending, and maybe_flush when the window has elapsed
FlushPending(c, k, due) ==
    IF k.pending /\ due THEN Save(c, k) ELSE Put(c, k) /\ UNCHANGED disk

\* The outcome of apply_tick on core k with harvest h: new messages are saved
\* at once, control frames soon, and a pending write is flushed when due.
ApplyHarvest(c, k, h, due) ==
    LET next == [k EXCEPT !.mem = @ \cup {Got(b) : b \in h}] IN
    IF h \cap Messages # {} THEN Save(c, next)
    ELSE IF h # {} THEN SaveSoon(c, next, due)
    ELSE FlushPending(c, next, due)

\* apply_outbox_round: notices that landed leave pending_control.
ApplyRound(c, k, due) ==
    SaveSoon(c, [k EXCEPT !.mem = @ \cup {Landed(n) : n \in k.reached}, !.job = "none",
                          !.sending = {}, !.reached = {}], due)

----------------------------------------------------------------------------
(* The jobs, on threads of their own and without the lock.                 *)
\* A take is destructive: the blob is now only in the drain's hands.
DrainTake(c) ==
    /\ core[c].drain = "running" /\ ~core[c].closed
    /\ \E b \in relay :
          /\ relay' = relay \ {b}
          /\ Put(c, [core[c] EXCEPT !.hand = @ \cup {b}])
    /\ UNCHANGED <<disk, started>>

DrainEnd(c) ==
    /\ core[c].drain = "running"
    /\ Put(c, [core[c] EXCEPT !.drain = "done"])
    /\ UNCHANGED <<relay, disk, started>>

\* Mutant: a round retries its entries until they land.
OutboxInsists(c) ==
    /\ core[c].job = "running" /\ ~core[c].closed
    /\ Put(c, [core[c] EXCEPT !.job = "done", !.reached = core[c].sending])
    /\ UNCHANGED <<relay, disk, started>>

\* run_outbox: each entry lands or not; none does on a closed transport.
OutboxEnd(c) ==
    /\ core[c].job = "running"
    /\ \E r \in SUBSET core[c].sending :
          /\ core[c].closed => r = {}
          /\ Put(c, [core[c] EXCEPT !.job = "done", !.reached = r])
    /\ UNCHANGED <<relay, disk, started>>

----------------------------------------------------------------------------
(* The poller.                                                             *)
\* The top of the loop: the stop flag ends it, before or out of the sleep.
Sleep(c) ==
    /\ core[c].pc = "sleep"
    /\ Put(c, [core[c] EXCEPT !.pc = IF core[c].stop THEN "exitDrain" ELSE "collect"])
    /\ UNCHANGED <<relay, disk, started>>

\* A finished drain is collected; one is started when the relay poll is due.
Collect(c) ==
    /\ core[c].pc = "collect"
    /\ \E relayDue \in BOOLEAN :
          LET k == core[c]
              taken == k.drain = "done" IN
          Put(c, [k EXCEPT !.pc = "send",
                           !.harvest = IF taken THEN k.hand ELSE @,
                           !.hand = IF taken THEN {} ELSE @,
                           !.drain = IF relayDue /\ k.drain = "none" THEN "running"
                                     ELSE IF taken THEN "none" ELSE @])
    /\ UNCHANGED <<relay, disk, started>>

\* The tick takes the core lock; the dials a tick may hold it over are why
\* shutdown only ever tries for it.
TakeLock(c) ==
    /\ core[c].pc = "send"
    /\ Put(c, [core[c] EXCEPT !.pc = "locked"])
    /\ UNCHANGED <<relay, disk, started>>

\* apply_tick and maybe_flush, even when a stop landed meanwhile.
ApplyTick(c) ==
    /\ core[c].pc = "locked"
    /\ \E due \in BOOLEAN :
          ApplyHarvest(c, [core[c] EXCEPT !.pc = "outbox", !.harvest = {}], core[c].harvest, due)
    /\ UNCHANGED <<relay, started>>

\* The outbox: record a finished round, then hand the queue to the next one.
Outbox(c) ==
    /\ core[c].pc = "outbox"
    /\ \/ /\ core[c].job = "done"
          /\ \E due \in BOOLEAN : ApplyRound(c, core[c], due)
       \/ /\ core[c].job # "done"
          /\ LET k == core[c]
                 send == k.job = "none" /\ k.outbox # {} IN
             Put(c, [k EXCEPT !.pc = "sleep", !.job = IF send THEN "running" ELSE @,
                              !.sending = IF send THEN k.outbox ELSE @,
                              !.outbox = IF send THEN {} ELSE @])
          /\ UNCHANGED disk
    /\ UNCHANGED <<relay, started>>

\* Mutant: a drain still in flight is dropped with the poller.
ExitDrops(c) ==
    /\ core[c].pc = "exitDrain"
    /\ Put(c, [core[c] EXCEPT !.pc = "exitOutbox", !.hand = {}, !.drain = "none"])
    /\ UNCHANGED <<relay, disk, started>>

\* After the loop: a drain in flight is joined and applied, not dropped.
ExitDrain(c) ==
    /\ core[c].pc = "exitDrain" /\ core[c].drain # "running"
    /\ \E due \in BOOLEAN :
          ApplyHarvest(c, [core[c] EXCEPT !.pc = "exitOutbox", !.hand = {}, !.drain = "none"],
                       core[c].hand, due)
    /\ UNCHANGED <<relay, started>>

\* An outbox round in flight is joined and recorded.
ExitOutbox(c) ==
    /\ core[c].pc = "exitOutbox" /\ core[c].job # "running"
    /\ LET k == [core[c] EXCEPT !.pc = "exitAbandon"] IN
       \/ core[c].job = "done" /\ \E due \in BOOLEAN : ApplyRound(c, k, due)
       \/ core[c].job = "none" /\ Put(c, k) /\ UNCHANGED disk
    /\ UNCHANGED <<relay, started>>

\* What never went out is recorded as failed, the core is dropped and the
\* exit guard fires.
ExitAbandon(c) ==
    /\ core[c].pc = "exitAbandon"
    /\ LET k == [core[c] EXCEPT !.pc = "gone", !.outbox = {}] IN
       \/ core[c].outbox # {} /\ \E due \in BOOLEAN : SaveSoon(c, k, due)
       \/ core[c].outbox = {} /\ Put(c, k) /\ UNCHANGED disk
    /\ UNCHANGED <<relay, started>>

----------------------------------------------------------------------------
(* The user, and the shutdown.                                             *)
LockFree(c) == core[c].pc # "locked"

\* An action of the user that queues a notice (delete_chat): changed and
\* saved under the lock.
UserAsks(c) ==
    /\ c = started /\ core[c].sd = "none" /\ LockFree(c)
    /\ \E n \in Notices :
          /\ Asked(n) \notin core[c].mem
          /\ Save(c, [core[c] EXCEPT !.mem = @ \cup {Asked(n)}, !.outbox = @ \cup {n}])
    /\ UNCHANGED <<relay, started>>

\* shutdown, or the next launch's retire_previous_tor_core.
ShutdownCore(c) ==
    /\ c = started /\ core[c].sd = "none"
    /\ Put(c, [core[c] EXCEPT !.sd = "close", !.stop = TRUE])
    /\ UNCHANGED <<relay, disk, started>>

\* try_close_transport
TryClose(c, then) ==
    \/ LockFree(c) /\ FlushPending(c, [core[c] EXCEPT !.closed = TRUE, !.sd = then,
                                                      !.early = core[c].sd = "close"], TRUE)
    \/ ~LockFree(c) /\ Put(c, [core[c] EXCEPT !.sd = then]) /\ UNCHANGED disk

CloseEarly(c) ==
    /\ core[c].sd = "close" /\ TryClose(c, "wait")
    /\ UNCHANGED <<relay, started>>

\* Mutant: the launch only asks the old poller to stop.
DoNotWait(c) ==
    /\ core[c].sd = "wait"
    /\ Put(c, [core[c] EXCEPT !.sd = IF core[c].early THEN "done" ELSE "close2"])
    /\ UNCHANGED <<relay, disk, started>>

\* wait_for_exit, which a slow poller outlasts.
WaitForExit(c) ==
    /\ core[c].sd = "wait" /\ (core[c].pc = "gone" \/ SlowPoller)
    /\ Put(c, [core[c] EXCEPT !.sd = IF core[c].early THEN "done" ELSE "close2"])
    /\ UNCHANGED <<relay, disk, started>>

CloseLate(c) ==
    /\ core[c].sd = "close2" /\ TryClose(c, "done")
    /\ UNCHANGED <<relay, started>>

\* new_tor once the previous core is retired: load the state file and start.
Launch ==
    /\ started < MaxCores /\ core[started].sd = "done"
    /\ started' = started + 1
    /\ Put(started + 1, NewCore(disk))
    /\ UNCHANGED <<relay, disk>>

LifeDone ==
    /\ started = MaxCores /\ \A c \in Cores : core[c].sd = "done" /\ core[c].pc = "gone"
    /\ UNCHANGED lifeVars

PollerStep(c) ==
    \/ Sleep(c) \/ Collect(c) \/ TakeLock(c) \/ ApplyTick(c) \/ Outbox(c)
    \/ ExitDrain(c) \/ ExitOutbox(c) \/ ExitAbandon(c)
ShutdownStep(c) == CloseEarly(c) \/ WaitForExit(c) \/ CloseLate(c)
LifeNext ==
    \/ \E c \in 1 .. started :
          \/ PollerStep(c) \/ DrainTake(c) \/ DrainEnd(c) \/ OutboxEnd(c)
          \/ UserAsks(c) \/ ShutdownCore(c) \/ ShutdownStep(c)
    \/ Launch \/ LifeDone

LifeSpec == LifeInit /\ [][LifeNext]_lifeVars

\* Threads run, and every request of a job ends: answered, timed out, or
\* abandoned by the closing transport.
LifeFairness ==
    \A c \in Cores :
        /\ WF_lifeVars(c <= started /\ PollerStep(c)) /\ WF_lifeVars(DrainEnd(c))
        /\ WF_lifeVars(OutboxEnd(c)) /\ WF_lifeVars(ShutdownStep(c))
LifeFairSpec == LifeSpec /\ LifeFairness

----------------------------------------------------------------------------
\* A message taken off the relays is never lost with its core: it is in the
\* hands of a poller that is still running, or in the state file (the poller
\* applies a drain even when a stop landed, and saves new messages at once).
MessagesSurviveShutdown ==
    \A m \in Messages :
        \/ m \in relay \/ Got(m) \in disk
        \/ \E c \in Cores : Running(c) /\ m \in core[c].hand \cup core[c].harvest

\* A core that is asked to stop stops: its poller exits, and the shutdown
\* that waits for it returns, however the jobs and the lock interleave.
ShutdownEnds == \A c \in Cores : core[c].stop ~> core[c].pc = "gone" /\ core[c].sd = "done"

=============================================================================
