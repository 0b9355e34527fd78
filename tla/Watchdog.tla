----------------------------- MODULE Watchdog ------------------------------
(***************************************************************************)
(* The relay's watchdog: each cycle dials the relay's own onion, reads the *)
(* publisher's account of the descriptor, and decides whether the process  *)
(* exits for a restart; repeated restarts escalate to a reset of the entry *)
(* guards.  One unit of time is one cycle.  What is wrong with the relay   *)
(* is a fault of the environment that a restart or a guard reset repairs.  *)
(***************************************************************************)
EXTENDS Naturals

CONSTANTS
    MaxDark,          \* WATCHDOG_MAX_DARK, in cycles
    ResetThreshold,   \* UNHEALTHY_RESET_THRESHOLD
    WatchFaults       \* what may go wrong in a behaviour

ASSUME WatchdogAssumption ==
    /\ MaxDark \in Nat \ {0} /\ ResetThreshold \in Nat
    /\ WatchFaults \subseteq {"ring", "rings", "intro", "guards", "offline", "probe"}

NotDark == MaxDark + 1

VARIABLES
    fault,      \* what is wrong now, "none" when nothing is
    clocks,     \* cycles the publisher and the dial have each been bad; NotDark when good
    served,     \* whether a stream was accepted since the dial's clock started
    unhealthy,  \* the persisted escalation counter
    up,         \* whether the process runs
    seen        \* restarts since the last healthy cycle and whether guards were reset in them;
                \* whether this fault came before
watchVars == <<fault, clocks, served, unhealthy, up, seen>>

Clear == [publisher |-> NotDark, dial |-> NotDark]
WatchTypeOK ==
    /\ fault \in WatchFaults \cup {"none"} /\ clocks \in [{"publisher", "dial"} -> 0 .. NotDark]
    /\ unhealthy \in 0 .. ResetThreshold + 2

WatchInit ==
    /\ fault = "none" /\ clocks = Clear /\ served = FALSE /\ unhealthy = 0 /\ up = TRUE
    /\ seen = [restarts |-> 0, reset |-> FALSE, broke |-> FALSE]

\* What each fault does to the signals.  The descriptor is missing from the
\* ring the probe does not look at ("ring") or the one it does ("rings"), and
\* clients of the other ring are served.  A "probe" fault is in the relay's own
\* dial only.
DialFails == fault \in {"rings", "intro", "guards", "offline", "probe"}
PublisherDark == fault \in {"ring", "rings"}
ClientUnusable == fault = "offline"
CanServe == fault \in {"none", "ring", "rings", "probe"}
\* The probe's own stream is accepted, whether or not it is answered.
ProbeIsAccepted == fault \in {"none", "ring"}

\* Mutant: every bad cycle starts the clock again.
AgedAfresh(age, bad) == IF ~bad THEN NotDark ELSE 0

\* DarkClocks::observe: each clock starts when its own signal goes bad.
Aged(age, bad) == IF ~bad THEN NotDark ELSE IF age = NotDark THEN 0
                  ELSE IF age < MaxDark THEN age + 1 ELSE age
Observed == [publisher |-> Aged(clocks.publisher, PublisherDark), dial |-> Aged(clocks.dial, DialFails)]
DarkFor == IF PublisherDark THEN Observed.publisher ELSE Observed.dial
Escalate == IF DarkFor < MaxDark THEN "dark" ELSE "restart"

\* A stream accepted since the dial's clock started: a client's, or the
\* watchdog's own probe while the clock was running.
ServedSinceDark == Observed.dial # NotDark /\ (served \/ (ProbeIsAccepted /\ clocks.dial # NotDark))

\* Mutant: an unusable Tor client is not asked about.
VerdictUnvetoed ==
    IF ~DialFails /\ ~PublisherDark THEN "healthy"
    ELSE IF ServedSinceDark THEN "inconclusive" ELSE Escalate

\* Cycle::verdict
VerdictOf ==
    IF ~DialFails /\ ~PublisherDark THEN "healthy"
    ELSE IF ClientUnusable THEN "inconclusive"
    ELSE IF PublisherDark THEN Escalate
    ELSE IF ServedSinceDark THEN "inconclusive" ELSE Escalate

\* DarkClocks::excuse: a veto is spent only against what it explains.
Excused == IF ClientUnusable THEN Clear ELSE [Observed EXCEPT !.dial = NotDark]

----------------------------------------------------------------------------
\* One watchdog cycle.
WatchCycle ==
    /\ up
    /\ \/ /\ VerdictOf = "healthy"
          /\ clocks' = Clear /\ unhealthy' = 0 /\ up' = TRUE
          /\ seen' = [seen EXCEPT !.restarts = 0, !.reset = FALSE]
       \/ /\ VerdictOf = "inconclusive"
          /\ clocks' = Excused /\ UNCHANGED <<unhealthy, up, seen>>
       \/ /\ VerdictOf = "dark"
          /\ clocks' = Observed /\ UNCHANGED <<unhealthy, up, seen>>
       \/ /\ VerdictOf = "restart"
          /\ unhealthy' = (IF unhealthy < ResetThreshold + 2 THEN unhealthy + 1 ELSE unhealthy)
          /\ up' = FALSE /\ clocks' = Clear
          /\ seen' = [seen EXCEPT !.restarts = IF @ < ResetThreshold THEN @ + 1 ELSE @]
    /\ served' = (served /\ clocks'.dial # NotDark)
    /\ UNCHANGED fault

\* A client's stream is accepted while the dial's clock runs.
ServeClient ==
    /\ up /\ CanServe /\ clocks.dial # NotDark /\ ~served
    /\ served' = TRUE
    /\ UNCHANGED <<fault, clocks, unhealthy, up, seen>>

\* Plain restarts did not help: the guard set is wedged.
ResetDue == unhealthy >= ResetThreshold

\* systemd starts the relay again: new introduction points, a fresh
\* descriptor, and new entry guards when the counter says so.
RelayStart ==
    /\ ~up
    /\ up' = TRUE /\ clocks' = Clear /\ served' = FALSE
    /\ fault' = IF fault \in {"ring", "rings", "intro"} \/ (fault = "guards" /\ ResetDue) THEN "none"
                ELSE fault
    /\ seen' = [seen EXCEPT !.reset = @ \/ ResetDue]
    /\ UNCHANGED unhealthy

\* Something breaks, once; being offline, and a broken probe, end on their own.
Break ==
    /\ fault = "none" /\ ~seen.broke
    /\ fault' \in WatchFaults
    /\ seen' = [seen EXCEPT !.broke = TRUE]
    /\ UNCHANGED <<clocks, served, unhealthy, up>>
Mend ==
    /\ fault \in {"offline", "probe"}
    /\ fault' = "none"
    /\ UNCHANGED <<clocks, served, unhealthy, up, seen>>

WatchNext == WatchCycle \/ ServeClient \/ RelayStart \/ Break \/ Mend
\* The cycles are on a timer and systemd restarts the process.
WatchFairness == WF_watchVars(WatchCycle) /\ WF_watchVars(RelayStart)
WatchSpec == WatchInit /\ [][WatchNext]_watchVars /\ WatchFairness

----------------------------------------------------------------------------
\* A relay that clients cannot reach, or only over one of the two rings, is
\* brought back: by a restart, or by the guard reset plain restarts escalate
\* to, however many clients the other ring serves meanwhile.
EventuallyReachable == fault \in {"ring", "rings", "intro", "guards"} ~> fault = "none"

\* The entry guards are kept unless plain restarts have failed: a reset comes
\* only after ResetThreshold restarts without a healthy cycle in between.
GuardsAreSticky == seen.reset => seen.restarts >= ResetThreshold

\* Someone else's outage is no reason to restart: while the relay's own Tor
\* client cannot use the network, no cycle ends the process.
OfflineIsNotRestarted == [][fault = "offline" /\ up => up']_watchVars

\* GuardsAreSticky and OfflineIsNotRestarted: the watchdog resets the guards, or
\* restarts at all, only for a fault that it can mend.
RestartsAreJustified == []GuardsAreSticky /\ OfflineIsNotRestarted

=============================================================================
