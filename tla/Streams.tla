------------------------------ MODULE Streams ------------------------------
(***************************************************************************)
(* The relay's front door (relay/src/main.rs, stats.rs): rendezvous        *)
(* streams admitted up to a cap, each served by a task that reads request  *)
(* lines under a relay-wide byte budget, paces them with a token bucket    *)
(* and ends in one counted outcome; and the statistics reporter beside it. *)
(* The store behind handle_line is the module RelayStore.                  *)
(***************************************************************************)
EXTENDS Naturals, FiniteSets, Tally

CONSTANTS
    Streams,       \* rendezvous requests that arrive
    OpenCaps,      \* the values of MAX_CONCURRENT_STREAMS considered
    LineCap,       \* MAX_LINE_BYTES_IN_FLIGHT, in chunks
    MaxLine,       \* max_line_bytes, in chunks
    Burst,         \* REQ_BURST
    MaxRequests,   \* bound on the lines of one stream
    MaxReports     \* bound on the statistics intervals

NoOne == "nobody"

ASSUME StreamsAssumption ==
    /\ IsFiniteSet(Streams) /\ NoOne \notin Streams
    /\ OpenCaps \subseteq Nat \ {0} /\ LineCap \in Nat /\ MaxLine \in Nat /\ Burst \in Nat \ {0}
    /\ MaxRequests \in Nat /\ MaxReports \in Nat

VARIABLES
    cap,        \* MAX_CONCURRENT_STREAMS, fixed for a behaviour
    active,     \* the live-stream counter
    refusing,   \* the stream the accept loop counted and is about to refuse, if any
    task,       \* per stream: where it is and what it holds
    inFlight,   \* LINE_BYTES_IN_FLIGHT
    stats,      \* the counters of this interval, and the peak
    report,     \* the reporter: idle, or holding the level it loaded
    counted     \* ghost: what the reports so far said
strVars == <<cap, active, refusing, task, inFlight, stats, report, counted>>

Counters == {"accepted", "accept_failed", "dropped_capacity", "stream_errors",
             "line_too_long", "line_busy", "rate_limited", "timed_out"}
Live == {s \in Streams : task[s].pc \in {"accepting", "reading"}}
Shares == [s \in Streams |-> task[s].buf]
Bump(c) == [stats EXCEPT ![c] = @ + 1]

StrInit ==
    /\ cap \in OpenCaps
    /\ active = 0 /\ refusing = NoOne /\ inFlight = 0
    /\ task = [s \in Streams |->
          [pc |-> "due", buf |-> 0, tokens |-> Burst, lines |-> 0, eof |-> FALSE, outcome |-> "none"]]
    /\ stats = [c \in Counters \cup {"peak"} |-> 0]
    /\ report = [busy |-> FALSE, open |-> 0, done |-> 0]
    /\ counted = [c \in Counters |-> 0]

---------------------------------------------------------------------------
(* The accept loop: count first, then refuse past the cap.                 *)

AtCapacity(open) == open >= cap

AdmitStream(s) ==
    /\ refusing = NoOne /\ task[s].pc = "due"
    /\ active' = active + 1
    /\ IF AtCapacity(active)
       THEN refusing' = s /\ UNCHANGED <<task, stats>>
       ELSE /\ task' = [task EXCEPT ![s].pc = "accepting"]
            /\ stats' = [stats EXCEPT !.peak = IF active + 1 > @ THEN active + 1 ELSE @]
            /\ UNCHANGED refusing
    /\ UNCHANGED <<cap, inFlight, report, counted>>

Refuse ==
    /\ refusing # NoOne
    /\ active' = active - 1 /\ refusing' = NoOne
    /\ task' = [task EXCEPT ![refusing].pc = "over", ![refusing].outcome = "dropped_capacity"]
    /\ stats' = Bump("dropped_capacity")
    /\ UNCHANGED <<cap, inFlight, report, counted>>

---------------------------------------------------------------------------
(* The task of one stream.  Its guard gives the slot back and its line     *)
(* gives its bytes back however it ends.                                   *)

AcceptOk(s) ==
    /\ task[s].pc = "accepting"
    /\ task' = [task EXCEPT ![s].pc = "reading"]
    /\ stats' = Bump("accepted")
    /\ UNCHANGED <<cap, active, refusing, inFlight, report, counted>>

\* Mutant: the error paths of the read return without dropping the line's share.
EndKeepsShare(s, outcome) ==
    /\ active' = active - 1
    /\ task' = [task EXCEPT ![s].pc = "over", ![s].buf = 0, ![s].outcome = outcome]
    /\ stats' = IF outcome \in Counters THEN Bump(outcome) ELSE stats
    /\ UNCHANGED <<cap, refusing, inFlight, report, counted>>

EndStream(s, outcome) ==
    /\ active' = active - 1
    /\ inFlight' = inFlight - task[s].buf
    /\ task' = [task EXCEPT ![s].pc = "over", ![s].buf = 0, ![s].outcome = outcome]
    /\ stats' = IF outcome \in Counters THEN Bump(outcome) ELSE stats
    /\ UNCHANGED <<cap, refusing, report, counted>>

AcceptFail(s) == task[s].pc = "accepting" /\ EndStream(s, "accept_failed")

Reading(s) == task[s].pc = "reading" /\ ~task[s].eof

\* One more chunk of a request line: over the relay-wide budget the stream is
\* told the relay is busy, over the line cap that the line is too long.
GrowBudget == inFlight + 1 <= LineCap

ReadChunk(s) ==
    /\ Reading(s) /\ task[s].lines < MaxRequests
    /\ IF ~GrowBudget THEN EndStream(s, "line_busy")
       ELSE IF task[s].buf + 1 > MaxLine THEN EndStream(s, "line_too_long")
       ELSE /\ inFlight' = inFlight + 1
            /\ task' = [task EXCEPT ![s].buf = @ + 1]
            /\ UNCHANGED <<cap, active, refusing, stats, report, counted>>

\* A whole line: its share is returned, a token is taken, and the request is
\* answered; without a token the connection is closed.  A stream that ends in
\* the middle of a line has that line served.
TakeLine(s, last) ==
    /\ Reading(s) /\ task[s].buf > 0
    /\ IF task[s].tokens < 1 THEN EndStream(s, "rate_limited")
       ELSE /\ inFlight' = inFlight - task[s].buf
            /\ task' = [task EXCEPT ![s].buf = 0, ![s].tokens = @ - 1, ![s].lines = @ + 1,
                                    ![s].eof = last]
            /\ UNCHANGED <<cap, active, refusing, stats, report, counted>>

Refill(s) ==
    /\ task[s].pc = "reading" /\ task[s].tokens < Burst
    /\ task' = [task EXCEPT ![s].tokens = @ + 1]
    /\ UNCHANGED <<cap, active, refusing, inFlight, stats, report, counted>>

\* A clean end, or the end after a last line without its newline.
CleanEof(s) == task[s].pc = "reading" /\ task[s].buf = 0 /\ EndStream(s, "eof")

\* Nothing for LINE_IDLE, or slower than MIN_LINE_RATE past LINE_GRACE.
TimeOut(s) == Reading(s) /\ EndStream(s, "timed_out")

\* The client hangs up, or the circuit dies under a read or a write.
StreamFails(s) == task[s].pc = "reading" /\ EndStream(s, "stream_errors")

---------------------------------------------------------------------------
(* The reporter: it loads the level of open streams, then swaps out every  *)
(* counter and seeds the next interval's peak with that level.             *)

LoadLevel ==
    /\ ~report.busy /\ report.done < MaxReports
    /\ report' = [report EXCEPT !.busy = TRUE, !.open = active]
    /\ UNCHANGED <<cap, active, refusing, task, inFlight, stats, counted>>

\* Mutant: the counters are read without being reset.
SwapReadsOnly == [stats EXCEPT !.peak = report.open]

Swapped == [c \in DOMAIN stats |-> IF c = "peak" THEN report.open ELSE 0]

ReportLine ==
    /\ report.busy
    /\ counted' = [c \in Counters |-> counted[c] + stats[c]]
    /\ stats' = Swapped
    /\ report' = [busy |-> FALSE, open |-> 0, done |-> report.done + 1]
    /\ UNCHANGED <<cap, active, refusing, task, inFlight>>

StrNext ==
    \/ \E s \in Streams :
          \/ AdmitStream(s) \/ AcceptOk(s) \/ AcceptFail(s)
          \/ ReadChunk(s) \/ TakeLine(s, FALSE) \/ TakeLine(s, TRUE) \/ Refill(s)
          \/ CleanEof(s) \/ TimeOut(s) \/ StreamFails(s)
    \/ Refuse
    \/ LoadLevel
    \/ ReportLine

StrSpec == StrInit /\ [][StrNext]_strVars

---------------------------------------------------------------------------

\* No more tasks than the cap, and no more bytes than the budget.
StrTypeOK ==
    /\ active \in Nat /\ inFlight \in 0..LineCap
    /\ Cardinality(Live) <= cap
    /\ \A s \in Streams : task[s].buf \in 0..MaxLine /\ task[s].tokens \in 0..Burst

\* The slot counter and the byte budget never drift from the streams and the
\* lines that hold them, on any way out of a task (ConnGuard, LineBudget): a
\* drift would close the relay to everyone for good.
SlotsAndBytesExact ==
    /\ active = Cardinality(Live) + IF refusing = NoOne THEN 0 ELSE 1
    /\ inFlight = Total(Streams, Shares)

\* Every stream is reported in exactly one counter, in the interval it ended
\* in, however the reporter interleaves with the tasks (Stats::take_line).
CountedOnce ==
    \A c \in Counters \ {"accepted"} :
        counted[c] + stats[c] = Cardinality({s \in Streams : task[s].outcome = c})

\* SlotsAndBytesExact and CountedOnce: no stream leaks a slot, a byte or a count.
StreamsHold == StrTypeOK /\ SlotsAndBytesExact /\ CountedOnce
=============================================================================
