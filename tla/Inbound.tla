------------------------------ MODULE Inbound ------------------------------
(***************************************************************************)
(* Frames coming in over any transport: connections read by a task each,   *)
(* a byte budget they share without a lock, and the channel the core       *)
(* drains on its own schedule (transport/inbound.rs and its users tor.rs,  *)
(* nearby.rs, lan.rs, tcp.rs).  The compare-and-swap loop of the budget is *)
(* modelled step by step.                                                  *)
(***************************************************************************)
EXTENDS Naturals, Sequences, FiniteSets, Tally

CONSTANTS
    Conns,        \* connections
    Sizes,        \* frame lengths a peer announces
    MaxFrame,     \* MAX_FRAME_BYTES
    BudgetLimit,  \* INBOUND_BUDGET_BYTES
    MaxConns,     \* MAX_CONNECTIONS of the nearby listener
    MaxFrames     \* bound on the frames of one connection

ASSUME InboundAssumption ==
    /\ IsFiniteSet(Conns) /\ Sizes \subseteq Nat /\ MaxFrame \in Nat /\ BudgetLimit \in Nat
    /\ MaxConns \in Nat /\ MaxFrames \in Nat

VARIABLES
    held,      \* the budget's atomic count
    conn,      \* per connection: its reader
    channel,   \* lengths of the frames waiting for the core
    open,      \* connections counted by the listener
    gone       \* the transport was dropped: nobody receives any more
inbVars == <<held, conn, channel, open, gone>>

Lengths == [c \in Conns |-> conn[c].len]
InHand == {c \in Conns : conn[c].pc \in {"body", "push"}}
Waiting == {c \in Conns : conn[c].pc \in {"load", "swap"}}
SetPc(c, pc) == conn' = [conn EXCEPT ![c].pc = pc]

InbInit ==
    /\ held = 0 /\ channel = <<>> /\ open = 0 /\ gone = FALSE
    /\ conn = [c \in Conns |-> [pc |-> "due", len |-> 0, seen |-> 0, frames |-> 0]]

---------------------------------------------------------------------------
\* The listener: a connection past the cap is counted and uncounted.
Accept(c) ==
    /\ conn[c].pc = "due" /\ ~gone
    /\ IF open >= MaxConns THEN SetPc(c, "shut") /\ UNCHANGED open
       ELSE SetPc(c, "prefix") /\ open' = open + 1
    /\ UNCHANGED <<held, channel, gone>>

\* Mutant: the task ends without uncounting its connection.
ShutCounted(c) == SetPc(c, "shut") /\ UNCHANGED open

\* A task ends; its connection is uncounted.
Shut(c) == SetPc(c, "shut") /\ open' = open - 1

\* The length prefix: too long a frame, or none within the idle timeout, ends
\* the connection.
Prefix(c, len) ==
    /\ conn[c].pc = "prefix" /\ conn[c].frames < MaxFrames /\ len <= MaxFrame
    /\ conn' = [conn EXCEPT ![c].pc = "load", ![c].len = len, ![c].frames = @ + 1]
    /\ UNCHANGED <<held, channel, open, gone>>

BadPrefix(c) ==
    /\ conn[c].pc = "prefix"
    /\ Shut(c)
    /\ UNCHANGED <<held, channel, gone>>

---------------------------------------------------------------------------
(* try_reserve, one atomic access per step.                                *)

Load(c) ==
    /\ conn[c].pc = "load"
    /\ conn' = [conn EXCEPT ![c].pc = "swap", ![c].seen = held]
    /\ UNCHANGED <<held, channel, open, gone>>

\* Mutant: room is judged without the frame that wants it.
NoRoomLeft(seen, len) == seen # 0 /\ seen > BudgetLimit

NoRoom(seen, len) == seen # 0 /\ seen + len > BudgetLimit

\* Mutant: the count is stored without comparing it with what was read.
SwapBlindly(c) == TRUE

SwapSucceeds(c) == held = conn[c].seen

\* The swap: it fails when the count moved, spuriously too, and starts over
\* with what is there now; without room the reader sleeps and tries again.
Reserve(c) ==
    /\ conn[c].pc = "swap"
    /\ ~NoRoom(conn[c].seen, conn[c].len)
    /\ IF SwapSucceeds(c)
       THEN held' = conn[c].seen + conn[c].len /\ SetPc(c, "body")
       ELSE conn' = [conn EXCEPT ![c].seen = held] /\ UNCHANGED held
    /\ UNCHANGED <<channel, open, gone>>

WaitForRoom(c) ==
    /\ conn[c].pc = "swap" /\ NoRoom(conn[c].seen, conn[c].len)
    /\ SetPc(c, "load")
    /\ UNCHANGED <<held, channel, open, gone>>

\* Mutant: the wait has no deadline.
WaitOn(c) == FALSE

\* INBOUND_WAIT has passed: the connection is dropped, nothing was reserved.
GiveUpWaiting(c) ==
    /\ conn[c].pc = "swap" /\ NoRoom(conn[c].seen, conn[c].len)
    /\ Shut(c)
    /\ UNCHANGED <<held, channel, gone>>

Released(n) == IF held > n THEN held - n ELSE 0

---------------------------------------------------------------------------
\* The body arrives whole, or the read fails or stalls and gives its bytes back.
ReadBody(c) ==
    /\ conn[c].pc = "body"
    /\ SetPc(c, "push")
    /\ UNCHANGED <<held, channel, open, gone>>

\* Mutant: a stalled body ends the connection and keeps its reservation.
StallKeepsBytes(c) == held

AfterFailedBody(c) == Released(conn[c].len)

FailBody(c) ==
    /\ conn[c].pc = "body"
    /\ held' = AfterFailedBody(c)
    /\ Shut(c)
    /\ UNCHANGED <<channel, gone>>

\* Into the channel; once the transport is dropped the Tor reader gives the
\* bytes back, the others end holding them.
Push(c, releases) ==
    /\ conn[c].pc = "push"
    /\ IF ~gone
       THEN channel' = Append(channel, conn[c].len) /\ SetPc(c, "prefix") /\ UNCHANGED <<held, open>>
       ELSE /\ held' = IF releases THEN Released(conn[c].len) ELSE held
            /\ Shut(c) /\ UNCHANGED channel
    /\ UNCHANGED gone

\* try_recv: the core takes the oldest frame and its bytes come back.
TryRecv ==
    /\ channel # <<>> /\ ~gone
    /\ channel' = Tail(channel) /\ held' = Released(Head(channel))
    /\ UNCHANGED <<conn, open, gone>>

DropTransport ==
    /\ ~gone
    /\ gone' = TRUE /\ channel' = <<>>
    /\ UNCHANGED <<held, conn, open>>

InbNext ==
    \/ \E c \in Conns :
          \/ Accept(c) \/ BadPrefix(c) \/ Load(c) \/ Reserve(c) \/ WaitForRoom(c)
          \/ GiveUpWaiting(c) \/ ReadBody(c) \/ FailBody(c)
          \/ \E len \in Sizes : Prefix(c, len)
          \/ \E releases \in BOOLEAN : Push(c, releases)
    \/ TryRecv
    \/ DropTransport

\* Readers keep running, their timers fire, and the core keeps draining.
InbFairness ==
    /\ WF_inbVars(TryRecv)
    /\ \A c \in Conns :
          /\ WF_inbVars(Load(c)) /\ WF_inbVars(Reserve(c)) /\ WF_inbVars(WaitForRoom(c))
          /\ WF_inbVars(ReadBody(c) \/ FailBody(c))
          /\ WF_inbVars(\E releases \in BOOLEAN : Push(c, releases))
          /\ SF_inbVars(GiveUpWaiting(c))

InbSpec == InbInit /\ [][InbNext]_inbVars
InbFairSpec == InbSpec /\ InbFairness

---------------------------------------------------------------------------

\* The listener counts the connections being served, within its cap.
InbTypeOK ==
    /\ held \in Nat /\ open \in 0..MaxConns
    /\ open = Cardinality({c \in Conns : conn[c].pc \notin {"due", "shut"}})

\* The budget counts exactly the frames being read and the frames waiting for
\* the core, through every failure path and every interleaving of the readers'
\* swaps (try_reserve, release, read_frame): one leaked reservation would
\* shrink the inbound path for the rest of the run.
HeldIsExact == ~gone => held = Total(InHand, Lengths) + TotalOf(channel)

\* More than the budget is held only by a single frame, one that came when
\* nothing was held: all the bytes held are then its bytes.
BudgetHolds ==
    (~gone /\ held > BudgetLimit) =>
        (\E c \in InHand : held = conn[c].len) \/ \E i \in DOMAIN channel : held = channel[i]

\* HeldIsExact and BudgetHolds: the inbound budget counts what is held, and is kept.
InboundHolds == HeldIsExact /\ BudgetHolds

\* A reader never waits for ever: it gets its room or drops the connection.
NobodyWaitsForever == \A c \in Conns : (c \in Waiting) ~> (c \notin Waiting)
=============================================================================
