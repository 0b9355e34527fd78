----------------------------- MODULE Retention -----------------------------
(***************************************************************************)
(* What a chat keeps and for how long: burn messages, the disappearing     *)
(* timer, opt-in server storage, and the daily allowance of a contact      *)
(* (core/src/node/messaging.rs, frames.rs, limits.rs).                     *)
(*                                                                         *)
(* Two devices share one approved chat.  Frames travel as a set: a direct  *)
(* dial may overtake a relay copy, and any frame may be lost.  Time is a   *)
(* clock of coarse ticks; a pump (with its burn sweep) runs on every       *)
(* running device before the next tick, the slower time sweep runs when    *)
(* the poller reaches the relay cadence.                                   *)
(***************************************************************************)
EXTENDS Naturals, Sequences, FiniteSets, SequencesExt, Tally

CONSTANTS
    Texts,        \* message ids
    RetCases,     \* what the users may do, one record per case: the burn_secs and the
                  \* disappearing_secs they choose (0: none), the storage switches they
                  \* make, how many settings they change and kills they suffer, who
                  \* sends and who changes settings, and whether frames are lost and
                  \* view receipts are on offer
    RelayKeeps,     \* RELAY_TTL and DAY_SECS, in ticks
    MaxPerDay,    \* MAX_MESSAGES_PER_DAY
    MaxClock      \* bound on the clock

ASSUME RetentionAssumption ==
    /\ \A c \in RetCases :
          c \in [texts : {{}}, burns : SUBSET Nat, timers : SUBSET Nat, switches : SUBSET BOOLEAN,
                changes : Nat, reboots : Nat, senders : SUBSET {"a", "b"}, changers : SUBSET {"a", "b"},
                losses : BOOLEAN, receipts : BOOLEAN]
    /\ RelayKeeps \in Nat \ {0} /\ MaxPerDay \in Nat \ {0}
    /\ MaxClock \in Nat

VARIABLES
    clock,    \* now_secs
    chat,     \* per device: the chat's settings, timelines and history
    air,      \* frames under way
    taps,     \* reveals shown on screen whose call has not reached the core
    shown,    \* ghost: per device, when each burn message was first shown
    kept,     \* ghost: per device, the messages kept with every timer off
    arrived,  \* ghost: per device, how many items a contact added per tick
    spent     \* the case, and what it has left to do

retVars == <<clock, chat, air, taps, shown, kept, arrived, spent>>

Devices == {"a", "b"}

Peer(d) == IF d = "a" THEN "b" ELSE "a"

Never == MaxClock + 1

---------------------------------------------------------------------------
(* The timelines.                                                          *)

\* The value of the last switch made at or before `at`.
LastChange(line, at, default) ==
    LET past == {i \in DOMAIN line : line[i].changed <= at}
    IN  IF past = {} THEN default
        ELSE line[CHOOSE i \in past : \A j \in past : j <= i].value

StorageOnAt(line, at) == LastChange(line, at, FALSE)

\* Mutant: the timer in force now, whatever was in force then.
TimerNow(line, at) == IF line = <<>> THEN 0 ELSE Last(line).value

TimerAt(line, at) == LastChange(line, at, 0)

---------------------------------------------------------------------------
(* The daily allowance.                                                    *)

FreshAllowance(now) == [start |-> now, messages |-> 0, noticed |-> FALSE]

Windowed(al, now) ==
    IF now >= al.start + RelayKeeps THEN FreshAllowance(now) ELSE al

\* Mutant: the item that reaches the limit still fits.
AdmitOneMore(al, now) ==
    LET w == Windowed(al, now)
    IN  IF w.messages > MaxPerDay
        THEN [yes |-> FALSE, al |-> [w EXCEPT !.noticed = TRUE]]
        ELSE [yes |-> TRUE,  al |-> [w EXCEPT !.messages = @ + 1]]

\* Allowance::admit: whether the item is kept, and the allowance after it.
Admit(al, now) ==
    LET w == Windowed(al, now)
    IN  IF w.messages >= MaxPerDay
        THEN [yes |-> FALSE, al |-> [w EXCEPT !.noticed = TRUE]]
        ELSE [yes |-> TRUE,  al |-> [w EXCEPT !.messages = @ + 1]]

---------------------------------------------------------------------------
(* Messages.                                                               *)

Entry(id, mine, burn, delivery) ==
    [id |-> id, at |-> clock, mine |-> mine, burn |-> burn, viewed |-> Never,
     delivery |-> delivery, expired |-> FALSE]

\* An unopened burn message of the peer's at its horizon leaves a marker that
\* no reveal, receipt or sweep matches again.
Tombstone(m) == [m EXCEPT !.burn = 0, !.viewed = Never, !.expired = TRUE, !.delivery = ""]

Unopened(m, now) ==
    m.burn > 0 /\ ~m.mine /\ m.viewed = Never /\ now - m.at >= RelayKeeps

BurnDone(m, now) ==
    /\ m.burn > 0
    /\ IF m.viewed # Never THEN now - m.viewed >= m.burn ELSE now - m.at >= RelayKeeps

SweepBurns(history, now) ==
    LET marked == {IF Unopened(m, now) THEN Tombstone(m) ELSE m : m \in history}
    IN  {m \in marked : ~BurnDone(m, now)}

\* sweep_time: queued messages past the relay's TTL show as expired, and what
\* was sent or received under a timer or under server storage is deleted.
Expired(c, m, now) ==
    LET age   == now - m.at
        timer == TimerAt(c.timerLine, m.at)
    IN  \/ StorageOnAt(c.storageLine, m.at) /\ age > RelayKeeps
        \/ timer > 0 /\ age > timer

SweepTime(c, now) ==
    LET burned == SweepBurns(c.history, now)
        badged == {IF m.mine /\ m.delivery = "queued" /\ now - m.at > RelayKeeps
                   THEN [m EXCEPT !.delivery = "expired"] ELSE m : m \in burned}
    IN  {m \in badged : ~Expired(c, m, now)}

Holds(d, id) == \E m \in chat[d].history : m.id = id

Unmarked(c) == c.timer = 0 /\ ~c.storage

---------------------------------------------------------------------------
(* What the users do.                                                      *)

\* send and send_burn (refused when the timer is 0 or the peer cannot burn;
\* both ends here have announced it).  The frame is dialled, or queued.
SendText(d, id, burn, delivery) ==
    /\ chat[d].up
    /\ id \in spent.texts
    /\ chat' = [chat EXCEPT ![d].history = @ \cup {Entry(id, TRUE, burn, delivery)}]
    /\ air' = air \cup {[kind |-> "text", to |-> Peer(d), id |-> id, burn |-> burn]}
    /\ kept' = [kept EXCEPT ![d] = IF burn = 0 /\ Unmarked(chat[d]) THEN @ \cup {<<id, clock>>} ELSE @]
    /\ spent' = [spent EXCEPT !.texts = @ \ {id}]
    /\ UNCHANGED <<clock, taps, shown, arrived>>

SetDisappearing(d, secs) ==
    /\ chat[d].up
    /\ spent.changes > 0
    /\ chat' = [chat EXCEPT ![d].timer = secs,
                            ![d].timerLine = Append(@, [changed |-> clock, value |-> secs])]
    /\ air' = air \cup {[kind |-> "timer", to |-> Peer(d), secs |-> secs, nth |-> spent.changes]}
    /\ spent' = [spent EXCEPT !.changes = @ - 1]
    /\ UNCHANGED <<clock, taps, shown, kept, arrived>>

SetRemoteStorage(d, on) ==
    /\ chat[d].up
    /\ spent.changes > 0
    /\ chat' = [chat EXCEPT ![d].storage = on,
                            ![d].storageLine = Append(@, [changed |-> clock, value |-> on])]
    /\ air' = air \cup {[kind |-> "storage", to |-> Peer(d), on |-> on, nth |-> spent.changes]}
    /\ spent' = [spent EXCEPT !.changes = @ - 1]
    /\ UNCHANGED <<clock, taps, shown, kept, arrived>>

SetBurnReceipts(d) ==
    /\ chat[d].up /\ ~chat[d].receipts /\ spent.receipts
    /\ chat' = [chat EXCEPT ![d].receipts = TRUE]
    /\ UNCHANGED <<clock, air, taps, shown, kept, arrived, spent>>

\* The UI (external) reveals a burn message on the tap and only then calls the
\* core, with one call per message under way.
Reveal(d, id) ==
    /\ chat[d].up
    /\ \E m \in chat[d].history : m.id = id /\ m.burn > 0 /\ ~m.mine
    /\ ~\E t \in taps : t[1] = d /\ t[2] = id
    /\ taps' = taps \cup {<<d, id, clock>>}
    /\ shown' = [shown EXCEPT ![d][id] = IF @ = Never THEN clock ELSE @]
    /\ UNCHANGED <<clock, chat, air, kept, arrived, spent>>

\* Mutant: the countdown starts when the call arrives.
ViewedOnArrival(m, at) == IF m.viewed # Never THEN m.viewed ELSE clock

\* mark_burn_viewed, reaching the core when the lock is free: the clock starts
\* once, at the moment the message was shown, and an opted-in receipt is sent.
ViewedFrom(m, at) ==
    IF m.viewed # Never THEN m.viewed ELSE IF at < clock THEN at ELSE clock

MarkBurnViewed(d, id, at) ==
    /\ chat[d].up
    /\ <<d, id, at>> \in taps
    /\ taps' = taps \ {<<d, id, at>>}
    /\ \E old \in {{m \in chat[d].history : m.id = id /\ m.burn > 0 /\ ~m.mine}} :
        /\ chat' = [chat EXCEPT ![d].pumped = FALSE, ![d].history =
                       (@ \ old) \cup {[m EXCEPT !.viewed = ViewedFrom(m, at)] : m \in old}]
        /\ air' = IF chat[d].receipts /\ \E m \in old : m.viewed = Never
                  THEN air \cup {[kind |-> "viewed", to |-> Peer(d), id |-> id]} ELSE air
    /\ UNCHANGED <<clock, shown, kept, arrived, spent>>

---------------------------------------------------------------------------
(* What a device does with a frame that reached it.                        *)

Count(d) == arrived' = [arrived EXCEPT ![d][clock] = @ + 1]

\* A Message or a Burn: a copy held already is receipted and dropped, one past
\* the allowance as well.
RecvText(d, f) ==
    \E v \in {Admit(chat[d].allowance, clock)} :
        IF Holds(d, f.id) THEN UNCHANGED <<chat, kept, arrived>>
        ELSE /\ chat' = [chat EXCEPT ![d].allowance = v.al,
                 ![d].history = IF v.yes THEN @ \cup {Entry(f.id, FALSE, f.burn, "")} ELSE @]
             /\ IF v.yes THEN Count(d) ELSE UNCHANGED arrived
             /\ kept' = [kept EXCEPT ![d] = IF v.yes /\ f.burn = 0 /\ Unmarked(chat[d])
                                            THEN @ \cup {<<f.id, clock>>} ELSE @]

RecvTimer(d, f) ==
    \E v \in {Admit(chat[d].allowance, clock)} :
        /\ UNCHANGED kept
        /\ IF f.secs = chat[d].timer THEN UNCHANGED <<chat, arrived>>
           ELSE IF ~v.yes
           THEN chat' = [chat EXCEPT ![d].allowance = v.al] /\ UNCHANGED arrived
           ELSE /\ chat' = [chat EXCEPT ![d].allowance = v.al, ![d].timer = f.secs,
                     ![d].timerLine = Append(@, [changed |-> clock, value |-> f.secs])]
                /\ Count(d)

RecvStorage(d, f) ==
    \E v \in {Admit(chat[d].allowance, clock)} :
        /\ UNCHANGED kept
        /\ IF f.on = chat[d].storage THEN UNCHANGED <<chat, arrived>>
           ELSE IF ~v.yes
           THEN chat' = [chat EXCEPT ![d].allowance = v.al] /\ UNCHANGED arrived
           ELSE /\ chat' = [chat EXCEPT ![d].allowance = v.al, ![d].storage = f.on,
                     ![d].storageLine = Append(@, [changed |-> clock, value |-> f.on])]
                /\ Count(d)

\* A Viewed names a burn message of ours, and nothing else, to drop.
Named(m, f) == m.id = f.id /\ m.mine /\ m.burn > 0

RecvViewed(d, f) ==
    /\ chat' = [chat EXCEPT ![d].history = {m \in @ : ~Named(m, f)}]
    /\ UNCHANGED <<kept, arrived>>

RecvRetention(d, f) ==
    /\ chat[d].up /\ f \in air /\ f.to = d
    /\ air' = air \ {f}
    /\ CASE f.kind = "text"    -> RecvText(d, f)
         [] f.kind = "timer"   -> RecvTimer(d, f)
         [] f.kind = "storage" -> RecvStorage(d, f)
         [] f.kind = "viewed"  -> RecvViewed(d, f)
    /\ UNCHANGED <<clock, taps, shown, spent>>

---------------------------------------------------------------------------
(* Time, sweeps and the rest of the world.                                 *)

\* One pump of the poller: the burn sweep.
PumpSweep(d) ==
    /\ chat[d].up /\ ~chat[d].pumped
    /\ chat' = [chat EXCEPT ![d].pumped = TRUE, ![d].history = SweepBurns(@, clock)]
    /\ UNCHANGED <<clock, air, taps, shown, kept, arrived, spent>>

\* A pump on the relay cadence: the time sweep, which runs the burn sweep first.
CadenceSweep(d) ==
    /\ chat[d].up /\ ~chat[d].pumped
    /\ chat' = [chat EXCEPT ![d].pumped = TRUE, ![d].history = SweepTime(chat[d], clock)]
    /\ UNCHANGED <<clock, air, taps, shown, kept, arrived, spent>>

RetTick ==
    /\ clock < MaxClock
    /\ \A d \in Devices : chat[d].up => chat[d].pumped
    /\ clock' = clock + 1
    /\ chat' = [d \in Devices |-> [chat[d] EXCEPT !.pumped = FALSE]]
    /\ UNCHANGED <<air, taps, shown, kept, arrived, spent>>

LoseFrame(f) ==
    /\ f \in air /\ spent.losses
    /\ air' = air \ {f}
    /\ UNCHANGED <<clock, chat, taps, shown, kept, arrived, spent>>

\* A kill takes the taps the core never heard of: their message is blurred again.
KillDevice(d) ==
    /\ chat[d].up /\ spent.reboots > 0
    /\ chat' = [chat EXCEPT ![d].up = FALSE]
    /\ taps' = {t \in taps : t[1] # d}
    /\ shown' = [shown EXCEPT ![d] =
          [id \in Texts |-> IF \E m \in chat[d].history : m.id = id /\ m.viewed = Never
                            THEN Never ELSE @[id]]]
    /\ spent' = [spent EXCEPT !.reboots = @ - 1]
    /\ UNCHANGED <<clock, air, kept, arrived>>

\* The allowance is in memory only: a launch starts a fresh window.
LaunchDevice(d) ==
    /\ ~chat[d].up
    /\ chat' = [chat EXCEPT ![d].up = TRUE, ![d].pumped = FALSE,
                            ![d].allowance = FreshAllowance(0)]
    /\ arrived' = [arrived EXCEPT ![d] = [t \in 0..MaxClock |-> 0]]
    /\ UNCHANGED <<clock, air, taps, shown, kept, spent>>

---------------------------------------------------------------------------

RetInit ==
    /\ clock = 0
    /\ chat = [d \in Devices |->
          [up |-> TRUE, pumped |-> FALSE, timer |-> 0, storage |-> FALSE, timerLine |-> <<>>,
           storageLine |-> <<>>, history |-> {}, receipts |-> FALSE,
           allowance |-> FreshAllowance(0)]]
    /\ air = {}
    /\ taps = {}
    /\ shown = [d \in Devices |-> [id \in Texts |-> Never]]
    /\ kept = [d \in Devices |-> {}]
    /\ arrived = [d \in Devices |-> [t \in 0..MaxClock |-> 0]]
    /\ spent \in {[c EXCEPT !.texts = Texts] : c \in RetCases}

RetNext ==
    \/ \E d \in spent.senders, id \in Texts, burn \in spent.burns, q \in {"sent", "queued"} :
            SendText(d, id, burn, q)
    \/ \E d \in spent.changers, secs \in spent.timers : SetDisappearing(d, secs)
    \/ \E d \in spent.changers, on \in spent.switches : SetRemoteStorage(d, on)
    \/ \E d \in Devices : SetBurnReceipts(d)
    \/ \E d \in Devices, id \in Texts : Reveal(d, id)
    \/ \E t \in taps : MarkBurnViewed(t[1], t[2], t[3])
    \/ \E f \in air : RecvRetention(f.to, f)
    \/ \E d \in Devices : PumpSweep(d)
    \/ \E d \in Devices : CadenceSweep(d)
    \/ RetTick
    \/ \E f \in air : LoseFrame(f)
    \/ \E d \in Devices : KillDevice(d)
    \/ \E d \in Devices : LaunchDevice(d)

RetSpec == RetInit /\ [][RetNext]_retVars

---------------------------------------------------------------------------

\* Every chat holds each message once, stamped no later than now.
RetTypeOK ==
    /\ clock \in 0..MaxClock
    /\ \A d \in Devices : \A m, n \in chat[d].history :
          m.id \in Texts /\ m.at <= clock /\ (m.id = n.id => m = n)

\* A burn message is deleted on the countdown its reader watched: once the
\* pump of a tick has run and the reveal has reached the core, no copy
\* outlives its first showing by burn_secs, however late the call arrived and
\* however often the chat was reopened (mark_burn_viewed, sweep_burns).
BurnsOnTime ==
    \A d \in Devices : \A m \in chat[d].history :
        (/\ chat[d].up /\ chat[d].pumped /\ m.burn > 0
         /\ shown[d][m.id] # Never
         /\ ~\E t \in taps : t[1] = d /\ t[2] = m.id)
            => clock < shown[d][m.id] + m.burn

\* Deletion is forward-only: a message kept while no timer and no server
\* storage was on stays, whatever is switched on later and whatever receipts
\* arrive (storage_on_at, timer_at, the Viewed handler).  A switch made in the
\* same tick counts as made before the message: stamps are whole seconds.
SwitchedAt(c, t) ==
    \/ \E i \in DOMAIN c.timerLine : c.timerLine[i].changed = t
    \/ \E i \in DOMAIN c.storageLine : c.storageLine[i].changed = t

OldMessagesStay ==
    \A d \in Devices : \A k \in kept[d] : Holds(d, k[1]) \/ SwitchedAt(chat[d], k[2])

\* A contact adds at most two days' allowance in any one day, the worst the
\* fixed window allows (Allowance::admit).
AllowanceHolds ==
    \A d \in Devices : \A t \in 0..MaxClock :
        Total({u \in 0..MaxClock : t <= u /\ u < t + RelayKeeps}, arrived[d]) <= 2 * MaxPerDay

\* BurnsOnTime, OldMessagesStay and AllowanceHolds: what must go goes on time, what
\* must stay stays, and a contact's allowance is kept.
DeletionHolds == RetTypeOK /\ BurnsOnTime /\ OldMessagesStay /\ AllowanceHolds
=============================================================================
