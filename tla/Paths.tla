------------------------------- MODULE Paths -------------------------------
(***************************************************************************)
(* Frames going out to one contact: the local-network path tried first     *)
(* when both sides turned Nearby on (transport/nearby.rs), the warm Tor    *)
(* streams reused between frames (transport/tor.rs send_on), the reaper of *)
(* idle streams, and the closing signal that every dial races.  Several    *)
(* threads send at once: the outbox round, a receipt, a call of the UI.    *)
(* Streams are numbered in the order they are opened.                      *)
(***************************************************************************)
EXTENDS Naturals, FiniteSets

CONSTANTS
    Threads,      \* threads that send
    MaxSends,     \* sends of one thread
    Scenes,       \* cases: whether Nearby is in use, and how many Tor streams open
    Interfaces,   \* lists of interfaces the app may report
    PeerHomes     \* addresses the contact may announce

ASSUME PathsAssumption ==
    /\ IsFiniteSet(Threads) /\ MaxSends \in Nat /\ \A s \in Scenes : s.streams \in Nat

VARIABLES
    scene,     \* the case
    call,      \* per thread: the send under way
    warm,      \* the warm stream kept for the peer, 0 for none
    opened,    \* streams opened so far
    dead,      \* streams whose circuit is gone
    route,     \* the peer's announced address, once both sides have Nearby on
    ifaces,    \* the interfaces the app last reported
    backoff,   \* the local path failed less than RETRY_AFTER ago
    probing,   \* a probe thread is running
    closing,   \* the transport is being dropped
    reaper,    \* the idle reaper runs
    misses     \* ghost: local attempts that failed in this back-off
pathVars == <<scene, call, warm, opened, dead, route, ifaces, backoff, probing, closing, reaper, misses>>

NoRoute == [class |-> "none", net |-> 0]
AtRest == [pc |-> "idle", fresh |-> FALSE, rides |-> 0, from |-> 0, sends |-> 0, result |-> "none"]

---------------------------------------------------------------------------
(* Addresses.  One is [class, net]: its private range and the network in   *)
(* it; an interface is [kind, ip].                                         *)

IsPrivate(ip) == ip.class \in {"10", "172", "192", "link"}

SameSubnet(x, y) == x.class = y.class /\ (x.class = "10" \/ x.net = y.net)

\* Wi-Fi and hotspot first, then wired, then the rest; mobile data, VPNs and
\* virtual bridges never.
InterfaceRank(kind) ==
    CASE kind = "wifi" -> 0 [] kind = "wired" -> 1 [] kind = "other" -> 2 [] OTHER -> 9

Usable(list) == {i \in list : IsPrivate(i.ip) /\ InterfaceRank(i.kind) < 9}

LocalIps(list) == {i.ip : i \in Usable(list)}

OnOurNetwork(list, ip) == \E ours \in LocalIps(list) : SameSubnet(ours, ip)

---------------------------------------------------------------------------

PathInit ==
    /\ scene \in Scenes
    /\ call = [t \in Threads |-> AtRest]
    /\ warm = 0 /\ opened = 0 /\ dead = {} /\ route = NoRoute
    /\ ifaces \in Interfaces
    /\ backoff = FALSE /\ probing = FALSE /\ closing = FALSE /\ reaper = "runs" /\ misses = 0

Goes(t, pc) == call' = [call EXCEPT ![t].pc = pc]
Ends(t, result) == call' = [call EXCEPT ![t].pc = "idle", ![t].result = result]

\* send (reuse) or send_fresh.
StartSend(t, fresh) ==
    /\ call[t].pc = "idle" /\ call[t].sends < MaxSends
    /\ call' = [call EXCEPT ![t] = [pc |-> "local", fresh |-> fresh, rides |-> 0, from |-> opened,
                                    sends |-> @.sends + 1, result |-> "none"]]
    /\ UNCHANGED <<scene, warm, opened, dead, route, ifaces, backoff, probing, closing, reaper, misses>>

\* The local path is skipped during the back-off, without a route, and when the
\* contact is not on a network of ours.
LocalUsable == ~backoff /\ route # NoRoute /\ OnOurNetwork(ifaces, route)

SkipLocal(t) ==
    /\ call[t].pc = "local" /\ ~LocalUsable
    /\ Goes(t, "take")
    /\ UNCHANGED <<scene, warm, opened, dead, route, ifaces, backoff, probing, closing, reaper, misses>>

DialLocal(t) ==
    /\ call[t].pc = "local" /\ LocalUsable
    /\ Goes(t, "exchange")
    /\ UNCHANGED <<scene, warm, opened, dead, route, ifaces, backoff, probing, closing, reaper, misses>>

\* Mutant: only a failed write starts the back-off, not a failed connect.
RecordNothing(ok) == UNCHANGED backoff /\ misses' = IF ok THEN 0 ELSE misses + 1

\* record: success clears the back-off, failure starts it.
Record(ok) == backoff' = ~ok /\ misses' = IF ok THEN 0 ELSE misses + 1

\* Connect, exchange tokens, write: on its own connection, so it is fresh.
LocalOk(t) ==
    /\ call[t].pc = "exchange"
    /\ Ends(t, "local") /\ Record(TRUE)
    /\ UNCHANGED <<scene, warm, opened, dead, route, ifaces, probing, closing, reaper>>

LocalFails(t) ==
    /\ call[t].pc = "exchange"
    /\ Goes(t, "take") /\ Record(FALSE)
    /\ UNCHANGED <<scene, warm, opened, dead, route, ifaces, probing, closing, reaper>>

\* send_on: take the warm stream out of the map, keep it only for a reuse.
\* Mutant: a fresh send keeps the warm stream too.
KeepWarm(t) == warm

Reused(t) == IF call[t].fresh THEN 0 ELSE warm

TakeStream(t) ==
    /\ call[t].pc = "take"
    /\ IF closing THEN Ends(t, "abandoned") /\ UNCHANGED warm
       ELSE /\ warm' = 0
            /\ call' = [call EXCEPT ![t].rides = Reused(t),
                                    ![t].pc = IF Reused(t) = 0 THEN "dial" ELSE "write"]
    /\ UNCHANGED <<scene, opened, dead, route, ifaces, backoff, probing, closing, reaper, misses>>

\* A write into a warm stream: a dead one may accept the bytes all the same,
\* or fail or stall, and then one new stream is dialled.
WriteWarm(t, ok) ==
    /\ call[t].pc = "write"
    /\ ok \/ call[t].rides \in dead
    /\ Goes(t, IF ok THEN "insert" ELSE "dial")
    /\ UNCHANGED <<scene, warm, opened, dead, route, ifaces, backoff, probing, closing, reaper, misses>>

\* A dial with one retry for a circuit that died under the opening stream, then
\* the write; both bounded by their timeouts.
DialOk(t) ==
    /\ call[t].pc = "dial" /\ opened < scene.streams
    /\ opened' = opened + 1
    /\ call' = [call EXCEPT ![t].rides = opened + 1, ![t].pc = "insert"]
    /\ UNCHANGED <<scene, warm, dead, route, ifaces, backoff, probing, closing, reaper, misses>>

TorDialFails(t) ==
    /\ call[t].pc = "dial"
    /\ Ends(t, "failed")
    /\ UNCHANGED <<scene, warm, opened, dead, route, ifaces, backoff, probing, closing, reaper, misses>>

\* Whatever waits on the network is abandoned once the transport closes.
AbandonSend(t) ==
    /\ closing /\ call[t].pc \in {"write", "dial"}
    /\ Ends(t, "abandoned")
    /\ UNCHANGED <<scene, warm, opened, dead, route, ifaces, backoff, probing, closing, reaper, misses>>

\* The stream goes back into the map, over whatever another thread put there.
InsertStream(t) ==
    /\ call[t].pc = "insert"
    /\ warm' = call[t].rides
    /\ Ends(t, "tor")
    /\ UNCHANGED <<scene, opened, dead, route, ifaces, backoff, probing, closing, reaper, misses>>

---------------------------------------------------------------------------
(* The network, the app and the background threads.                        *)

CircuitDies(s) ==
    /\ s \in 1..opened /\ s \notin dead
    /\ dead' = dead \cup {s}
    /\ UNCHANGED <<scene, call, warm, opened, route, ifaces, backoff, probing, closing, reaper, misses>>

\* set_nearby: the node hands over the routes of the chats with Nearby on.
SetRoute(r) ==
    /\ route # r /\ ~closing /\ scene.nearby
    /\ route' = r
    /\ UNCHANGED <<scene, call, warm, opened, dead, ifaces, backoff, probing, closing, reaper, misses>>

SetLocalAddresses(list) ==
    /\ ifaces # list /\ ~closing /\ scene.nearby
    /\ ifaces' = list
    /\ UNCHANGED <<scene, call, warm, opened, dead, route, backoff, probing, closing, reaper, misses>>

\* RETRY_AFTER lapses, or the contact connects to us.
BackoffLapses ==
    /\ backoff
    /\ backoff' = FALSE /\ misses' = 0
    /\ UNCHANGED <<scene, call, warm, opened, dead, route, ifaces, probing, closing, reaper>>

StartProbe ==
    /\ ~probing /\ ~closing /\ LocalUsable
    /\ probing' = TRUE
    /\ UNCHANGED <<scene, call, warm, opened, dead, route, ifaces, backoff, closing, reaper, misses>>

EndProbe(ok) ==
    /\ probing
    /\ probing' = FALSE /\ Record(ok)
    /\ UNCHANGED <<scene, call, warm, opened, dead, route, ifaces, closing, reaper>>

ReapIdle ==
    /\ reaper = "runs" /\ ~closing /\ warm # 0
    /\ warm' = 0
    /\ UNCHANGED <<scene, call, opened, dead, route, ifaces, backoff, probing, closing, reaper, misses>>

\* Dropping the transport raises the signal; the reaper wakes on it and leaves.
CloseTransport ==
    /\ ~closing
    /\ closing' = TRUE
    /\ UNCHANGED <<scene, call, warm, opened, dead, route, ifaces, backoff, probing, reaper, misses>>

ReaperExits ==
    /\ closing /\ reaper = "runs"
    /\ reaper' = "gone"
    /\ UNCHANGED <<scene, call, warm, opened, dead, route, ifaces, backoff, probing, closing, misses>>

PathNext ==
    \/ \E t \in Threads :
          \/ \E fresh \in BOOLEAN : StartSend(t, fresh)
          \/ \E ok \in BOOLEAN : WriteWarm(t, ok)
          \/ SkipLocal(t) \/ DialLocal(t) \/ LocalOk(t) \/ LocalFails(t) \/ TakeStream(t)
          \/ DialOk(t) \/ TorDialFails(t) \/ AbandonSend(t) \/ InsertStream(t)
    \/ \E s \in 1..scene.streams : CircuitDies(s)
    \/ \E r \in PeerHomes \cup {NoRoute} : SetRoute(r)
    \/ \E list \in Interfaces : SetLocalAddresses(list)
    \/ \E ok \in BOOLEAN : EndProbe(ok)
    \/ BackoffLapses \/ StartProbe \/ ReapIdle \/ CloseTransport \/ ReaperExits

PathSpec == PathInit /\ [][PathNext]_pathVars

---------------------------------------------------------------------------

\* Streams are opened once and kept one per peer.
PathTypeOK ==
    /\ warm \in 0..opened /\ opened \in 0..scene.streams /\ dead \subseteq 1..opened
    /\ \A t \in Threads : call[t].rides \in 0..opened

\* A fresh send rides a stream opened after it was asked for: a receipt that
\* nothing confirms is never written into a connection that was dead already
\* (send_fresh), whatever the other threads do with the warm stream.
FreshIsFresh ==
    \A t \in Threads :
        (call[t].fresh /\ call[t].rides # 0) => call[t].rides > call[t].from

\* One failed local attempt is enough: within a back-off no more attempts fail
\* than there were threads, and the one probe, already dialling (record,
\* recently_failed).
BackoffHolds == misses <= Cardinality(Threads) + 1

\* FreshIsFresh and BackoffHolds: a fresh send rides a new stream, and a failed local
\* attempt is not repeated within its back-off.
PathsHold == PathTypeOK /\ FreshIsFresh /\ BackoffHolds
=============================================================================
