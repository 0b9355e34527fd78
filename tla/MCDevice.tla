------------------------------ MODULE MCDevice ------------------------------
(***************************************************************************)
(* The loops of the app and of the relay, checked in one run: the relay    *)
(* directory, the poller and its shutdown, the relay's watchdog, inbound   *)
(* frames, the bridge fetch, the relay's stream tasks and the streams that *)
(* outgoing frames ride.                                                   *)
(* `focus` picks the part a behaviour is about; the others stay at their   *)
(* initial state.                                                          *)
(***************************************************************************)
EXTENDS Directory, Lifecycle, Watchdog, Inbound, BridgeFetch, Streams, Paths

VARIABLE focus

DirectorySites ==
    {[site |-> s, leaks |-> FALSE, kills |-> 1] : s \in {"fresh", "down"}}
        \cup {[site |-> "any", leaks |-> TRUE, kills |-> 1]}

InetAddr(c, n) == [class |-> c, net |-> n]
Iface(k, ip) == [kind |-> k, ip |-> ip]
Homes == {InetAddr("192", 1)}
IfaceLists == {{Iface("wifi", InetAddr("192", 1)), Iface("mobile", InetAddr("10", 1))},
               {Iface("mobile", InetAddr("10", 1)), Iface("wired", InetAddr("172", 2))}}
PathScenes == {[nearby |-> FALSE, streams |-> 2], [nearby |-> TRUE, streams |-> 0]}

----------------------------------------------------------------------------
DeviceInit ==
    /\ focus \in {"directory", "lifecycle", "watchdog", "inbound", "fetch", "streams", "paths"}
    /\ DirInit
    /\ focus # "directory" => dirLeft = CHOOSE c \in DirectoryCases : TRUE
    /\ LifeInit
    /\ WatchInit
    /\ InbInit
    /\ FetchInit
    /\ focus # "fetch" => fanswer = CHOOSE f \in [{"settings", "defaults"} -> Answers] : TRUE
    /\ StrInit
    /\ focus # "streams" => cap = CHOOSE c \in OpenCaps : TRUE
    /\ PathInit
    /\ scene.nearby \/ ifaces = CHOOSE c \in Interfaces : TRUE
    /\ focus # "paths" => (scene = CHOOSE c \in Scenes : TRUE) /\ ifaces = CHOOSE c \in Interfaces : TRUE

DeviceNext ==
    /\ UNCHANGED focus
    /\ \/ focus = "directory" /\ DirNext /\ UNCHANGED <<lifeVars, watchVars, inbVars, fetchVars, strVars, pathVars>>
       \/ focus = "lifecycle" /\ LifeNext /\ UNCHANGED <<dirVars, watchVars, inbVars, fetchVars, strVars, pathVars>>
       \/ focus = "watchdog" /\ WatchNext /\ UNCHANGED <<dirVars, lifeVars, inbVars, fetchVars, strVars, pathVars>>
       \/ focus = "inbound" /\ InbNext /\ UNCHANGED <<dirVars, lifeVars, watchVars, fetchVars, strVars, pathVars>>
       \/ focus = "fetch" /\ FetchNext /\ UNCHANGED <<dirVars, lifeVars, watchVars, inbVars, strVars, pathVars>>
       \/ focus = "streams" /\ StrNext /\ UNCHANGED <<dirVars, lifeVars, watchVars, inbVars, fetchVars, pathVars>>
       \/ focus = "paths" /\ PathNext /\ UNCHANGED <<dirVars, lifeVars, watchVars, inbVars, fetchVars, strVars>>

\* The fairness of each part, while it is the one in focus.
DeviceDirectoryFair ==
    /\ WF_dirVars(focus = "directory" /\ BeginFetch) /\ WF_dirVars(focus = "directory" /\ RunFetch)
    /\ WF_dirVars(focus = "directory" /\ ApplyFetch) /\ WF_dirVars(focus = "directory" /\ CheckFallsDue)
DeviceLifecycleFair ==
    \A c \in Cores :
        /\ WF_lifeVars(focus = "lifecycle" /\ c <= started /\ PollerStep(c)) /\ WF_lifeVars(focus = "lifecycle" /\ DrainEnd(c))
        /\ WF_lifeVars(focus = "lifecycle" /\ OutboxEnd(c)) /\ WF_lifeVars(focus = "lifecycle" /\ ShutdownStep(c))
DeviceWatchdogFair ==
    WF_watchVars(focus = "watchdog" /\ WatchCycle) /\ WF_watchVars(focus = "watchdog" /\ RelayStart)
DeviceInboundFair ==
    /\ WF_inbVars(focus = "inbound" /\ TryRecv)
    /\ \A c \in Conns :
          /\ WF_inbVars(focus = "inbound" /\ Load(c)) /\ WF_inbVars(focus = "inbound" /\ Reserve(c)) /\ WF_inbVars(focus = "inbound" /\ WaitForRoom(c))
          /\ WF_inbVars(focus = "inbound" /\ (ReadBody(c) \/ FailBody(c)))
          /\ WF_inbVars(focus = "inbound" /\ (\E releases \in BOOLEAN : Push(c, releases)))
          /\ SF_inbVars(focus = "inbound" /\ GiveUpWaiting(c))
DeviceBridgeFetchFair ==
    /\ WF_fetchVars(focus = "fetch" /\ Try)
    /\ SF_fetchVars(focus = "fetch" /\ Deadline)

DeviceSpec ==
    /\ DeviceInit /\ [][DeviceNext]_<<focus, dirVars, lifeVars, watchVars, inbVars, fetchVars, strVars, pathVars>>
    /\ DeviceDirectoryFair
    /\ DeviceLifecycleFair
    /\ DeviceWatchdogFair
    /\ DeviceInboundFair
    /\ DeviceBridgeFetchFair

----------------------------------------------------------------------------
\* The types of every part's state.
DeviceTypeOK == DirTypeOK /\ LifeTypeOK /\ WatchTypeOK /\ InbTypeOK /\ FetchTypeOK

\* The loops of the device come through: EventuallyAdopts for the directory,
\* ShutdownEnds for the core, EventuallyReachable for the relay, NobodyWaitsForever
\* for inbound frames and FetchEnds for the bridge fetch.
LoopsComeThrough ==
    /\ focus = "directory" => EventuallyAdopts
    /\ focus = "lifecycle" => ShutdownEnds
    /\ focus = "watchdog" => EventuallyReachable
    /\ focus = "inbound" => NobodyWaitsForever
    /\ focus = "fetch" => FetchEnds
=============================================================================
