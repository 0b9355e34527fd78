------------------------------ MODULE Bridges -------------------------------
(***************************************************************************)
(* Bridges: the lines the user saves, the Tor configuration a start builds *)
(* from them, and the WebTunnel listener inside the app that the Tor       *)
(* client dials for a webtunnel line (api.rs, tor.rs, webtunnel/).         *)
(*                                                                         *)
(* The listener asks for a secret, which is appended to the bridge line.   *)
(* The Tor client keeps the line's settings in its own state and uses the  *)
(* kept copy after a restart, so the secret must be the same then.  A      *)
(* tunnel is opened under one of the line's server names; concurrent dials *)
(* share which one.                                                        *)
(***************************************************************************)
EXTENDS Integers, FiniteSets

CONSTANTS
    Dials,        \* connections of the Tor client to the listener
    ServerNames,  \* how many names the bridge line offers
    HasTransports,\* transports.txt names a program for obfs4 lines
    Edits,        \* texts the user may save, sets of lines
    MaxSaves, MaxBridgeStarts, MaxUnwritten  \* bounds

Lines == {"vanilla", "webtunnel", "obfs4", "bad", "comment"}

ASSUME BridgesAssumption ==
    /\ ServerNames \in Nat \ {0} /\ HasTransports \in BOOLEAN
    /\ Edits \subseteq SUBSET Lines
    /\ {MaxSaves, MaxBridgeStarts, MaxUnwritten} \subseteq Nat

NoSecret == 0
NoFile == {"none"}

VARIABLES
    bfile,     \* bridges.txt, NoFile where there is none
    breply,    \* what the last save told the user
    bsecret,   \* the listener's secret on disk
    bkept,     \* the secret the Tor client keeps with the bridge
    bcore,     \* the running core: its configuration and its listener
    bpos,      \* SNI_PICKER: the name in use
    bdial,     \* each dial
    bmade,     \* secrets made so far
    bleft      \* what is left of each bound
bridgeVars == <<bfile, breply, bsecret, bkept, bcore, bpos, bdial, bmade, bleft>>

NoCore == [up |-> FALSE, refused |-> FALSE, bridges |-> {}, secret |-> NoSecret]
NoDial == [at |-> "idle", name |-> 0]

\* check_bridge_line: the parse the start uses.
CheckBridgeLine(l) == l # "bad"
IsBridge(l) == l # "comment"

\* write_bridges: only accepted lines are written, comments are kept, and a text
\* with nothing left removes the file.
WriteBridges(text) ==
    LET kept == {l \in text : IsBridge(l) => CheckBridgeLine(l)} IN
    /\ bleft.saves > 0
    /\ bfile' = IF kept = {} THEN NoFile ELSE kept
    /\ breply' = [accepted |-> Cardinality({l \in kept : IsBridge(l)}), rejected |-> text \ kept]
    /\ bleft' = [bleft EXCEPT !.saves = @ - 1]
    /\ UNCHANGED <<bsecret, bkept, bcore, bpos, bdial, bmade>>

\* apply_bridges
AppliedBridges == {l \in bfile \ NoFile : IsBridge(l) /\ CheckBridgeLine(l)}

\* apply_transports, register_webtunnel_transport: a line that names a transport
\* without an entry fails the whole configuration.
Transports == {"webtunnel"} \cup (IF HasTransports THEN {"obfs4"} ELSE {})
ConfigBuilds(bridges) == bridges \ {"vanilla"} \subseteq Transports

\* listener_secret: the saved one, or a fresh one.
ListenerSecret(made) == IF bsecret = NoSecret THEN made + 1 ELSE bsecret

\* new_in, tor_config, spawn_webtunnel_proxy: the listener first, then the
\* configuration.  written: the secret's file could be written.
StartCore(written) ==
    LET s == ListenerSecret(bmade) IN
    /\ ~bcore.up /\ bleft.starts > 0
    /\ ~written => bleft.unwritten > 0
    /\ bmade' = IF s > bmade THEN s ELSE bmade
    /\ bsecret' = IF bsecret = NoSecret /\ written THEN s ELSE bsecret
    /\ bcore' = IF ConfigBuilds(AppliedBridges)
                THEN [up |-> TRUE, refused |-> FALSE, bridges |-> AppliedBridges, secret |-> s]
                ELSE [NoCore EXCEPT !.refused = TRUE, !.bridges = AppliedBridges]
    /\ bleft' = [bleft EXCEPT !.starts = @ - 1, !.unwritten = IF written THEN @ ELSE @ - 1]
    /\ bdial' = [d \in Dials |-> NoDial]
    /\ bpos' = 1
    /\ UNCHANGED <<bfile, breply, bkept>>

StopCore ==
    /\ bcore.up
    /\ bcore' = NoCore
    /\ bdial' = [d \in Dials |-> NoDial]
    /\ UNCHANGED <<bfile, breply, bsecret, bkept, bpos, bmade, bleft>>

\* The Tor client dials a webtunnel bridge with the settings it keeps, or with the
\* line's own the first time, which it then keeps.
Asked == IF bkept = NoSecret THEN bcore.secret ELSE bkept

\* negotiate, handle: the request carries the listener's secret.
Admits(asked) == asked = bcore.secret

\* handle: refused before anything is dialled, or a dial under the name in use
\* (connect_inner).
Dial(d) ==
    /\ bcore.up /\ "webtunnel" \in bcore.bridges /\ bdial[d].at = "idle"
    /\ bkept' = Asked
    /\ bdial' = [bdial EXCEPT ![d] = IF Admits(Asked) THEN [at |-> "upgrading", name |-> bpos]
                                     ELSE [at |-> "refused", name |-> 0]]
    /\ UNCHANGED <<bfile, breply, bsecret, bcore, bpos, bmade, bleft>>

\* Mutant: the picker moves on whichever name failed.
AdvanceAnyway(used) == IF bpos = ServerNames THEN 1 ELSE bpos + 1

\* advance_if_current
Advanced(used) == IF bpos = used THEN (IF bpos = ServerNames THEN 1 ELSE bpos + 1) ELSE bpos

\* upgrade and check_response: the bridge answers 101, or not.
UpgradeWorks(d) ==
    /\ bdial[d].at = "upgrading"
    /\ bdial' = [bdial EXCEPT ![d].at = "open"]
    /\ UNCHANGED <<bfile, breply, bsecret, bkept, bcore, bpos, bmade, bleft>>

UpgradeFails(d) ==
    /\ bdial[d].at = "upgrading"
    /\ bpos' = Advanced(bdial[d].name)
    /\ bdial' = [bdial EXCEPT ![d] = NoDial]
    /\ UNCHANGED <<bfile, breply, bsecret, bkept, bcore, bmade, bleft>>

\* dial_tcp or the TLS handshake fails: the name is kept.
DialFails(d) ==
    /\ bdial[d].at = "upgrading"
    /\ bdial' = [bdial EXCEPT ![d] = NoDial]
    /\ UNCHANGED <<bfile, breply, bsecret, bkept, bcore, bpos, bmade, bleft>>

TunnelEnds(d) ==
    /\ bdial[d].at = "open"
    /\ bdial' = [bdial EXCEPT ![d] = NoDial]
    /\ UNCHANGED <<bfile, breply, bsecret, bkept, bcore, bpos, bmade, bleft>>

BridgeInit ==
    /\ bfile = NoFile /\ breply = [accepted |-> 0, rejected |-> {}]
    /\ bsecret = NoSecret /\ bkept = NoSecret /\ bcore = NoCore /\ bpos = 1
    /\ bdial = [d \in Dials |-> NoDial]
    /\ bmade = 0
    /\ bleft = [saves |-> MaxSaves, starts |-> MaxBridgeStarts, unwritten |-> MaxUnwritten]

BridgeNext ==
    \/ \E text \in Edits : WriteBridges(text)
    \/ \E written \in BOOLEAN : StartCore(written)
    \/ StopCore
    \/ \E d \in Dials : Dial(d) \/ UpgradeWorks(d) \/ UpgradeFails(d) \/ DialFails(d) \/ TunnelEnds(d)

BridgeSpec == BridgeInit /\ [][BridgeNext]_bridgeVars

----------------------------------------------------------------------------
(* Properties *)

BridgeTypeOK ==
    /\ bfile = NoFile \/ bfile \subseteq Lines
    /\ {bsecret, bkept, bcore.secret} \subseteq 0..bmade
    /\ bpos \in 1..ServerNames
    /\ \A d \in Dials : bdial[d].at \in {"idle", "upgrading", "open", "refused"}

\* A saved secret outlives every restart: while its file could be written, no dial
\* of the Tor client is ever refused by its own listener (listener_secret).
DialsAreAdmitted == bleft.unwritten = MaxUnwritten => \A d \in Dials : bdial[d].at # "refused"

\* Two dials that fail under one name move on by one name, not two: the picker
\* leaves a name only when a dial under it failed (advance_if_current).
NamesAreNotSkipped ==
    [][bpos' # bpos /\ bcore'.up /\ bcore.up =>
          \E d \in Dials : bdial[d].at = "upgrading" /\ bdial[d].name = bpos /\ bdial'[d] = NoDial]_bridgeVars

\* What the editor accepts starts: only a line whose transport has no entry in
\* transports.txt, which the editor does not look at, keeps Tor from starting
\* ("the editor cannot accept something that would be silently dropped at startup").
SavedStarts == bcore.refused => ~HasTransports /\ "obfs4" \in bcore.bridges

\* DialsAreAdmitted, SavedStarts and NamesAreNotSkipped: bridges the editor accepts
\* start, and the listener admits the client's own dials.
BridgesHold == [](BridgeTypeOK /\ DialsAreAdmitted /\ SavedStarts) /\ NamesAreNotSkipped
=============================================================================
