------------------------------ MODULE Announce ------------------------------
(***************************************************************************)
(* Standing announcements to one contact: what this device tells a contact *)
(* about itself once, and again only when it changes (node.rs, Announce).  *)
(*                                                                         *)
(*   captures   whether this device can report screenshots                 *)
(*   block      "Block screenshots"; carries a sequence number             *)
(*   nearby     "Also connect on the same Wi-Fi"; carries a sequence       *)
(*   burns      this build understands burn messages                       *)
(*   relayset   where our offline mail is to be posted                     *)
(*                                                                         *)
(* A value is queued in the outbox, goes out in the poller's next round    *)
(* without the lock, and is recorded as told when the round is applied.    *)
(* The contact reads frames later and, over a relay, in any order.  It may *)
(* not know us yet, and may run a build that cannot read the frame.        *)
(***************************************************************************)
EXTENDS Integers, Sequences, FiniteSets, SequencesExt

CONSTANTS
    Cases,    \* the situations explored, see Case
    MaxBack   \* frames of the contact to us

AnnounceKinds == {"captures", "block", "nearby", "burns", "relayset"}

\* Builds: 0.1.x reads nothing we send; an early 0.2 ignores the markers of
\* block and nearby, which are newer than it is.
Builds == {"v1", "early", "current"}
Ignores(build, k) == build = "v1" \/ (build = "early" /\ k \in {"block", "nearby"})

\* kinds: what is announced; relayed: the contact has a relay route, so frames
\* may overtake each other; joining: the chat starts as a request of ours;
\* build: what the contact runs.  Bounds: edits of a setting, fails of a send to
\* reach anybody, refusals (changes the contact drops over its daily allowance)
\* and launches of the app.
Case == [kinds : SUBSET AnnounceKinds, relayed : BOOLEAN, joining : BOOLEAN,
         build : Builds, edits : Nat, fails : Nat, refusals : Nat, launches : Nat]

ASSUME AnnounceAssumption ==
    /\ \A c \in Cases :
          /\ DOMAIN c = {"kinds", "relayed", "joining", "build", "edits", "fails", "refusals",
                         "launches"}
          /\ c.kinds \subseteq AnnounceKinds /\ c.build \in Builds
          /\ {c.relayed, c.joining} \subseteq BOOLEAN /\ {c.edits, c.fails, c.refusals, c.launches} \subseteq Nat
    /\ MaxBack \in Nat

Unset == -1
Bit == {0, 1}

VARIABLES
    case,     \* the situation of this behaviour
    want,     \* the settings, as the app keeps them
    an,       \* our node's record of this chat
    anOut,    \* the outbox: announcements waiting for a round
    anRound,  \* the running round: sends still to run, and their outcomes
    anNet,    \* frames on their way to the contact
    peer,     \* the contact's record of us
    anBack,   \* frames of the contact on their way to us
    anLeft    \* what is left of each bound
annVars == <<case, want, an, anOut, anRound, anNet, peer, anBack, anLeft>>

NoRound == [todo |-> <<>>, done |-> <<>>]

----------------------------------------------------------------------------
(* Sending.  An operation takes and returns [n |-> node, out |-> outbox]. *)

\* What goes out for k: nearby is off, on, or on and listening.
Body(n, k) == IF k = "nearby" /\ n.mine[k] = 1 THEN 1 + n.noted ELSE n.mine[k]

\* The chat has confirmed what would go out now.
Confirmed(n, k) == IF k = "nearby" THEN n.told[k] >= n.seq[k] ELSE n.told[k] = Body(n, k)

\* What the map of announcements in flight holds for the contact.
Flag(n, k) == IF k = "nearby" THEN n.seq[k] ELSE Body(n, k)

Outdated(n) == n.wireOld \/ n.version = "v1"

\* announce_*_to and deliver_with: queue the value and flag it.  To a contact
\* on 0.1 it fails at once, which takes the flag down again.
AnnounceTo(s, k) ==
    IF k \notin case.kinds \/ s.n.mine[k] = Unset THEN s
    ELSE IF Outdated(s.n) THEN [s EXCEPT !.n.flag[k] = Unset]
    ELSE [n |-> [s.n EXCEPT !.flag[k] = Flag(s.n, k)],
          out |-> Append(s.out, [k |-> k, val |-> Body(s.n, k), seq |-> s.n.seq[k]])]

\* The filter of the announce_* and reannounce_* calls.
Due(n, k) ==
    /\ k \in case.kinds
    /\ n.mine[k] # Unset /\ n.flag[k] = Unset
    /\ ~Confirmed(n, k)
    /\ ~Outdated(n)
    /\ k = "burns" => n.ready

Reannounce(s, k) == IF Due(s.n, k) THEN AnnounceTo(s, k) ELSE s

\* announce_captures
AnnounceCaptures(s, v) ==
    Reannounce([s EXCEPT !.n.mine["captures"] = v,
                         !.n.flag["captures"] = IF s.n.mine["captures"] = v THEN @ ELSE Unset],
               "captures")

\* announce_block.  The sequence is the time in milliseconds, kept increasing: the
\* clock stands for a number above every one used before.  Keeping told_block would
\* let a quick off-and-on skip a chat whose "off" is still on its way.
AnnounceBlock(s, v) ==
    Reannounce(IF s.n.mine["block"] = v THEN s
               ELSE [s EXCEPT !.n.mine["block"] = v,
                              !.n.clock = @ + 1,
                              !.n.seq["block"] = s.n.clock + 1,
                              !.n.told["block"] = Unset,
                              !.n.flag["block"] = Unset],
               "block")

\* nearby_tick: a new local address is a new announcement where nearby is on.
NearbyTick(s) ==
    Reannounce(IF "nearby" \notin case.kinds \/ s.n.noted = s.n.addr THEN s
               ELSE [s EXCEPT !.n.noted = s.n.addr,
                              !.n.flag["nearby"] = Unset,
                              !.n.seq["nearby"] = IF s.n.mine["nearby"] = 0 THEN @ ELSE @ + 1],
               "nearby")

SetNearby(s, v) ==
    NearbyTick([s EXCEPT !.n.mine["nearby"] = v,
                         !.n.seq["nearby"] = @ + 1,
                         !.n.flag["nearby"] = Unset])

SetRelayList(s, v) == Reannounce([s EXCEPT !.n.mine["relayset"] = v], "relayset")

Say(s, k, v) ==
    CASE k = "captures" -> AnnounceCaptures(s, v)
      [] k = "block" -> AnnounceBlock(s, v)
      [] k = "nearby" -> SetNearby(s, v)
      [] k = "relayset" -> SetRelayList(s, v)

AnnState == [n |-> an, out |-> anOut]
AnnSet(s) == an' = s.n /\ anOut' = s.out

\* The user changes a setting, and the core is told.
ChangeSetting ==
    /\ anLeft.edits > 0
    /\ \E k \in case.kinds \ {"burns"} :
          /\ an.mine[k] # Unset
          /\ want' = [want EXCEPT ![k] = 1 - @]
          /\ AnnSet(Say(AnnState, k, want'[k]))
    /\ anLeft' = [anLeft EXCEPT !.edits = @ - 1]
    /\ UNCHANGED <<case, anRound, anNet, peer, anBack>>

\* The app reports captures and block on every launch.
LaunchReport ==
    /\ \E k \in case.kinds : an.mine[k] = Unset /\ AnnSet(Say(AnnState, k, want[k]))
    /\ UNCHANGED <<case, want, anRound, anNet, peer, anBack, anLeft>>

\* The device joins or leaves a local network.
MoveNetwork ==
    /\ anLeft.edits > 0
    /\ "nearby" \in case.kinds
    /\ an' = [an EXCEPT !.addr = 1 - @]
    /\ anLeft' = [anLeft EXCEPT !.edits = @ - 1]
    /\ UNCHANGED <<case, want, anOut, anRound, anNet, peer, anBack>>

\* The transport is published: announcements that wait for it may go.
Publish ==
    /\ ~an.ready
    /\ an' = [an EXCEPT !.ready = TRUE]
    /\ UNCHANGED <<case, want, anOut, anRound, anNet, peer, anBack, anLeft>>

\* The relay tick, in the order of its calls.  (A contact with no relay has a
\* backoff that delays the retry; so may the next tick be late here.)
AnnTick ==
    /\ AnnSet(LET s1 == Reannounce(Reannounce(Reannounce(AnnState, "burns"), "captures"), "block")
              IN  Reannounce(NearbyTick(s1), "relayset"))
    /\ UNCHANGED <<case, want, anRound, anNet, peer, anBack, anLeft>>

----------------------------------------------------------------------------
(* The poller's rounds. *)

TakeRound ==
    /\ anRound = NoRound /\ anOut # <<>>
    /\ anRound' = [todo |-> anOut, done |-> <<>>]
    /\ anOut' = <<>>
    /\ UNCHANGED <<case, want, an, anNet, peer, anBack, anLeft>>

\* One send of the round: handed over, or it reaches neither contact nor relay.
RunSend ==
    /\ anRound.todo # <<>>
    /\ LET f == Head(anRound.todo)
       IN  \E ok \in BOOLEAN :
             /\ ~ok => anLeft.fails > 0
             /\ anRound' = [todo |-> Tail(anRound.todo),
                            done |-> Append(anRound.done, [f |-> f, ok |-> ok])]
             /\ anNet' = IF ok THEN Append(anNet, f) ELSE anNet
             /\ anLeft' = [anLeft EXCEPT !.fails = IF ok THEN @ ELSE @ - 1]
    /\ UNCHANGED <<case, want, an, anOut, peer, anBack>>

\* Mutant: a delivery of an earlier nearby announcement is recorded as the latest.
ToldLatest(n, f) ==
    CASE f.k = "captures" -> IF n.flag[f.k] # Unset THEN n.flag[f.k] ELSE n.told[f.k]
      [] f.k = "block" -> IF f.val = n.mine[f.k] THEN f.val ELSE n.told[f.k]
      [] f.k = "nearby" -> n.seq[f.k]
      [] f.k = "burns" -> 1
      [] f.k = "relayset" -> n.flag[f.k]

\* The told_* a delivery records: captures what the map holds by now, block
\* what went out if it is still the value, nearby its sequence, the relay set
\* what went out.
Told(n, f) ==
    CASE f.k = "captures" -> IF n.flag[f.k] # Unset THEN n.flag[f.k] ELSE n.told[f.k]
      [] f.k = "block" -> IF f.val = n.mine[f.k] THEN f.val ELSE n.told[f.k]
      [] f.k = "nearby" -> IF f.seq > n.told[f.k] THEN f.seq ELSE n.told[f.k]
      [] f.k = "burns" -> 1
      [] f.k = "relayset" -> n.flag[f.k]

\* Mutant: a failure leaves the flag up.
FlagStays(n, f, ok) ==
    IF f.k \in {"relayset", "nearby"} /\ ok THEN Unset ELSE n.flag[f.k]

\* The flag goes down: on a failure if it is this send's, on a delivery of the
\* relay set, and of nearby if it is this send's.
FlagAfter(n, f, ok) ==
    LET own == n.flag[f.k] = (IF f.k = "nearby" THEN f.seq ELSE f.val)
        lower == CASE f.k = "relayset" -> TRUE
                   [] f.k = "nearby" -> own
                   [] f.k = "block" -> ~ok /\ own
                   [] OTHER -> ~ok
    IN  IF lower THEN Unset ELSE n.flag[f.k]

ApplyAnnounced(n, d) ==
    [n EXCEPT !.told[d.f.k] = IF d.ok THEN Told(n, d.f) ELSE @,
              !.flag[d.f.k] = FlagAfter(n, d.f, d.ok)]

ApplyRound ==
    /\ anRound.todo = <<>> /\ anRound.done # <<>>
    /\ an' = FoldLeft(ApplyAnnounced, an, anRound.done)
    /\ anRound' = NoRound
    /\ UNCHANGED <<case, want, anOut, anNet, peer, anBack, anLeft>>

----------------------------------------------------------------------------
(* The contact. *)

\* A sequenced value is taken only if it is newer; the sequence counts even if
\* the change itself is dropped over the daily allowance.
Heard(p, f, refuse) ==
    LET k == f.k IN
    IF ~p.knows \/ Ignores(p.build, k) \/ (k \in {"block", "nearby"} /\ f.seq <= p.seq[k]) THEN p
    ELSE [p EXCEPT !.seq[k] = f.seq,
                   !.val[k] = IF refuse THEN @ ELSE f.val,
                   !.refused[k] = refuse]

ReadAnnounced ==
    \E i \in (IF case.relayed THEN DOMAIN anNet ELSE {j \in {1} : anNet # <<>>}), refuse \in BOOLEAN :
        /\ refuse => /\ anLeft.refusals > 0
                     /\ anNet[i].k \in {"block", "nearby"}
                     /\ anNet[i].val # peer.val[anNet[i].k]
        /\ peer' = Heard(peer, anNet[i], refuse)
        /\ anNet' = RemoveAt(anNet, i)
        /\ anLeft' = [anLeft EXCEPT !.refusals = IF refuse THEN @ - 1 ELSE @]
        /\ UNCHANGED <<case, want, an, anOut, anRound, anBack>>

\* The contact's user approves our request; the frame may go out twice.
Approve ==
    /\ case.joining /\ anLeft.back > 0
    /\ peer' = [peer EXCEPT !.knows = TRUE]
    /\ anBack' = anBack \cup {"approved"}
    /\ anLeft' = [anLeft EXCEPT !.back = @ - 1]
    /\ UNCHANGED <<case, want, an, anOut, anRound, anNet>>

\* The contact installs the current build, which announces its version.  An
\* installation outlasts a round of ours.
PeerUpdates ==
    /\ peer.build # "current" /\ anRound = NoRound
    /\ peer' = [peer EXCEPT !.build = "current"]
    /\ anBack' = anBack \cup {"version"}
    /\ UNCHANGED <<case, want, an, anOut, anRound, anNet, anLeft>>

\* Any other frame of the contact that we can read, and one we cannot.
PeerSends ==
    /\ anLeft.back > 0
    /\ \E f \in {"alive", "legacy"} :
          /\ (f = "legacy") = (peer.build = "v1")
          /\ peer.knows
          /\ anBack' = anBack \cup {f}
    /\ anLeft' = [anLeft EXCEPT !.back = @ - 1]
    /\ UNCHANGED <<case, want, an, anOut, anRound, anNet, peer>>

\* mark_alive: they are not on 0.1, whatever we last heard.
MarkAlive(n) ==
    [n EXCEPT !.wireOld = FALSE, !.version = IF @ = "v1" THEN "none" ELSE @]

\* note_legacy_frame: not from a contact whose version we know to be newer.
NoteLegacy(n) == [n EXCEPT !.wireOld = @ \/ n.version \in {"none", "v1"}]

\* What is forgotten when the contact has to be told again.
Forget(n, ks) ==
    [n EXCEPT !.told = [k \in DOMAIN n.told |->
                          IF k \notin ks THEN n.told[k] ELSE IF k = "nearby" THEN 0 ELSE Unset],
              !.flag = [k \in DOMAIN n.flag |-> IF k \in ks THEN Unset ELSE n.flag[k]]]

\* Frame::Version.  A build we had no version of counts as no update.
OnVersion(n) ==
    LET m == [n EXCEPT !.wireOld = FALSE, !.version = "current"]
    IN  IF n.version \in {"none", "current"} THEN m ELSE Forget(m, {"captures", "block", "nearby"})

\* Frame::Approved.  Only the approval that ends the wait tells them again.
OnApproved(s) ==
    LET s1 == Reannounce(s, "relayset")
        s2 == [s1 EXCEPT !.n = Forget([@ EXCEPT !.waiting = FALSE],
                                      {"captures", "block", "nearby", "burns"})]
    IN  IF ~s.n.waiting THEN s1
        ELSE AnnounceTo(AnnounceTo(AnnounceTo(s2, "captures"), "block"), "burns")

ReadBack ==
    \E f \in anBack :
        /\ AnnSet(CASE f = "approved" -> OnApproved(AnnState)
                    [] f = "version" -> [AnnState EXCEPT !.n = OnVersion(an)]
                    [] f = "alive" -> [AnnState EXCEPT !.n = MarkAlive(an)]
                    [] f = "legacy" -> [AnnState EXCEPT !.n = NoteLegacy(an)])
        /\ anBack' = anBack \ {f}
        /\ UNCHANGED <<case, want, anRound, anNet, peer, anLeft>>

\* The app is stopped and launched again: the maps, the outbox and the values
\* the app reports are gone, what the chat confirmed is kept.
Relaunch ==
    /\ anLeft.launches > 0
    /\ an' = [an EXCEPT !.flag = [k \in DOMAIN an.flag |-> Unset],
                        !.mine = [k \in DOMAIN an.mine |->
                                    IF k \in {"captures", "block"} THEN Unset ELSE an.mine[k]],
                        !.seq = [k \in DOMAIN an.seq |-> IF k = "block" THEN 0 ELSE an.seq[k]],
                        !.noted = 0,
                        !.ready = FALSE]
    /\ anOut' = <<>>
    /\ anRound' = NoRound
    /\ anLeft' = [anLeft EXCEPT !.launches = @ - 1]
    /\ UNCHANGED <<case, want, anNet, peer, anBack>>

----------------------------------------------------------------------------
AnnInit ==
    /\ case \in Cases
    /\ want = [k \in AnnounceKinds |-> IF k = "burns" THEN 1 ELSE 0]
    /\ an = [mine |-> [k \in AnnounceKinds |-> IF k \in {"captures", "block"} THEN Unset ELSE want[k]],
             seq |-> [k \in AnnounceKinds |-> 0],
             \* the Hello carried our relay set
             told |-> [k \in AnnounceKinds |-> IF k \in {"nearby", "relayset"} THEN 0 ELSE Unset],
             flag |-> [k \in AnnounceKinds |-> Unset],
             waiting |-> case.joining, ready |-> FALSE,
             version |-> IF case.joining THEN "none" ELSE case.build, wireOld |-> FALSE,
             addr |-> 0, noted |-> 0, clock |-> 0]
    /\ anOut = <<>> /\ anRound = NoRound /\ anNet = <<>> /\ anBack = {}
    /\ peer = [knows |-> ~case.joining, build |-> case.build,
               val |-> [k \in AnnounceKinds |-> IF k \in {"nearby", "relayset"} THEN 0 ELSE Unset],
               seq |-> [k \in AnnounceKinds |-> 0],
               refused |-> [k \in AnnounceKinds |-> FALSE]]
    /\ anLeft = [edits |-> case.edits, launches |-> case.launches, back |-> MaxBack,
                 fails |-> case.fails, refusals |-> case.refusals]

AnnNext ==
    \/ ChangeSetting \/ LaunchReport \/ MoveNetwork \/ Publish \/ AnnTick
    \/ TakeRound \/ RunSend \/ ApplyRound
    \/ ReadAnnounced \/ Approve \/ PeerUpdates \/ PeerSends \/ ReadBack
    \/ Relaunch

AnnSpec == AnnInit /\ [][AnnNext]_annVars

\* The poller keeps ticking and running rounds, the app reports its settings,
\* and what was handed over is read.  Users owe nothing.
AnnFairness ==
    /\ WF_annVars(LaunchReport) /\ WF_annVars(Publish) /\ WF_annVars(AnnTick)
    /\ WF_annVars(TakeRound) /\ WF_annVars(RunSend) /\ WF_annVars(ApplyRound)
    /\ WF_annVars(ReadAnnounced) /\ WF_annVars(ReadBack)
AnnFairSpec == AnnSpec /\ AnnFairness

----------------------------------------------------------------------------
(* Properties. *)

AnnTypeOK ==
    /\ case \in Cases /\ peer.build \in Builds
    /\ \A k \in AnnounceKinds : an.mine[k] \in Bit \cup {Unset} /\ an.told[k] \in Nat \cup {Unset}
    /\ \A k \in AnnounceKinds : peer.seq[k] \in Nat /\ an.seq["block"] \in 0 .. an.clock

\* No send or frame of k is on its way.
Quiet(k) ==
    /\ \A i \in DOMAIN anOut : anOut[i].k # k
    /\ \A i \in DOMAIN anRound.todo : anRound.todo[i].k # k
    /\ \A i \in DOMAIN anRound.done : anRound.done[i].f.k # k
    /\ \A i \in DOMAIN anNet : anNet[i].k # k

\* The contact will make us tell it again: it has yet to approve us or to
\* install a build that reads the frame, or the frame that says so is coming.
RetellComing(k) ==
    \/ ~peer.knows \/ an.waiting
    \/ Ignores(peer.build, k) \/ "version" \in anBack

\* A told_* that matches the current value means that the contact holds it: no
\* later tick would send it again, so a value marked told and not held by the
\* contact is lost for good.  (apply_announced: "a delivery records what the
\* peer now holds".)  Excepted is a change the contact itself refused.
ToldIsHeard ==
    \A k \in case.kinds :
        an.mine[k] # Unset /\ Quiet(k) /\ Confirmed(an, k) /\ an.noted = an.addr
            => peer.val[k] = Body(an, k) \/ peer.refused[k] \/ RetellComing(k)

\* Whatever sends fail and however settings, launches and frames interleave,
\* the contact ends up with the current settings once it knows us and can read
\* them: no announcement waits for ever behind a flag nobody lowers.
AllHeard ==
    \A k \in case.kinds :
        \/ an.mine[k] # Unset /\ peer.val[k] = Body(an, k)
        \/ peer.refused[k] \/ ~peer.knows \/ Ignores(peer.build, k)
=============================================================================
