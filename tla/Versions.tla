------------------------------ MODULE Versions ------------------------------
(***************************************************************************)
(* Two contacts who update from 0.1 to 0.2 at different times.  The wire   *)
(* version went from 2 to 3 and neither release reads the other's frames.  *)
(* An app on 0.2 holds what it would send to a contact it takes to be on   *)
(* 0.1, tells it so once in the old format, and announces its own version  *)
(* (wire/mod.rs, node.rs).  Each side can take the other for outdated, and *)
(* a side that does sends nothing but those two frames.                    *)
(***************************************************************************)
EXTENDS Integers, Sequences, SequencesExt, FiniteSets

CONSTANTS
    Reorder,     \* frames may overtake each other (a relay, a direct dial)
    MaxSaid, MaxRestarts, MaxMisses   \* bounds: messages, restarts of the same release, lost sends

ASSUME VersionsAssumption ==
    /\ Reorder \in BOOLEAN
    /\ {MaxSaid, MaxRestarts, MaxMisses} \subseteq Nat

Both == {"a", "b"}
FarEnd(d) == IF d = "a" THEN "b" ELSE "a"
Unknown == 0
OldRelease == 1
NewRelease == 2

VARIABLES
    vapp,    \* each side: its release and its record of the other
    vout,    \* each side: sends in flight
    vnet,    \* frames on their way to each side
    vleft    \* what is left of each bound
verVars == <<vapp, vout, vnet, vleft>>

----------------------------------------------------------------------------
(* Wire format *)

\* WIRE_VERSION, LEGACY_WIRE_VERSION: encode, and encode_legacy for the notice.
WireVersion(release) == release + 1
Encoded(release, what) ==
    [v |-> IF what = "notice" THEN WireVersion(OldRelease) ELSE WireVersion(release),
     what |-> what, release |-> release]

\* decode: an envelope of another version is an error.
Decodes(release, f) == f.v = WireVersion(release)

\* legacy_sender
IsLegacy(release, f) == f.v < WireVersion(release)

----------------------------------------------------------------------------
(* A side's record of the other *)

\* Chat::outdated, with version_outdated
TakenForOld(c) == c.wireOld \/ c.peer = OldRelease

\* mark_alive: only a frame in our own version gets this far.
SeenAlive(c) ==
    [c EXCEPT !.wireOld = FALSE, !.peer = IF @ = OldRelease THEN Unknown ELSE @, !.toldUpgrade = FALSE]

\* The Version frame.  A change of version has the standing announcements of this
\* run told again.
HearVersion(c, release) ==
    LET told == [c EXCEPT !.wireOld = FALSE, !.toldUpgrade = FALSE]
    IN IF told.peer = release THEN told
       ELSE [told EXCEPT !.peer = release,
                         !.standing = IF told.peer = Unknown THEN @ ELSE FALSE]

\* Mutant: a late frame of the old format counts whatever they announced.
NoteAnyLegacy(c) == [c EXCEPT !.wireOld = TRUE]

\* note_legacy_frame
NoteLegacyFrame(c) == IF c.peer = NewRelease THEN c ELSE [c EXCEPT !.wireOld = TRUE]

\* pump: a frame that does not decode costs that frame only.
Hear(c, f) ==
    IF ~Decodes(c.release, f) THEN (IF IsLegacy(c.release, f) THEN NoteLegacyFrame(c) ELSE c)
    ELSE IF f.what = "version"
    THEN (IF c.release = NewRelease THEN HearVersion(c, f.release) ELSE [c EXCEPT !.peer = f.release])
    ELSE LET alive == IF c.release = NewRelease THEN SeenAlive(c) ELSE c
         IN IF f.what = "chat" THEN [alive EXCEPT !.got = @ + 1] ELSE alive

----------------------------------------------------------------------------
(* Actions *)

Wants(c, what) ==
    CASE what = "version" -> ~c.announced /\ c.told # c.release
      [] what = "notice" -> TakenForOld(c) /\ ~c.toldUpgrade /\ ~c.noticing
      [] what = "standing" -> ~c.standing /\ ~TakenForOld(c)
      [] what = "chat" -> c.held > 0 /\ ~TakenForOld(c)

\* announce_version, send_upgrade_notices, the standing announcements (module
\* Announce) and flush_held: one in flight of each.
VersionTick(d) ==
    /\ vapp[d].release = NewRelease
    /\ LET due == {w \in {"version", "notice", "standing", "chat"} :
                        Wants(vapp[d], w) /\ w \notin vout[d]}
       IN /\ due # {}
          /\ vout' = [vout EXCEPT ![d] = @ \cup due]
          /\ vapp' = [vapp EXCEPT ![d].announced = @ \/ "version" \in due,
                                  ![d].noticing = @ \/ "notice" \in due]
    /\ UNCHANGED <<vnet, vleft>>

\* apply_announced: what a confirmed send changes.  The version is not recorded as
\* told while the contact is outdated, and both flags stay up until a restart.
Settled(c, what) ==
    CASE what = "version" -> IF TakenForOld(c) THEN c ELSE [c EXCEPT !.told = c.release]
      [] what = "notice" -> IF TakenForOld(c) THEN [c EXCEPT !.toldUpgrade = TRUE] ELSE c
      [] what = "standing" -> [c EXCEPT !.standing = TRUE]
      [] what = "chat" -> [c EXCEPT !.held = @ - 1]

Missed(c, what) ==
    CASE what = "version" -> [c EXCEPT !.announced = FALSE]
      [] what = "notice" -> [c EXCEPT !.noticing = FALSE]
      [] OTHER -> c

SendLands(d, what) ==
    /\ what \in vout[d]
    /\ vout' = [vout EXCEPT ![d] = @ \ {what}]
    /\ vnet' = [vnet EXCEPT ![FarEnd(d)] = Append(@, Encoded(vapp[d].release, what))]
    /\ vapp' = [vapp EXCEPT ![d] = Settled(@, what)]
    /\ UNCHANGED vleft

SendMisses(d, what) ==
    /\ what \in vout[d] /\ vleft.misses > 0
    /\ vout' = [vout EXCEPT ![d] = @ \ {what}]
    /\ vapp' = [vapp EXCEPT ![d] = Missed(@, what)]
    /\ vleft' = [vleft EXCEPT !.misses = @ - 1]
    /\ UNCHANGED vnet

\* send_message: held for an outdated contact, and held anyway until it lands.
SaySomething(d) ==
    /\ vapp[d].release = NewRelease /\ vleft.said > 0
    /\ vapp' = [vapp EXCEPT ![d].held = @ + 1, ![d].said = @ + 1]
    /\ vleft' = [vleft EXCEPT !.said = @ - 1]
    /\ UNCHANGED <<vout, vnet>>

Receive(d) ==
    /\ \E i \in DOMAIN vnet[d] :
          /\ Reorder \/ i = 1
          /\ vapp' = [vapp EXCEPT ![d] = Hear(@, vnet[d][i])]
          /\ vnet' = [vnet EXCEPT ![d] = RemoveAt(@, i)]
    /\ UNCHANGED <<vout, vleft>>

\* A launch: of the new release, or again of the same.
Restarted(c, release) == [c EXCEPT !.release = release, !.announced = FALSE, !.noticing = FALSE]
Launch(d, release) ==
    /\ release >= vapp[d].release
    /\ release = vapp[d].release => vleft.restarts > 0
    /\ vapp' = [vapp EXCEPT ![d] = Restarted(@, release)]
    /\ vout' = [vout EXCEPT ![d] = {}]
    /\ vleft' = IF release > vapp[d].release THEN vleft ELSE [vleft EXCEPT !.restarts = @ - 1]
    /\ UNCHANGED vnet

\* On 0.1 both had announced that release to each other.
FirstApp == [release |-> OldRelease, peer |-> OldRelease, wireOld |-> FALSE, told |-> OldRelease,
                   announced |-> FALSE, noticing |-> FALSE, toldUpgrade |-> FALSE, standing |-> FALSE,
                   held |-> 0, said |-> 0, got |-> 0]
VerInit ==
    /\ vapp = [d \in Both |-> FirstApp]
    /\ vout = [d \in Both |-> {}]
    /\ vnet = [d \in Both |-> <<>>]
    /\ vleft = [said |-> MaxSaid, restarts |-> MaxRestarts, misses |-> MaxMisses]

VerNext ==
    \E d \in Both :
        \/ VersionTick(d) \/ SaySomething(d) \/ Receive(d)
        \/ \E w \in {"version", "notice", "standing", "chat"} : SendLands(d, w) \/ SendMisses(d, w)
        \/ \E release \in {OldRelease, NewRelease} : Launch(d, release)

VerSpec == VerInit /\ [][VerNext]_verVars

\* Both pollers run, and both sides update some day.
VerFairness ==
    /\ \A d \in Both :
          /\ WF_verVars(VersionTick(d)) /\ WF_verVars(Receive(d))
          /\ \A w \in {"version", "notice", "standing", "chat"} : WF_verVars(SendLands(d, w))
          /\ WF_verVars(vapp[d].release = OldRelease /\ Launch(d, NewRelease))
VerFairSpec == VerSpec /\ VerFairness

----------------------------------------------------------------------------
(* Properties *)

VerTypeOK ==
    \A d \in Both :
        /\ vapp[d].release \in {OldRelease, NewRelease}
        /\ vapp[d].peer \in {Unknown, OldRelease, NewRelease}
        /\ vapp[d].got <= vapp[FarEnd(d)].said
        /\ vapp[d].release = OldRelease => vapp[d].held = 0 /\ vout[d] = {}

\* Once both have updated they do not take each other for outdated for ever: at most
\* one goes on holding, and any frame of the other's lets it go ("both would hold
\* everything for the other until a restart", note_legacy_frame).
OneSpeaks == \E d \in Both : ~TakenForOld(vapp[d])

=============================================================================
