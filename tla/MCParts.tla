------------------------------ MODULE MCParts -------------------------------
(***************************************************************************)
(* The app's parts that do not share state, checked in one run.  `focus`   *)
(* picks the part a behaviour is about; the others stay at their initial   *)
(* state.                                                                  *)
(***************************************************************************)
EXTENDS Scrub, Pairing, Epochs, AppLock, OnionKey, Update, Media, Backup, Bridges

VARIABLE focus

PairSetup(n, i, j, e, v, ex, ed, fl) ==
    [inviters |-> i, joiners |-> j, crossing |-> FALSE, returning |-> FALSE, invites |-> n,
     ends |-> e, verifies |-> v, expiries |-> ex, edits |-> ed, fails |-> fl]
\* Two devices, with deletions and verification; either way round, with deletions,
\* and with an edited relay list; announcements that fail; one inviter and two joiners.
PairSetups == {PairSetup(3, {"a"}, {"b"}, 1, 1, 0, 0, 0),
               PairSetup(2, {"a", "b"}, {"a", "b"}, 1, 0, 0, 0, 0),
               PairSetup(3, {"a", "b"}, {"a", "b"}, 0, 0, 0, 0, 0),
               PairSetup(2, {"a", "b"}, {"a", "b"}, 0, 0, 0, 1, 0),
               PairSetup(2, {"a"}, {"b"}, 1, 0, 0, 1, 1),
               PairSetup(3, {"a"}, {"b", "c"}, 1, 0, 0, 0, 0),
               PairSetup(3, {"a"}, {"b", "c"}, 0, 0, 1, 0, 0)}

EpochSetup(s, ed, li, fa, re) ==
    [skews |-> s, partial |-> FALSE, drops |-> FALSE, posts |-> 1,
     edits |-> ed, lists |-> li, fails |-> fa, restarts |-> re]
\* Clocks that are off, and rounds that fail; an edited list; a discovered relay.
EpochSetups == {EpochSetup(-2 .. 2, 0, 0, 2, 1), EpochSetup({0}, 1, 0, 0, 0), EpochSetup({0}, 0, 1, 1, 0)}

TwoWaits == <<0, 1, 2>>

AnyLeft == SUBSET {"sealed", "arti"}
OnionSetups == {[restores |-> {"file", "old"}, leaves |-> AnyLeft],
                [restores |-> {"bare", "server"}, leaves |-> SUBSET {"sealed"}]}

UpdateCalls == {{"download"}, {"check"}}

SomeEdits == {{}, {"webtunnel", "bad"}, {"vanilla", "comment"}, {"obfs4"}}

PlainFile == [is |-> "avi", elements |-> <<>>]

----------------------------------------------------------------------------
PartsInit ==
    /\ focus \in {"scrub", "pairing", "epochs", "lock", "onion", "update", "media", "backup", "bridges"}
    /\ \/ focus = "scrub" /\ ScrubInit
       \/ focus # "scrub" /\ original = PlainFile /\ wire = Nothing /\ seen = "nothing"
    /\ PairInit
    /\ focus # "pairing" => pairLeft = CHOOSE c \in PairCases : TRUE
    /\ EpInit
    /\ focus # "epochs" => epLeft = CHOOSE c \in EpochCases : TRUE
    /\ LockInit
    /\ OnionInit
    /\ focus # "onion" => (means = CHOOSE c \in OnionCases : TRUE) /\ onionsMade.ids = 0
    /\ UpInit
    /\ focus # "update" => upLeft.calls = CHOOSE c \in UpdateCases : TRUE
    /\ MedInit
    /\ focus # "media" => box["a"].left = 0
    /\ BackupInit
    /\ BridgeInit

PartsNext ==
    /\ UNCHANGED focus
    /\ \/ focus = "scrub" /\ ScrubNext /\ UNCHANGED <<pairVars, epVars, lockVars, okVars, upVars, medVars, backupVars, bridgeVars>>
       \/ focus = "pairing" /\ PairNext /\ UNCHANGED <<scrubVars, epVars, lockVars, okVars, upVars, medVars, backupVars, bridgeVars>>
       \/ focus = "epochs" /\ EpNext /\ UNCHANGED <<scrubVars, pairVars, lockVars, okVars, upVars, medVars, backupVars, bridgeVars>>
       \/ focus = "lock" /\ LockNext /\ UNCHANGED <<scrubVars, pairVars, epVars, okVars, upVars, medVars, backupVars, bridgeVars>>
       \/ focus = "onion" /\ OnionNext /\ UNCHANGED <<scrubVars, pairVars, epVars, lockVars, upVars, medVars, backupVars, bridgeVars>>
       \/ focus = "update" /\ UpNext /\ UNCHANGED <<scrubVars, pairVars, epVars, lockVars, okVars, medVars, backupVars, bridgeVars>>
       \/ focus = "media" /\ MedNext /\ UNCHANGED <<scrubVars, pairVars, epVars, lockVars, okVars, upVars, backupVars, bridgeVars>>
       \/ focus = "backup" /\ BackupNext /\ UNCHANGED <<scrubVars, pairVars, epVars, lockVars, okVars, upVars, medVars, bridgeVars>>
       \/ focus = "bridges" /\ BridgeNext /\ UNCHANGED <<scrubVars, pairVars, epVars, lockVars, okVars, upVars, medVars, backupVars>>

PartsSpec ==
    /\ PartsInit /\ [][PartsNext]_<<focus, scrubVars, pairVars, epVars, lockVars, okVars, upVars, medVars, backupVars, bridgeVars>>

----------------------------------------------------------------------------

=============================================================================
