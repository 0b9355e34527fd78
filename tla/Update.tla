------------------------------- MODULE Update -------------------------------
(***************************************************************************)
(* The update check and the update download (update.rs, and the calls      *)
(* check_for_update and download_update of api.rs).  Calls run off the     *)
(* lock on threads of their own; the downloaded build is streamed into a   *)
(* part file, verified, and renamed into place.  Files are inodes: a call  *)
(* that holds one open writes to it whatever it is called meanwhile.       *)
(***************************************************************************)
EXTENDS KeyRoll, Sequences, FiniteSets, TLC

CONSTANTS
    Downloads,    \* concurrent calls of download_update
    MaxRelease,   \* releases 1 .. MaxRelease; this build is release 0
    MaxKeys,      \* rotations of the release-signing key
    Blocks,       \* length of a build
    MaxFiles,     \* part files ever created
    MaxAttempts,  \* calls that may be started
    UpdateCases   \* the calls that are made

ASSUME UpdateAssumption ==
    {MaxRelease, MaxKeys, Blocks, MaxFiles, MaxAttempts} \subseteq Nat

Releases == 1 .. MaxRelease
Manifest == [by : 0 .. MaxKeys, rot : 0 .. MaxKeys, rel : Releases]

VARIABLES
    release,    \* the operator's key and newest release
    manifests,  \* every manifest that was signed and has not expired
    updateKey,  \* update_key: the newest key that was learned
    checking,   \* check_for_update
    getting,    \* each call of download_update
    flight,     \* RUNNING
    files,      \* contents of each inode: which release each block is from
    part,       \* the part file of each release, 0 for none
    dest,       \* the file at dest_path, 0 for none
    upLeft
upVars == <<release, manifests, updateKey, checking, getting, flight, files, part, dest, upLeft>>

\* A complete build of a release, as its manifest hashes it.
BuildOf(r) == [i \in 1 .. Blocks |-> r]

Idle == [pc |-> "idle"]
UpTypeOK ==
    /\ release \in [key : 0 .. MaxKeys, rel : 0 .. MaxRelease]
    /\ manifests \subseteq Manifest /\ updateKey \in 0 .. MaxKeys
    /\ flight \in BOOLEAN
    /\ files \in Seq(Seq(Releases)) /\ Len(files) <= MaxFiles
    /\ part \in [Releases -> 0 .. MaxFiles] /\ dest \in 0 .. MaxFiles

----------------------------------------------------------------------------
\* make update-manifest, with the newest rotation.
PublishRelease ==
    /\ release.rel < MaxRelease
    /\ release' = [release EXCEPT !.rel = @ + 1]
    /\ manifests' = manifests
          \cup {[by |-> release.key, rot |-> release.key, rel |-> release.rel + 1]}
    /\ UNCHANGED <<updateKey, checking, getting, flight, files, part, dest, upLeft>>
RotateUpdateKey ==
    /\ release.key < MaxKeys /\ release.rel > 0
    /\ release' = [release EXCEPT !.key = @ + 1]
    /\ manifests' = manifests
          \cup {[by |-> release.key + 1, rot |-> release.key + 1, rel |-> release.rel]}
    /\ UNCHANGED <<updateKey, checking, getting, flight, files, part, dest, upLeft>>

----------------------------------------------------------------------------
\* check_for_update: the learned key is read before the fetch, and what the
\* manifest moved it to is stored after it.
StartCheck ==
    /\ "check" \in upLeft.calls /\ checking.pc = "idle" /\ upLeft.attempts > 0
    /\ checking' = [pc |-> "fetch", learned |-> updateKey]
    /\ upLeft' = [upLeft EXCEPT !.attempts = @ - 1]
    /\ UNCHANGED <<release, manifests, updateKey, getting, flight, files, part, dest>>

FetchForCheck ==
    /\ checking.pc = "fetch"
    /\ \/ \E m \in manifests :
             checking' = IF Verifies(m, checking.learned) /\ Moved(m, checking.learned)
                         THEN [pc |-> "remember", key |-> m.rot] ELSE Idle
       \/ checking' = Idle
    /\ UNCHANGED <<release, manifests, updateKey, getting, flight, files, part, dest, upLeft>>

\* remember_update_key
RememberForCheck ==
    /\ checking.pc = "remember"
    /\ updateKey' = checking.key /\ checking' = Idle
    /\ UNCHANGED <<release, manifests, getting, flight, files, part, dest, upLeft>>

----------------------------------------------------------------------------
SetCall(d, c) == getting' = [getting EXCEPT ![d] = c]
\* A call ends, in any way: the guard is dropped.
EndCall(d) == SetCall(d, Idle) /\ flight' = FALSE

\* Mutant: a call does not look whether another runs.
StartAnyway(d) ==
    /\ getting[d].pc = "idle" /\ "download" \in upLeft.calls /\ upLeft.attempts > 0
    /\ flight' = TRUE
    /\ SetCall(d, [pc |-> "manifest"])
    /\ upLeft' = [upLeft EXCEPT !.attempts = @ - 1]
    /\ UNCHANGED <<release, manifests, updateKey, checking, files, part, dest>>

\* download_update is single-flight.
StartDownload(d) ==
    /\ getting[d].pc = "idle" /\ "download" \in upLeft.calls /\ upLeft.attempts > 0
    /\ ~flight /\ flight' = TRUE
    /\ SetCall(d, [pc |-> "manifest"])
    /\ upLeft' = [upLeft EXCEPT !.attempts = @ - 1]
    /\ UNCHANGED <<release, manifests, updateKey, checking, files, part, dest>>

\* The manifest is fetched, then the learned key is read and the manifest is
\* verified with it.
FetchManifest(d) ==
    /\ getting[d].pc = "manifest"
    /\ \/ \E m \in manifests :
            IF Verifies(m, updateKey)
            THEN SetCall(d, [pc |-> "remember", m |-> m, moved |-> Moved(m, updateKey)])
                 /\ UNCHANGED flight
            ELSE EndCall(d)
       \/ EndCall(d)
    /\ UNCHANGED <<release, manifests, updateKey, checking, files, part, dest, upLeft>>

\* remember_update_key, then ensure_newer: this build is release 0.
Remember(d) ==
    /\ getting[d].pc = "remember"
    /\ updateKey' = IF getting[d].moved THEN getting[d].m.rot ELSE updateKey
    /\ SetCall(d, [pc |-> "open", rel |-> getting[d].m.rel]) /\ UNCHANGED flight
    /\ UNCHANGED <<release, manifests, checking, files, part, dest, upLeft>>

\* download: sweep_stale_parts, then the part file of this hash is opened.  The
\* site answers 206 and continues it, or 200 and it starts over; what it
\* serves is the build of the manifest, or another one under the same path.
OpenPart(d) ==
    LET rel == getting[d].rel
        old == part[rel]
        file == IF old = 0 THEN Len(files) + 1 ELSE old
    IN  /\ getting[d].pc = "open"
        /\ file <= MaxFiles
        /\ part' = [r \in Releases |-> IF r = rel THEN file ELSE 0]
        /\ \E served \in 1 .. release.rel, continues \in BOOLEAN :
              LET kept == IF old = 0 \/ ~continues THEN <<>> ELSE files[old] IN
              /\ files' = IF old = 0 THEN Append(files, <<>>) ELSE [files EXCEPT ![old] = kept]
              /\ SetCall(d, [pc |-> "stream", rel |-> rel, file |-> file, at |-> Len(kept),
                             served |-> served])
        /\ UNCHANGED <<release, manifests, updateKey, checking, flight, dest, upLeft>>

\* A block is written where this call has got to.
Written(s, at, b) == IF at < Len(s) THEN [s EXCEPT ![at + 1] = b] ELSE Append(s, b)
StreamBlock(d) ==
    LET g == getting[d] IN
    /\ g.pc = "stream" /\ g.at < Blocks /\ g.at <= Len(files[g.file])
    /\ files' = [files EXCEPT ![g.file] = Written(@, g.at, g.served)]
    /\ SetCall(d, [g EXCEPT !.at = @ + 1])
    /\ UNCHANGED <<release, manifests, updateKey, checking, flight, part, dest, upLeft>>

\* The transfer fails: the part file is kept to resume from.
DownloadBreaks(d) ==
    /\ getting[d].pc = "stream" /\ EndCall(d)
    /\ UNCHANGED <<release, manifests, updateKey, checking, files, part, dest, upLeft>>

\* The stream ends, complete or not: the file is read back and hashed.
StreamEnds(d) ==
    /\ getting[d].pc = "stream"
    /\ LET g == getting[d] IN
       SetCall(d, [pc |-> "hashed", rel |-> g.rel, file |-> g.file,
                   good |-> files[g.file] = BuildOf(g.rel)])
    /\ UNCHANGED <<release, manifests, updateKey, checking, flight, files, part, dest, upLeft>>

\* Mutant: whatever arrived is put in place.
PlaceAnything(d) ==
    /\ getting[d].pc = "hashed"
    /\ dest' = getting[d].file
    /\ part' = [part EXCEPT ![getting[d].rel] = 0]
    /\ EndCall(d)
    /\ UNCHANGED <<release, manifests, updateKey, checking, files, upLeft>>

\* A build that matches is renamed into place, any other is removed.
PlaceBuild(d) ==
    /\ getting[d].pc = "hashed"
    /\ dest' = IF getting[d].good /\ part[getting[d].rel] # 0 THEN part[getting[d].rel] ELSE dest
    /\ part' = [part EXCEPT ![getting[d].rel] = 0]
    /\ EndCall(d)
    /\ UNCHANGED <<release, manifests, updateKey, checking, files, upLeft>>

\* The process dies; the files and the saved key stay.
KillUpdater ==
    /\ upLeft.kills > 0
    /\ checking' = Idle /\ getting' = [d \in Downloads |-> Idle] /\ flight' = FALSE
    /\ upLeft' = [upLeft EXCEPT !.kills = @ - 1]
    /\ UNCHANGED <<release, manifests, updateKey, files, part, dest>>

----------------------------------------------------------------------------
UpInit ==
    /\ release = [key |-> 0, rel |-> 0] /\ manifests = {} /\ updateKey = 0
    /\ checking = Idle /\ getting = [d \in Downloads |-> Idle] /\ flight = FALSE
    /\ files = <<>> /\ part = [r \in Releases |-> 0] /\ dest = 0
    /\ upLeft \in {[calls |-> c, attempts |-> MaxAttempts, kills |-> 1] : c \in UpdateCases}

UpNext ==
    \/ PublishRelease \/ RotateUpdateKey
    \/ StartCheck \/ FetchForCheck \/ RememberForCheck \/ KillUpdater
    \/ \E d \in Downloads :
          \/ StartDownload(d) \/ FetchManifest(d) \/ Remember(d) \/ OpenPart(d)
          \/ StreamBlock(d) \/ DownloadBreaks(d) \/ StreamEnds(d) \/ PlaceBuild(d)

UpSpec == UpInit /\ [][UpNext]_upVars

----------------------------------------------------------------------------
\* The file a user may be about to install is always one whole build: transfers
\* that were cut off, resumed, superseded by another release or answered with
\* another build never show at that path, not even by a late write of a call
\* that still holds the file.
DestIsWhole ==
    dest # 0 => \E r \in Releases : files[dest] = BuildOf(r)

\* DestIsWhole: what is offered for installation is one complete signed build.
UpdateHolds == UpTypeOK /\ DestIsWhole

----------------------------------------------------------------------------
\* The invariant UpdateHolds rests on: one call is under way, the part file it
\* writes is not the one in place, and what it hashed is still what it wrote.
WritesPart(c) == c.rel \in Releases /\ c.file # 0 /\ part[c.rel] = c.file
CallOK(c) ==
    \/ c.pc \in {"idle", "manifest"}
    \/ c.pc = "remember" /\ c.m \in Manifest
    \/ c.pc = "open" /\ c.rel \in Releases
    \/ /\ c \in [pc : {"stream"}, rel : Releases, file : 1 .. MaxFiles, at : Nat, served : Releases]
       /\ WritesPart(c)
    \/ c.pc = "hashed" /\ WritesPart(c) /\ (c.good => files[c.file] = BuildOf(c.rel))
CallsOK ==
    /\ getting = [d \in Downloads |-> getting[d]]
    /\ checking.pc = "remember" => checking.key \in 0 .. MaxKeys
    /\ \A d \in Downloads : CallOK(getting[d]) /\ (getting[d].pc # "idle" => flight)
    /\ \A d, e \in Downloads : getting[d].pc # "idle" /\ getting[e].pc # "idle" => d = e

\* Every file in use exists, and they are all different.
FilesApart ==
    /\ dest <= Len(files) /\ \A r \in Releases : part[r] <= Len(files)
    /\ \A r, q \in Releases : part[r] # 0 => part[r] # dest /\ (part[r] = part[q] => r = q)

UpInv == UpTypeOK /\ CallsOK /\ FilesApart /\ DestIsWhole
=============================================================================
