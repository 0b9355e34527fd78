----------------------------- MODULE Directory -----------------------------
(***************************************************************************)
(* The signed relay list: fetched by the poller's directory job off the    *)
(* lock, from the onion site and else from the relays, and adopted under   *)
(* the lock (directory.rs, node.rs, node/messaging.rs).                    *)
(***************************************************************************)
EXTENDS KeyRoll, Sequences, FiniteSets

CONSTANTS
    MaxListVersion,  \* lists the operator publishes
    MaxRotations,    \* rotations of the list-signing key
    DirectoryCases   \* see DirectoryCase

\* site: what the onion site answers - "fresh" the current list, "down"
\* nothing, "any" whatever was ever signed, or something unreadable.
\* leaks: a key that was rotated out signs lists of any version from then on.
\* kills: how often the app is killed.
DirectoryCase == [site : {"fresh", "down", "any"}, leaks : BOOLEAN, kills : Nat]

ASSUME DirectoryAssumption ==
    {MaxListVersion, MaxRotations} \subseteq Nat /\ DirectoryCases \subseteq DirectoryCase

List == [by : 0 .. MaxRotations, rot : 0 .. MaxRotations, ver : 0 .. MaxListVersion]
NoList == NoArtifact

\* What is kept: the newest key, the version and the schedule.
Kept == [key : 0 .. MaxRotations, ver : 0 .. MaxListVersion, next : {"due", "retry", "day"}]

VARIABLES
    operator,   \* the operator's current key and list version
    everSigned, \* every list that was ever signed
    dir,        \* directory_key, directory_version, directory_next_check
    dirDisk,    \* what of it is saved
    job,        \* the directory job: none, running, or its result
    dirLeft
dirVars == <<operator, everSigned, dir, dirDisk, job, dirLeft>>

DirTypeOK ==
    /\ operator \in [key : 0 .. MaxRotations, ver : 0 .. MaxListVersion]
    /\ everSigned \subseteq List
    /\ dir \in Kept /\ dirDisk \in Kept
    /\ job.state \in {"idle", "running", "done"}
    /\ dirLeft \in DirectoryCase

----------------------------------------------------------------------------
\* The operator signs a list, and carries the newest rotation with it.
Current == [by |-> operator.key, rot |-> operator.key, ver |-> operator.ver]
PublishList ==
    /\ operator.ver < MaxListVersion
    /\ operator' = [operator EXCEPT !.ver = @ + 1]
    /\ everSigned' = everSigned \cup {Current'}
    /\ UNCHANGED <<dir, dirDisk, job, dirLeft>>
RotateKey ==
    /\ operator.key < MaxRotations
    /\ operator' = [operator EXCEPT !.key = @ + 1]
    /\ everSigned' = everSigned \cup {Current'}
          \cup {l \in List : dirLeft.leaks /\ l.by = operator.key /\ l.rot <= l.by}
    /\ UNCHANGED <<dir, dirDisk, job, dirLeft>>

----------------------------------------------------------------------------
\* Mutant: any genuine key will do.
AdoptAnyKey(d, l) ==
    IF l.by < 0 THEN [outcome |-> "invalid", dir |-> d]
    ELSE IF l.ver <= d.ver THEN [outcome |-> "current", dir |-> d]
    ELSE [outcome |-> "applied", dir |-> [d EXCEPT !.ver = l.ver]]

\* adopt_directory.  A rotation is kept even when the list is not newer.
AdoptDirectory(d, l) ==
    IF ~Verifies(l, d.key) THEN [outcome |-> "invalid", dir |-> d]
    ELSE LET k == [d EXCEPT !.key = CurrentKey(@, l.rot)] IN
         IF l.ver <= d.ver THEN [outcome |-> "current", dir |-> k]
         ELSE [outcome |-> "applied", dir |-> [k EXCEPT !.ver = l.ver]]

\* begin_directory_fetch: the next check is pushed out before the fetch runs.
BeginFetch ==
    /\ job.state = "idle" /\ dir.next = "due"
    /\ dir' = [dir EXCEPT !.next = "retry"]
    /\ job' = [state |-> "running"]
    /\ UNCHANGED <<operator, everSigned, dirDisk, dirLeft>>

\* fetch_directory: the relays are asked only when the site gave no answer.
\* One relay serves the current list, another something else.
SiteAnswers ==
    CASE dirLeft.site = "fresh" -> {Current}
      [] dirLeft.site = "down" -> {}
      [] dirLeft.site = "any" -> everSigned \cup {NoList}
RunFetch ==
    /\ job.state = "running"
    /\ \/ \E l \in SiteAnswers : job' = [state |-> "done", site |-> <<l>>, lists |-> <<>>]
       \/ /\ dirLeft.site # "fresh"
          /\ \E l \in everSigned \cup {NoList} :
                job' = [state |-> "done", site |-> <<>>, lists |-> <<l, Current>>]
    /\ UNCHANGED <<operator, everSigned, dir, dirDisk, dirLeft>>

\* finish_directory_fetch: the first relay list that is newer is taken; two
\* relays answer, or none is asked.
FirstApplied(d, lists) ==
    IF lists = <<>> THEN d
    ELSE LET first == AdoptDirectory(d, lists[1]) IN
         IF first.outcome = "applied" THEN first.dir ELSE AdoptDirectory(first.dir, lists[2]).dir

\* Mutant: only the site's list is applied.
FinishIgnoresRelays(d, j) ==
    IF j.site # <<>> THEN [AdoptDirectory(d, j.site[1]).dir EXCEPT !.next = "day"]
    ELSE [d EXCEPT !.next = "retry"]

FinishDirectoryFetch(d, j) ==
    IF j.site # <<>> /\ AdoptDirectory(d, j.site[1]).outcome # "invalid"
    THEN [AdoptDirectory(d, j.site[1]).dir EXCEPT !.next = "day"]
    ELSE [FirstApplied(d, j.lists) EXCEPT !.next = "retry"]
ApplyFetch ==
    /\ job.state = "done"
    /\ dir' = FinishDirectoryFetch(dir, job)
    /\ job' = [state |-> "idle"]
    /\ UNCHANGED <<operator, everSigned, dirDisk, dirLeft>>

\* The retry interval or the day passes.
CheckFallsDue ==
    /\ dir.next # "due" /\ dir' = [dir EXCEPT !.next = "due"]
    /\ UNCHANGED <<operator, everSigned, dirDisk, job, dirLeft>>

\* The debounced save of the poller's tick.
SaveDirectory ==
    /\ dirDisk # dir /\ dirDisk' = dir
    /\ UNCHANGED <<operator, everSigned, dir, job, dirLeft>>

KillApp ==
    /\ dirLeft.kills > 0
    /\ dir' = dirDisk /\ job' = [state |-> "idle"]
    /\ dirLeft' = [dirLeft EXCEPT !.kills = @ - 1]
    /\ UNCHANGED <<operator, everSigned, dirDisk>>

----------------------------------------------------------------------------
DirInit ==
    /\ operator = [key |-> 0, ver |-> 0] /\ everSigned = {}
    /\ dir = [key |-> 0, ver |-> 0, next |-> "due"] /\ dirDisk = dir
    /\ job = [state |-> "idle"] /\ dirLeft \in DirectoryCases

DirNext ==
    \/ PublishList \/ RotateKey \/ BeginFetch \/ RunFetch \/ ApplyFetch
    \/ CheckFallsDue \/ SaveDirectory \/ KillApp

DirSpec == DirInit /\ [][DirNext]_dirVars

\* The poller starts and applies jobs, a fetch is bounded in time, and time
\* passes.
DirFairness ==
    /\ WF_dirVars(BeginFetch) /\ WF_dirVars(RunFetch)
    /\ WF_dirVars(ApplyFetch) /\ WF_dirVars(CheckFallsDue)
DirFairSpec == DirSpec /\ DirFairness

----------------------------------------------------------------------------
\* Except back to what is saved, when the app is killed, the device only moves
\* to a newer list, and only to one signed by the newest key it has been shown:
\* a list of a key that was rotated out is refused once the rotation is known,
\* wherever it comes from and whatever its version.
ListsMoveForward ==
    [][dirLeft' = dirLeft /\ dir'.ver # dir.ver =>
          /\ dir'.ver > dir.ver /\ dir'.key >= dir.key
          /\ \E l \in everSigned : l.ver = dir'.ver /\ l.by = dir'.key]_dirVars

\* Once the operator stops publishing, the device gets to the current list,
\* from the site or, while the site gives no answer, from a relay, whatever
\* the other relays serve and whenever the app is killed.
EventuallyAdopts ==
    dirLeft.site # "any" /\ ~dirLeft.leaks => <>[](dir.ver = operator.ver)
=============================================================================
