----------------------------- MODULE KeptProofs -----------------------------
(***************************************************************************)
(* What the app keeps: the relay list never goes back, for every number of *)
(* list versions and key rotations, every answer of the site and the       *)
(* relays, and any number of kills; the lines a user edits are the lines   *)
(* Tor starts with, and the listener is closed to all without the secret;  *)
(* a backup adds to a device and takes nothing from it, for any contacts,  *)
(* messages, backups and lost phones; the sealed files are those the       *)
(* history names, for any transfers; and the file offered for installation *)
(* is one whole build, for any releases, keys, checks and downloads.       *)
(***************************************************************************)
EXTENDS Directory, Bridges, Backup, Media, Update, FiniteSetTheorems, TLAPS

-----------------------------------------------------------------------------
(* The relay list.                                                         *)

\* What a fetch may have brought: a list the operator (or a leaked key) signed,
\* something unreadable, or the operator's empty list before the first one.
Answerable(l, signed) == l \in signed \/ l = NoList \/ (l \in List /\ l.ver = 0)

\* A fetch that is waiting to be applied holds such answers.
JobInv ==
    job.state = "done" =>
        \/ \E l \in {m \in List \cup {NoList} : Answerable(m, everSigned)} : job.site = <<l>> /\ job.lists = <<>>
        \/ \E l, m \in {n \in List \cup {NoList} : Answerable(n, everSigned)} : job.site = <<>> /\ job.lists = <<l, m>>

\* The inductive invariant: besides the types, the current list is signed once
\* there is one, and what a job carries is answerable.
DirInv == DirTypeOK /\ Answerable(Current, everSigned) /\ JobInv

\* adopt_directory moves the version up, to a list of the key it ends with.
LEMMA AdoptForward ==
    ASSUME NEW signed, signed \subseteq List, NEW d \in Kept, NEW l, Answerable(l, signed)
    PROVE  LET a == AdoptDirectory(d, l) IN
           /\ a.dir \in Kept /\ a.dir.key >= d.key
           /\ a.outcome # "applied" => a.dir.ver = d.ver
           /\ a.outcome = "applied" => /\ a.dir.ver > d.ver
                                       /\ l \in signed /\ l.ver = a.dir.ver /\ l.by = a.dir.key
<1> USE DirectoryAssumption DEF Kept, List
<1>1. CASE l = NoList
  BY <1>1 DEF AdoptDirectory, Verifies, CurrentKey, NoList, NoArtifact
<1>2. CASE l # NoList
  <2>1. l \in List
    BY <1>2 DEF Answerable
  <2>2. CurrentKey(d.key, l.rot) \in 0 .. MaxRotations /\ CurrentKey(d.key, l.rot) >= d.key
    BY <2>1 DEF CurrentKey
  <2> DEFINE k == [d EXCEPT !.key = CurrentKey(@, l.rot)]
  <2>3. k \in Kept /\ k.key = CurrentKey(d.key, l.rot) /\ k.ver = d.ver
    BY <2>2
  <2>4. CASE ~Verifies(l, d.key)
    BY <2>4 DEF AdoptDirectory
  <2>5. CASE Verifies(l, d.key) /\ l.ver <= d.ver
    BY <2>2, <2>3, <2>5 DEF AdoptDirectory
  <2>6. CASE Verifies(l, d.key) /\ ~(l.ver <= d.ver)
    <3>1. AdoptDirectory(d, l) = [outcome |-> "applied", dir |-> [k EXCEPT !.ver = l.ver]]
      BY <2>6 DEF AdoptDirectory
    <3>2. l \in signed
      BY <1>2, <2>1, <2>6 DEF Answerable
    <3>3. l.by = k.key
      BY <2>3, <2>6 DEF Verifies
    <3> HIDE DEF k
    <3> QED
      BY <2>1, <2>2, <2>3, <2>6, <3>1, <3>2, <3>3
  <2> QED
    BY <2>4, <2>5, <2>6
<1> QED
  BY <1>1, <1>2

\* finish_directory_fetch moves forward as well, whatever the job brought.
LEMMA FinishForward ==
    ASSUME DirInv, job.state = "done"
    PROVE  LET e == FinishDirectoryFetch(dir, job) IN
           /\ e \in Kept
           /\ e.ver # dir.ver => /\ e.ver > dir.ver /\ e.key >= dir.key
                                 /\ \E l \in everSigned : l.ver = e.ver /\ l.by = e.key
<1> DEFINE e == FinishDirectoryFetch(dir, job)
<1>0. dir \in Kept /\ everSigned \subseteq List
  BY DEF DirInv, DirTypeOK
<1>1. CASE \E l \in {m \in List \cup {NoList} : Answerable(m, everSigned)} : job.site = <<l>> /\ job.lists = <<>>
  <2>1. PICK l : Answerable(l, everSigned) /\ job.site = <<l>> /\ job.lists = <<>>
    BY <1>1
  <2> DEFINE a == AdoptDirectory(dir, l)
  <2>2. e = IF a.outcome # "invalid" THEN [a.dir EXCEPT !.next = "day"] ELSE [dir EXCEPT !.next = "retry"]
    BY <2>1 DEF FinishDirectoryFetch, FirstApplied
  <2>3. /\ a.dir \in Kept /\ a.dir.key >= dir.key
        /\ a.outcome # "applied" => a.dir.ver = dir.ver
        /\ a.outcome = "applied" => a.dir.ver > dir.ver /\ l \in everSigned /\ l.ver = a.dir.ver /\ l.by = a.dir.key
    BY <1>0, <2>1, AdoptForward
  <2> HIDE DEF a, e
  <2> QED
    BY <1>0, <2>2, <2>3 DEF Kept, e
<1>2. CASE \E l, m \in {n \in List \cup {NoList} : Answerable(n, everSigned)} : job.site = <<>> /\ job.lists = <<l, m>>
  <2>1. PICK l, m : /\ Answerable(l, everSigned) /\ Answerable(m, everSigned)
                    /\ job.site = <<>> /\ job.lists = <<l, m>>
    BY <1>2
  <2> DEFINE a == AdoptDirectory(dir, l)
             b == AdoptDirectory(a.dir, m)
  <2>2. e = [(IF a.outcome = "applied" THEN a.dir ELSE b.dir) EXCEPT !.next = "retry"]
    BY <2>1 DEF FinishDirectoryFetch, FirstApplied
  <2>3. /\ a.dir \in Kept /\ a.dir.key >= dir.key
        /\ a.outcome # "applied" => a.dir.ver = dir.ver
        /\ a.outcome = "applied" => a.dir.ver > dir.ver /\ l \in everSigned /\ l.ver = a.dir.ver /\ l.by = a.dir.key
    BY <1>0, <2>1, AdoptForward
  <2>4. /\ b.dir \in Kept /\ b.dir.key >= a.dir.key
        /\ b.outcome # "applied" => b.dir.ver = a.dir.ver
        /\ b.outcome = "applied" => b.dir.ver > a.dir.ver /\ m \in everSigned /\ m.ver = b.dir.ver /\ m.by = b.dir.key
    BY <1>0, <2>1, <2>3, AdoptForward
  <2> HIDE DEF a, b, e
  <2> QED
    BY <1>0, <2>2, <2>3, <2>4 DEF Kept, e
<1> QED
  BY <1>1, <1>2 DEF DirInv, JobInv

\* The device starts without a list, and no job runs.
LEMMA DirInitInv == DirInit => DirInv
BY DirectoryAssumption
   DEF DirInit, DirInv, DirTypeOK, JobInv, Answerable, Current, List, Kept, DirectoryCase

\* Every step keeps the invariant and is a step ListsMoveForward allows.
LEMMA DirStep ==
    ASSUME DirInv, [DirNext]_dirVars
    PROVE  /\ DirInv'
           /\ dirLeft' = dirLeft /\ dir'.ver # dir.ver =>
                 /\ dir'.ver > dir.ver /\ dir'.key >= dir.key
                 /\ \E l \in everSigned : l.ver = dir'.ver /\ l.by = dir'.key
<1> USE DirectoryAssumption
<1>1. CASE UNCHANGED dirVars
  BY <1>1 DEF DirInv, DirTypeOK, JobInv, Answerable, Current, dirVars
<1>2. CASE PublishList
  <2>1. operator' \in [key : 0 .. MaxRotations, ver : 0 .. MaxListVersion]
    BY <1>2 DEF PublishList, DirInv, DirTypeOK
  <2>2. Current' \in List
    BY <2>1 DEF Current, List
  <2>3. everSigned' = everSigned \cup {Current'} /\ UNCHANGED <<dir, dirDisk, job, dirLeft>>
    BY <1>2 DEF PublishList
  <2>4. JobInv'
    BY <2>3 DEF DirInv, JobInv, Answerable
  <2> QED
    BY <2>1, <2>2, <2>3, <2>4 DEF DirInv, DirTypeOK, Answerable
<1>3. CASE RotateKey
  <2>1. operator' \in [key : 0 .. MaxRotations, ver : 0 .. MaxListVersion]
    BY <1>3 DEF RotateKey, DirInv, DirTypeOK
  <2>2. Current' \in List
    BY <2>1 DEF Current, List
  <2>3. /\ everSigned' \subseteq List /\ everSigned \subseteq everSigned' /\ Current' \in everSigned'
        /\ UNCHANGED <<dir, dirDisk, job, dirLeft>>
    BY <1>3, <2>2 DEF RotateKey, DirInv, DirTypeOK
  <2>4. JobInv'
    BY <2>3 DEF DirInv, JobInv, Answerable
  <2> QED
    BY <2>1, <2>2, <2>3, <2>4 DEF DirInv, DirTypeOK, Answerable
<1>4. CASE BeginFetch
  BY <1>4 DEF BeginFetch, DirInv, DirTypeOK, JobInv, Answerable, Current, Kept
<1>5. CASE RunFetch
  <2>1. Answerable(Current, everSigned) /\ Current \in List
    BY DEF DirInv, DirTypeOK, Current, List
  <2>2. UNCHANGED <<operator, everSigned, dir, dirDisk, dirLeft>>
    BY <1>5 DEF RunFetch
  <2>3. job'.state = "done" /\ JobInv'
    <3>1. CASE \E l \in SiteAnswers : job' = [state |-> "done", site |-> <<l>>, lists |-> <<>>]
      <4>1. PICK l \in SiteAnswers : job' = [state |-> "done", site |-> <<l>>, lists |-> <<>>]
        BY <3>1
      <4>2. l \in List \cup {NoList} /\ Answerable(l, everSigned)
        BY <2>1, <4>1 DEF SiteAnswers, Answerable, DirInv, DirTypeOK, DirectoryCase
      <4> QED
        BY <2>2, <4>1, <4>2 DEF JobInv, Answerable
    <3>2. CASE \E l \in everSigned \cup {NoList} :
                  job' = [state |-> "done", site |-> <<>>, lists |-> <<l, Current>>]
      <4>1. PICK l \in everSigned \cup {NoList} :
                  job' = [state |-> "done", site |-> <<>>, lists |-> <<l, Current>>]
        BY <3>2
      <4>2. l \in List \cup {NoList} /\ Answerable(l, everSigned)
        BY <4>1 DEF Answerable, DirInv, DirTypeOK
      <4> QED
        BY <2>1, <2>2, <4>1, <4>2 DEF JobInv, Answerable
    <3> QED
      BY <1>5, <3>1, <3>2 DEF RunFetch
  <2> QED
    BY <2>1, <2>2, <2>3 DEF DirInv, DirTypeOK, Answerable, Current
<1>6. CASE ApplyFetch
  <2>1. job.state = "done" /\ dir' = FinishDirectoryFetch(dir, job) /\ job' = [state |-> "idle"]
        /\ UNCHANGED <<operator, everSigned, dirDisk, dirLeft>>
    BY <1>6 DEF ApplyFetch
  <2>2. /\ dir' \in Kept
        /\ dir'.ver # dir.ver => /\ dir'.ver > dir.ver /\ dir'.key >= dir.key
                                 /\ \E l \in everSigned : l.ver = dir'.ver /\ l.by = dir'.key
    BY <2>1, FinishForward
  <2> QED
    BY <2>1, <2>2 DEF DirInv, DirTypeOK, JobInv, Answerable, Current
<1>7. CASE CheckFallsDue
  BY <1>7 DEF CheckFallsDue, DirInv, DirTypeOK, JobInv, Answerable, Current, Kept
<1>8. CASE SaveDirectory
  BY <1>8 DEF SaveDirectory, DirInv, DirTypeOK, JobInv, Answerable, Current
<1>9. CASE KillApp
  <2>1. dirLeft' \in DirectoryCase /\ dirLeft' # dirLeft
    BY <1>9 DEF KillApp, DirInv, DirTypeOK, DirectoryCase
  <2> QED
    BY <1>9, <2>1 DEF KillApp, DirInv, DirTypeOK, JobInv, Answerable, Current
<1> QED
  BY <1>1, <1>2, <1>3, <1>4, <1>5, <1>6, <1>7, <1>8, <1>9 DEF DirNext

\* The types of the directory's state, for any number of versions, rotations and
\* kills.
THEOREM DirTypeCorrect == DirSpec => []DirTypeOK
<1>1. DirInit => DirInv
  BY DirInitInv
<1>2. DirInv /\ [DirNext]_dirVars => DirInv'
  BY DirStep
<1>3. DirInv => DirTypeOK
  BY DEF DirInv
<1> QED
  BY <1>1, <1>2, <1>3, PTL DEF DirSpec

\* The device never goes back to an older list, nor to one of a key it knows to
\* be rotated out (adopt_directory, finish_directory_fetch), whatever the site
\* and the relays serve.
THEOREM NoRollback == DirSpec => ListsMoveForward
<1>1. DirInit => DirInv
  BY DirInitInv
<1>2. DirInv /\ [DirNext]_dirVars => DirInv'
  BY DirStep
<1>3. DirInv /\ [DirNext]_dirVars =>
        [dirLeft' = dirLeft /\ dir'.ver # dir.ver =>
            /\ dir'.ver > dir.ver /\ dir'.key >= dir.key
            /\ \E l \in everSigned : l.ver = dir'.ver /\ l.by = dir'.key]_dirVars
  BY DirStep
<1> QED
  BY <1>1, <1>2, <1>3, PTL DEF DirSpec, ListsMoveForward

-----------------------------------------------------------------------------
(* Bridges.                                                                *)

DialStates == {"idle", "upgrading", "open", "refused"}
Cores == [up : BOOLEAN, refused : BOOLEAN, bridges : SUBSET Lines, secret : Nat]
BridgeTypes ==
    /\ bfile = NoFile \/ bfile \subseteq Lines
    /\ bmade \in Nat /\ bsecret \in 0 .. bmade /\ bkept \in 0 .. bmade
    /\ bcore \in Cores /\ bcore.secret <= bmade
    /\ bpos \in 1 .. ServerNames
    /\ bdial \in [Dials -> [at : DialStates, name : 0 .. ServerNames]]
    /\ bleft \in [saves : Nat, starts : Nat, unwritten : Nat] /\ bleft.unwritten <= MaxUnwritten

\* While the secret's file could always be written, the running listener and the
\* Tor client have the saved one.
OneSecret ==
    bleft.unwritten = MaxUnwritten =>
        /\ bcore.up => bsecret # NoSecret /\ bcore.secret = bsecret
        /\ bkept \in {NoSecret, bsecret}
BridgeInv == BridgeTypes /\ OneSecret /\ DialsAreAdmitted /\ SavedStarts

\* No line that Tor is started with lacks a transport but obfs4.
LEMMA OnlyObfs4Fails ==
    ASSUME BridgeTypes, ~ConfigBuilds(AppliedBridges)
    PROVE  ~HasTransports /\ "obfs4" \in AppliedBridges
<1>1. PICK l \in AppliedBridges : l # "vanilla" /\ l \notin Transports
  BY DEF ConfigBuilds
<1>2. l \in Lines /\ l # "bad" /\ l # "comment"
  BY <1>1 DEF AppliedBridges, IsBridge, CheckBridgeLine, BridgeTypes, NoFile
<1>3. l = "obfs4"
  BY <1>1, <1>2 DEF Lines, Transports
<1>4. QED BY <1>1, <1>3 DEF Transports

LEMMA BridgesStart == BridgeInit => BridgeInv
<1> SUFFICES ASSUME BridgeInit PROVE BridgeInv
  OBVIOUS
<1>1. BridgeTypes
  BY BridgesAssumption DEF BridgeInit, BridgeTypes, Cores, NoCore, NoDial, NoSecret, DialStates
<1>2. OneSecret /\ DialsAreAdmitted /\ SavedStarts
  BY DEF BridgeInit, OneSecret, DialsAreAdmitted, SavedStarts, NoCore, NoDial
<1>3. QED BY <1>1, <1>2 DEF BridgeInv

LEMMA CoreStarts ==
    ASSUME BridgeInv, NEW written \in BOOLEAN, StartCore(written)
    PROVE  BridgeInv' /\ ~bcore.up
<1> DEFINE s == ListenerSecret(bmade)
           builds == ConfigBuilds(AppliedBridges)
<1>1. BridgeTypes
  BY DEF BridgeInv
<1>2. s \in Nat /\ s # NoSecret /\ (bsecret # NoSecret => s = bsecret)
  BY <1>1 DEF BridgeTypes, ListenerSecret, NoSecret
<1>3. AppliedBridges \subseteq Lines
  BY <1>1 DEF AppliedBridges, BridgeTypes
<1> HIDE DEF s
<1>4. /\ ~bcore.up /\ bmade' = (IF s > bmade THEN s ELSE bmade)
      /\ bsecret' = IF bsecret = NoSecret /\ written THEN s ELSE bsecret
      /\ bcore' = IF builds
                  THEN [up |-> TRUE, refused |-> FALSE, bridges |-> AppliedBridges, secret |-> s]
                  ELSE [NoCore EXCEPT !.refused = TRUE, !.bridges = AppliedBridges]
      /\ bleft' = [bleft EXCEPT !.starts = @ - 1, !.unwritten = IF written THEN @ ELSE @ - 1]
      /\ bdial' = [d \in Dials |-> NoDial] /\ bpos' = 1 /\ UNCHANGED <<bfile, breply, bkept>>
      /\ bleft.starts > 0 /\ (~written => bleft.unwritten > 0)
  BY DEF StartCore, s
<1> DEFINE unw == IF written THEN bleft.unwritten ELSE bleft.unwritten - 1
<1>5. /\ bleft' \in [saves : Nat, starts : Nat, unwritten : Nat] /\ bleft'.unwritten <= MaxUnwritten
      /\ bleft'.unwritten = MaxUnwritten => written /\ bleft.unwritten = MaxUnwritten
  <2>1. /\ bleft.unwritten \in Nat /\ bleft.unwritten <= MaxUnwritten /\ bleft.starts \in Nat
        /\ MaxUnwritten \in Nat
    BY <1>1, BridgesAssumption DEF BridgeTypes
  <2>2. unw \in Nat /\ unw <= MaxUnwritten /\ (unw = MaxUnwritten => written /\ bleft.unwritten = MaxUnwritten)
    <3>1. CASE written
      BY <2>1, <3>1
    <3>2. CASE ~written
      BY <1>4, <2>1, <3>2
    <3>3. QED BY <3>1, <3>2
  <2> DEFINE left == bleft.starts - 1
  <2>3. bleft' = [bleft EXCEPT !.starts = left, !.unwritten = unw]
    BY <1>4
  <2>4. left \in Nat
    BY <1>4, <2>1
  <2> HIDE DEF unw, left
  <2>5. /\ bleft' \in [saves : Nat, starts : Nat, unwritten : Nat] /\ bleft'.unwritten = unw
    BY <1>1, <2>2, <2>3, <2>4 DEF BridgeTypes
  <2>6. QED BY <2>2, <2>5
<1>6. /\ bsecret # NoSecret => bsecret' = bsecret
      /\ bsecret' = bsecret \/ bsecret' = s
      /\ written => bsecret' = s
  <2>1. CASE written /\ bsecret = NoSecret
    BY <1>2, <1>4, <2>1
  <2>2. CASE ~(written /\ bsecret = NoSecret)
    BY <1>2, <1>4, <2>2
  <2>3. QED BY <2>1, <2>2
<1>7. bmade' \in Nat /\ s <= bmade' /\ bmade <= bmade'
  BY <1>1, <1>2, <1>4 DEF BridgeTypes
<1>8. CASE builds
  <2>1. bcore' = [up |-> TRUE, refused |-> FALSE, bridges |-> AppliedBridges, secret |-> s]
    BY <1>4, <1>8
  <2> HIDE DEF builds
  <2>2. BridgeTypes'
    <3>1. bmade' \in Nat /\ bsecret' \in 0 .. bmade' /\ bkept' \in 0 .. bmade' /\ s <= bmade'
      BY <1>1, <1>2, <1>4, <1>6, <1>7 DEF BridgeTypes
    <3>2. bcore' \in Cores /\ bcore'.secret <= bmade'
      BY <1>2, <1>3, <2>1, <3>1 DEF Cores
    <3>3. bleft' \in [saves : Nat, starts : Nat, unwritten : Nat] /\ bleft'.unwritten <= MaxUnwritten
      BY <1>5
    <3>4. bdial' \in [Dials -> [at : DialStates, name : 0 .. ServerNames]] /\ bpos' \in 1 .. ServerNames
      BY <1>4, BridgesAssumption DEF NoDial, DialStates
    <3>5. QED BY <1>1, <1>4, <3>1, <3>2, <3>3, <3>4 DEF BridgeTypes
  <2>3. OneSecret'
    <3> SUFFICES ASSUME bleft'.unwritten = MaxUnwritten
                 PROVE  /\ bcore'.up => bsecret' # NoSecret /\ bcore'.secret = bsecret'
                        /\ bkept' = NoSecret \/ bkept' = bsecret'
      BY DEF OneSecret
    <3>1. written /\ (bkept = NoSecret \/ bkept = bsecret)
      BY <1>5 DEF OneSecret, BridgeInv
    <3>2. bsecret' = s /\ bkept' = bkept
      BY <1>4, <1>6, <3>1
    <3>3. QED BY <1>2, <1>6, <2>1, <3>1, <3>2
  <2>4. DialsAreAdmitted' /\ SavedStarts'
    <3>1. DialsAreAdmitted'
      BY <1>4 DEF DialsAreAdmitted, NoDial
    <3>2. ~bcore'.refused
      BY <2>1
    <3>3. QED BY <3>1, <3>2 DEF SavedStarts
  <2>5. QED BY <1>4, <2>2, <2>3, <2>4 DEF BridgeInv
<1>9. CASE ~builds
  <2>1. bcore' = [up |-> FALSE, refused |-> TRUE, bridges |-> AppliedBridges, secret |-> NoSecret]
    BY <1>4, <1>9 DEF NoCore
  <2>2. BridgeTypes'
    <3>1. bmade' \in Nat /\ bsecret' \in 0 .. bmade' /\ bkept' \in 0 .. bmade'
      BY <1>1, <1>2, <1>4, <1>6, <1>7 DEF BridgeTypes
    <3>2. bcore' \in Cores /\ bcore'.secret <= bmade'
      BY <1>3, <2>1, <3>1 DEF Cores, NoSecret
    <3>3. bleft' \in [saves : Nat, starts : Nat, unwritten : Nat] /\ bleft'.unwritten <= MaxUnwritten
      BY <1>5
    <3>4. bdial' \in [Dials -> [at : DialStates, name : 0 .. ServerNames]] /\ bpos' \in 1 .. ServerNames
      BY <1>4, BridgesAssumption DEF NoDial, DialStates
    <3>5. QED BY <1>1, <1>4, <3>1, <3>2, <3>3, <3>4 DEF BridgeTypes
  <2>3. OneSecret'
    <3> SUFFICES ASSUME bleft'.unwritten = MaxUnwritten
                 PROVE  /\ bcore'.up => bsecret' # NoSecret /\ bcore'.secret = bsecret'
                        /\ bkept' = NoSecret \/ bkept' = bsecret'
      BY DEF OneSecret
    <3>1. written /\ (bkept = NoSecret \/ bkept = bsecret)
      BY <1>5 DEF OneSecret, BridgeInv
    <3>2. bsecret' = s /\ bkept' = bkept
      BY <1>4, <1>6, <3>1
    <3>3. QED BY <1>2, <1>6, <2>1, <3>1, <3>2
  <2>4. SavedStarts'
    BY <1>1, <1>9, <2>1, OnlyObfs4Fails DEF SavedStarts
  <2>5. DialsAreAdmitted'
    BY <1>4 DEF DialsAreAdmitted, NoDial
  <2>6. QED BY <1>4, <2>2, <2>3, <2>4, <2>5 DEF BridgeInv
<1>10. QED BY <1>8, <1>9

\* The client's own dials carry the secret its listener asks for.
LEMMA DialKeeps ==
    ASSUME BridgeInv, NEW d \in Dials, Dial(d) PROVE BridgeInv' /\ bpos' = bpos
<1>1. BridgeTypes
  BY DEF BridgeInv
<1> DEFINE e == IF Admits(Asked) THEN [at |-> "upgrading", name |-> bpos] ELSE [at |-> "refused", name |-> 0]
<1>2. /\ bcore.up /\ bkept' = Asked /\ bdial' = [bdial EXCEPT ![d] = e]
      /\ UNCHANGED <<bfile, breply, bsecret, bcore, bpos, bmade, bleft>>
  BY DEF Dial
<1>3. e \in [at : DialStates, name : 0 .. ServerNames] /\ (e.at = "refused" => ~Admits(Asked))
  <2>1. bpos \in 0 .. ServerNames /\ 0 \in 0 .. ServerNames
    BY <1>1, BridgesAssumption DEF BridgeTypes
  <2>2. CASE Admits(Asked)
    BY <2>1, <2>2 DEF DialStates
  <2>3. CASE ~Admits(Asked)
    BY <2>1, <2>3 DEF DialStates
  <2>4. QED BY <2>2, <2>3
<1> HIDE DEF e
<1>4. Asked \in 0 .. bmade
  BY <1>1 DEF Asked, BridgeTypes, Cores
<1>5. BridgeTypes'
  BY <1>1, <1>2, <1>3, <1>4 DEF BridgeTypes
<1>6. bleft.unwritten = MaxUnwritten => Asked = bsecret /\ Admits(Asked)
  BY <1>2 DEF BridgeInv, OneSecret, Asked, Admits
<1>7. OneSecret'
  BY <1>2, <1>6 DEF BridgeInv, OneSecret
<1>8. DialsAreAdmitted'
  BY <1>1, <1>2, <1>3, <1>6 DEF BridgeInv, DialsAreAdmitted, BridgeTypes
<1>9. SavedStarts'
  BY <1>2 DEF BridgeInv, SavedStarts
<1>10. QED BY <1>2, <1>5, <1>7, <1>8, <1>9 DEF BridgeInv

\* A dial that goes on or ends.
LEMMA DialEnds ==
    ASSUME BridgeInv, NEW d \in Dials, UpgradeWorks(d) \/ UpgradeFails(d) \/ DialFails(d) \/ TunnelEnds(d)
    PROVE  /\ BridgeInv'
           /\ bpos' # bpos => bdial[d].at = "upgrading" /\ bdial[d].name = bpos /\ bdial'[d] = NoDial
<1>1. BridgeTypes
  BY DEF BridgeInv
<1>2. UNCHANGED <<bfile, breply, bsecret, bkept, bcore, bmade, bleft>>
  BY DEF UpgradeWorks, UpgradeFails, DialFails, TunnelEnds
<1>3. /\ bdial' \in [Dials -> [at : DialStates, name : 0 .. ServerNames]] /\ bdial'[d].at # "refused"
      /\ \A x \in Dials : x # d => bdial'[x] = bdial[x]
  <2>1. bdial[d] \in [at : DialStates, name : 0 .. ServerNames]
    BY <1>1 DEF BridgeTypes
  <2>2. PICK e : e \in {NoDial, [bdial[d] EXCEPT !.at = "open"]} /\ bdial' = [bdial EXCEPT ![d] = e]
    BY DEF UpgradeWorks, UpgradeFails, DialFails, TunnelEnds
  <2>3. e \in [at : DialStates, name : 0 .. ServerNames] /\ e.at # "refused"
    <3>1. 0 \in 0 .. ServerNames
      BY BridgesAssumption
    <3>2. QED BY <2>1, <2>2, <3>1 DEF NoDial, DialStates
  <2>4. QED BY <1>1, <2>2, <2>3 DEF BridgeTypes
<1>4. /\ bpos' \in 1 .. ServerNames
      /\ bpos' # bpos => bdial[d].at = "upgrading" /\ bdial[d].name = bpos /\ bdial'[d] = NoDial
  BY <1>1, BridgesAssumption DEF UpgradeWorks, UpgradeFails, DialFails, TunnelEnds, BridgeTypes, Advanced
<1>5. BridgeTypes'
  BY <1>1, <1>2, <1>3, <1>4 DEF BridgeTypes
<1>6. OneSecret' /\ DialsAreAdmitted' /\ SavedStarts'
  BY <1>2, <1>3 DEF BridgeInv, OneSecret, DialsAreAdmitted, SavedStarts
<1>7. QED BY <1>4, <1>5, <1>6 DEF BridgeInv

LEMMA EditsKeep ==
    ASSUME BridgeInv, \/ \E text \in Edits : WriteBridges(text)
                      \/ StopCore
                      \/ UNCHANGED bridgeVars
    PROVE  BridgeInv' /\ bpos' = bpos
<1>1. BridgeTypes
  BY DEF BridgeInv
<1>2. CASE \E text \in Edits : WriteBridges(text)
  <2>1. PICK text \in Edits : WriteBridges(text)
    BY <1>2
  <2>2. text \subseteq Lines
    BY BridgesAssumption
  <2>3. /\ bfile' = NoFile \/ bfile' \subseteq Lines
        /\ bleft' = [bleft EXCEPT !.saves = @ - 1] /\ bleft.saves > 0
        /\ UNCHANGED <<bsecret, bkept, bcore, bpos, bdial, bmade>>
    BY <2>1, <2>2 DEF WriteBridges
  <2>4. /\ bleft' \in [saves : Nat, starts : Nat, unwritten : Nat]
        /\ bleft'.unwritten = bleft.unwritten
    BY <1>1, <2>3 DEF BridgeTypes
  <2>5. BridgeTypes'
    BY <1>1, <2>3, <2>4 DEF BridgeTypes
  <2>6. QED BY <2>3, <2>4, <2>5 DEF BridgeInv, OneSecret, DialsAreAdmitted, SavedStarts
<1>3. CASE StopCore
  <2>1. BridgeTypes'
    <3>1. bcore' \in Cores /\ bcore'.secret <= bmade
      BY <1>1, <1>3 DEF StopCore, BridgeTypes, Cores, NoCore, NoSecret
    <3>2. NoDial \in [at : DialStates, name : 0 .. ServerNames]
      BY BridgesAssumption DEF NoDial, DialStates
    <3>3. bdial' \in [Dials -> [at : DialStates, name : 0 .. ServerNames]]
      BY <1>3, <3>2 DEF StopCore
    <3>4. QED BY <1>1, <1>3, <3>1, <3>3 DEF StopCore, BridgeTypes
  <2>2. QED BY <1>3, <2>1 DEF StopCore, BridgeInv, OneSecret, DialsAreAdmitted, SavedStarts, NoCore, NoDial
<1>4. CASE UNCHANGED bridgeVars
  BY <1>1, <1>4 DEF bridgeVars, BridgeInv, BridgeTypes, OneSecret, DialsAreAdmitted, SavedStarts
<1>5. QED BY <1>2, <1>3, <1>4

\* The Tor client's dials are admitted by the app's own listener for as long as the
\* secret could be written (listener_secret), only a line the editor cannot judge keeps
\* Tor from starting (apply_bridges), and dials that fail together move on by one name
\* (advance_if_current).
THEOREM BridgesAreKept == BridgeSpec => BridgesHold
<1>1. BridgeInit => BridgeInv
  BY BridgesStart
<1>2. BridgeInv /\ [BridgeNext]_bridgeVars => BridgeInv'
  BY CoreStarts, DialKeeps, DialEnds, EditsKeep DEF BridgeNext
<1>3. BridgeInv => BridgeTypeOK /\ DialsAreAdmitted /\ SavedStarts
  <2> SUFFICES ASSUME BridgeInv PROVE BridgeTypeOK
    BY DEF BridgeInv
  <2>1. bcore.secret \in 0 .. bmade
    BY DEF BridgeInv, BridgeTypes, Cores
  <2>2. QED BY <2>1 DEF BridgeInv, BridgeTypes, BridgeTypeOK, DialStates
<1>4. BridgeInv /\ [BridgeNext]_bridgeVars =>
        [bpos' # bpos /\ bcore'.up /\ bcore.up =>
            \E d \in Dials : bdial[d].at = "upgrading" /\ bdial[d].name = bpos /\ bdial'[d] = NoDial]_bridgeVars
  BY CoreStarts, DialKeeps, DialEnds, EditsKeep DEF BridgeNext
<1>5. QED
  BY <1>1, <1>2, <1>3, <1>4, PTL DEF BridgeSpec, BridgesHold, NamesAreNotSkipped

-----------------------------------------------------------------------------
(* Backups.                                                                *)

\* A failed restore can put the server copy back, and nearby is switched before an
\* export is kept.
PlainFaults == BackupFaults \cap {"repost", "late"} = {}

BkChat == [session : 0 .. MaxSession, history : SUBSET Msgs, tombs : SUBSET Msgs, open : BOOLEAN,
           near : BOOLEAN, seq : Nat, told : Nat, backed : BOOLEAN]
BkChats == UNION {[D -> BkChat] : D \in SUBSET BackupContacts}
Devices == [on : BOOLEAN, chats : BkChats, files : SUBSET Pictures]
Blobs == [is : {"device", "chat"}, chats : BkChats, files : SUBSET Pictures]
BackupTypes ==
    /\ dev \in Devices /\ exports \subseteq Blobs
    /\ prepared \in Blobs \cup {NoBlob} /\ serverSlot \in Blobs \cup {NoBlob}
    /\ fetched \in Blobs \cup {NoBlob}
    /\ view \in [BackupContacts -> [on : BOOLEAN, seq : Nat]]
    /\ unsent \in [BackupContacts -> SUBSET Msgs]

\* Everything that has chats: the device and what was exported of it.
Everywhere == {dev} \cup exports \cup ({prepared, serverSlot, fetched} \ {NoBlob})

\* No message is in a chat and its tombstone too, on the device or in a backup, and the
\* device has the tombstones of what was unsent on it.
Apart(x) == x.history \cap x.tombs = {}
TombsKept ==
    /\ \A k \in Everywhere : \A c \in DOMAIN k.chats : Apart(k.chats[c])
    /\ \A c \in BackupContacts : unsent[c] \subseteq (IF c \in HasChat(dev) THEN dev.chats[c].tombs ELSE {})

\* The taken copy is the only one, and waits for a device.
InHand == (fetched # NoBlob => ~dev.on /\ serverSlot = NoBlob) /\ (~dev.on => HasChat(dev) = {} /\ prepared = NoBlob)

\* Of the setting of a chat there are two copies at most: the last switch S that was made
\* while no backup was kept, to N, and, if it was on, the one a device export turned off.
SettingOf(x, S, N) == (x.seq = S /\ x.near = N) \/ (N /\ ~x.near /\ x.seq = S + 1)
Agreed(c, S, N) ==
    /\ view[c].seq <= S + 1 /\ (view[c].seq = S => view[c].on = N)
    /\ view[c].seq = S + 1 => N /\ ~view[c].on
    /\ \A k \in Everywhere : c \in DOMAIN k.chats =>
          SettingOf(k.chats[c], S, N) /\ k.chats[c].told <= view[c].seq
SettingsAgree == \A c \in BackupContacts : \E S \in Nat, N \in BOOLEAN : Agreed(c, S, N)

\* Without an export file, whoever has the phone has the newest copy.
NewestFirst ==
    exports = {} =>
        \A c \in BackupContacts :
            /\ c \in HasChat(dev) => view[c].seq <= dev.chats[c].seq
            /\ \A k \in {serverSlot, fetched} \ {NoBlob} : c \in DOMAIN k.chats =>
                  /\ view[c].seq <= k.chats[c].seq
                  /\ c \in HasChat(dev) => dev.chats[c].seq <= k.chats[c].seq

BackupInv == BackupTypes /\ TombsKept /\ InHand /\ SettingsAgree /\ NewestFirst

LEMMA ChatMaps ==
    /\ \A f : f \in BkChats <=> DOMAIN f \subseteq BackupContacts /\ f \in [DOMAIN f -> BkChat]
    /\ \A f \in BkChats : \A c \in DOMAIN f : f[c] \in BkChat /\ c \in BackupContacts
BY DEF BkChats

LEMMA BlobsAreChats ==
    ASSUME BackupTypes
    PROVE  \A k \in Everywhere : /\ k.chats \in BkChats /\ k.files \subseteq Pictures
                                 /\ k \in Blobs \/ k \in Devices
<1> SUFFICES ASSUME NEW k \in Everywhere
             PROVE  k.chats \in BkChats /\ k.files \subseteq Pictures /\ (k \in Blobs \/ k \in Devices)
  OBVIOUS
<1>1. k \in Blobs \/ k \in Devices
  BY DEF BackupTypes, Everywhere
<1>2. QED BY <1>1 DEF Blobs, Devices

\* A chat that an export has of another, in what the invariant reads of it.
CopyOf(x, y) ==
    /\ (x.seq = y.seq /\ x.near = y.near) \/ (y.near /\ ~x.near /\ x.seq = y.seq + 1)
    /\ x.told = y.told

LEMMA SettingIsCopied ==
    ASSUME NEW S \in Nat, NEW N \in BOOLEAN, NEW y \in BkChat, NEW x \in BkChat,
           CopyOf(x, y), SettingOf(y, S, N)
    PROVE  SettingOf(x, S, N)
BY DEF CopyOf, SettingOf, BkChat

\* A step that tells nobody anything and whose chats are copies of earlier ones.
LEMMA AgreementIsCopied ==
    ASSUME BackupInv, BackupTypes', UNCHANGED view,
           \A k \in Everywhere' : \A c \in DOMAIN k.chats :
              \E m \in Everywhere : c \in DOMAIN m.chats /\ CopyOf(k.chats[c], m.chats[c])
    PROVE  SettingsAgree'
<1> SUFFICES ASSUME NEW c \in BackupContacts PROVE \E S \in Nat, N \in BOOLEAN : Agreed(c, S, N)'
  BY DEF SettingsAgree
<1>1. PICK S \in Nat, N \in BOOLEAN : Agreed(c, S, N)
  BY DEF BackupInv, SettingsAgree
<1>2. ASSUME NEW k \in Everywhere', c \in DOMAIN k.chats
      PROVE  SettingOf(k.chats[c], S, N) /\ k.chats[c].told <= view'[c].seq
  <2>1. PICK m \in Everywhere : c \in DOMAIN m.chats /\ CopyOf(k.chats[c], m.chats[c])
    BY <1>2
  <2>2. m.chats \in BkChats /\ k.chats \in BkChats
    <3>1. m.chats \in BkChats
      BY BlobsAreChats DEF BackupInv
    <3>2. k \in Blobs \/ k \in Devices
      BY DEF BackupTypes, Everywhere
    <3>3. QED BY <3>1, <3>2 DEF Blobs, Devices
  <2>3. m.chats[c] \in BkChat /\ k.chats[c] \in BkChat
    BY <1>2, <2>1, <2>2, ChatMaps
  <2>4. SettingOf(m.chats[c], S, N) /\ m.chats[c].told <= view[c].seq
    BY <1>1, <2>1 DEF Agreed
  <2>5. SettingOf(k.chats[c], S, N)
    BY <2>1, <2>3, <2>4, SettingIsCopied
  <2>6. k.chats[c].told = m.chats[c].told
    BY <2>1 DEF CopyOf
  <2>7. QED BY <2>4, <2>5, <2>6
<1>3. Agreed(c, S, N)'
  BY <1>1, <1>2 DEF Agreed
<1>4. QED BY <1>3

\* A chat put on the device.
LEMMA ChatIsPut ==
    ASSUME NEW d \in Devices, NEW c \in BackupContacts, NEW x \in BkChat
    PROVE  /\ Put(d, c, x) \in Devices /\ Put(d, c, x).on = d.on /\ Put(d, c, x).files = d.files
           /\ HasChat(Put(d, c, x)) = HasChat(d) \cup {c} /\ Put(d, c, x).chats[c] = x
           /\ \A y \in HasChat(d) \ {c} : Put(d, c, x).chats[y] = d.chats[y]
<1> DEFINE m == [y \in HasChat(d) \cup {c} |-> IF y = c THEN x ELSE d.chats[y]]
<1>1. d.chats \in BkChats /\ HasChat(d) \subseteq BackupContacts
  BY ChatMaps DEF Devices, HasChat
<1>2. DOMAIN m = HasChat(d) \cup {c} /\ m[c] = x /\ \A y \in HasChat(d) \ {c} : m[y] = d.chats[y]
  OBVIOUS
<1>3. \A y \in DOMAIN m : m[y] \in BkChat
  BY <1>1, <1>2, ChatMaps DEF HasChat
<1>4. m \in [DOMAIN m -> BkChat] /\ DOMAIN m \subseteq BackupContacts
  BY <1>1, <1>3
<1>5. m \in BkChats
  BY <1>4, ChatMaps
<1>6. Put(d, c, x) = [d EXCEPT !.chats = m]
  BY DEF Put
<1> HIDE DEF m
<1>7. /\ Put(d, c, x) \in Devices /\ Put(d, c, x).chats = m /\ Put(d, c, x).on = d.on
      /\ Put(d, c, x).files = d.files
  BY <1>5, <1>6 DEF Devices
<1>8. QED BY <1>2, <1>7 DEF HasChat

\* What a step must show: types, tombstones, the copy in hand, and where each chat comes from.
LEMMA CopiesKeep ==
    ASSUME BackupInv, BackupTypes', InHand', NewestFirst', UNCHANGED view,
           \A k \in Everywhere' : \A c \in DOMAIN k.chats :
              /\ Apart(k.chats[c])
              /\ \E m \in Everywhere : c \in DOMAIN m.chats /\ CopyOf(k.chats[c], m.chats[c]),
           \A c \in BackupContacts :
              unsent'[c] \subseteq (IF c \in HasChat(dev') THEN dev'.chats[c].tombs ELSE {})
    PROVE  BackupInv'
<1>1. SettingsAgree'
  BY AgreementIsCopied
<1>2. TombsKept'
  BY DEF TombsKept
<1>3. QED BY <1>1, <1>2 DEF BackupInv

\* Two states of a chat with one setting; and a device whose chats only gained.
SameSetting(x, y) == x.seq = y.seq /\ x.near = y.near /\ x.told = y.told
Grown(d, e) ==
    \A c \in HasChat(d) \cap HasChat(e) :
        e.chats[c].session >= d.chats[c].session /\ d.chats[c].tombs \subseteq e.chats[c].tombs
\* What is exported of the device.
ExportOf(d, e) ==
    /\ e \in Blobs
    /\ \A c \in DOMAIN e.chats :
          c \in HasChat(d) /\ CopyOf(e.chats[c], d.chats[c]) /\ Apart(e.chats[c])

\* A phone in use, and what is exported of it.
LEMMA UseKeeps ==
    ASSUME BackupInv, dev.on, NEW d \in Devices, dev' = d, d.on,
           HasChat(d) \subseteq HasChat(dev),
           \A c \in HasChat(d) : SameSetting(d.chats[c], dev.chats[c]) /\ Apart(d.chats[c]),
           NEW p, prepared' = p, p = prepared \/ ExportOf(dev, p),
           NEW s, serverSlot' = s, s = serverSlot \/ ExportOf(dev, s),
           UNCHANGED <<exports, fetched, view>>,
           unsent' \in [BackupContacts -> SUBSET Msgs],
           \A c \in BackupContacts : unsent'[c] \subseteq (IF c \in HasChat(d) THEN d.chats[c].tombs ELSE {})
    PROVE  BackupInv'
<1>1. BackupTypes /\ InHand /\ fetched = NoBlob
  BY DEF BackupInv, InHand
<1>2. BackupTypes'
  BY <1>1 DEF BackupTypes, ExportOf
<1>3. InHand'
  BY <1>1 DEF InHand
<1>4. NewestFirst'
  <2> SUFFICES ASSUME exports = {}, NEW c \in BackupContacts
               PROVE  /\ c \in HasChat(d) => view[c].seq <= d.chats[c].seq
                      /\ s # NoBlob /\ c \in DOMAIN s.chats =>
                            /\ view[c].seq <= s.chats[c].seq
                            /\ c \in HasChat(d) => d.chats[c].seq <= s.chats[c].seq
    BY <1>1 DEF NewestFirst
  <2>1. /\ c \in HasChat(dev) => view[c].seq <= dev.chats[c].seq
        /\ serverSlot # NoBlob /\ c \in DOMAIN serverSlot.chats =>
              /\ view[c].seq <= serverSlot.chats[c].seq
              /\ c \in HasChat(dev) => dev.chats[c].seq <= serverSlot.chats[c].seq
    BY DEF BackupInv, NewestFirst
  <2>2. c \in HasChat(d) => c \in HasChat(dev) /\ d.chats[c].seq = dev.chats[c].seq
    BY DEF SameSetting
  <2>3. CASE s = serverSlot
    BY <2>1, <2>2, <2>3
  <2>4. CASE ExportOf(dev, s)
    <3>1. c \in DOMAIN s.chats => /\ c \in HasChat(dev) /\ CopyOf(s.chats[c], dev.chats[c])
                                  /\ s.chats[c] \in BkChat /\ dev.chats[c] \in BkChat
      BY <1>1, <2>4, ChatMaps DEF ExportOf, BackupTypes, Blobs, Devices, HasChat
    <3>2. c \in DOMAIN s.chats => dev.chats[c].seq <= s.chats[c].seq
                                  /\ dev.chats[c].seq \in Nat /\ s.chats[c].seq \in Nat
      BY <3>1 DEF CopyOf, BkChat
    <3>3. view[c].seq \in Nat
      BY <1>1 DEF BackupTypes
    <3>4. QED BY <2>1, <2>2, <3>1, <3>2, <3>3
  <2>5. QED BY <2>3, <2>4
<1>5. ASSUME NEW k \in Everywhere', NEW c \in DOMAIN k.chats
      PROVE  /\ Apart(k.chats[c])
             /\ \E m \in Everywhere : c \in DOMAIN m.chats /\ CopyOf(k.chats[c], m.chats[c])
  <2>1. CASE k = d
    <3>1. c \in HasChat(d) /\ c \in HasChat(dev) /\ SameSetting(d.chats[c], dev.chats[c]) /\ Apart(d.chats[c])
      BY <2>1 DEF HasChat
    <3>2. CopyOf(d.chats[c], dev.chats[c])
      BY <3>1 DEF SameSetting, CopyOf
    <3>3. QED BY <2>1, <3>1, <3>2 DEF Everywhere, HasChat
  <2>2. CASE k \in Everywhere
    BY <2>2 DEF BackupInv, TombsKept, CopyOf
  <2>3. CASE ExportOf(dev, k)
    BY <2>3 DEF ExportOf, Everywhere, HasChat
  <2>4. QED BY <2>1, <2>2, <2>3 DEF Everywhere
<1>6. QED BY <1>2, <1>3, <1>4, <1>5, CopiesKeep

\* A chat of the device and its sealed pictures are replaced.
PutChat(d, c, x, F) == [Put(d, c, x) EXCEPT !.files = F]

LEMMA ChatStepKeeps ==
    ASSUME BackupInv, dev.on, NEW c \in BackupContacts, c \in HasChat(dev), NEW x \in BkChat,
           SameSetting(x, dev.chats[c]), Apart(x),
           x.session >= dev.chats[c].session, dev.chats[c].tombs \subseteq x.tombs,
           NEW F \in SUBSET Pictures, dev' = PutChat(dev, c, x, F),
           UNCHANGED <<prepared, serverSlot, exports, fetched, view>>,
           unsent' \in [BackupContacts -> SUBSET Msgs],
           \A y \in BackupContacts : y # c => unsent'[y] = unsent[y],
           unsent'[c] \subseteq x.tombs
    PROVE  BackupInv' /\ Grown(dev, dev')
<1>1. dev \in Devices
  BY DEF BackupInv, BackupTypes
<1>2. /\ dev' \in Devices /\ dev'.on /\ HasChat(dev') = HasChat(dev) /\ dev'.chats[c] = x
      /\ \A y \in HasChat(dev) \ {c} : dev'.chats[y] = dev.chats[y]
  <2> DEFINE p == Put(dev, c, x)
  <2>1. /\ p \in Devices /\ p.on = dev.on /\ HasChat(p) = HasChat(dev) \cup {c} /\ p.chats[c] = x
        /\ \A y \in HasChat(dev) \ {c} : p.chats[y] = dev.chats[y]
    BY ONLY <1>1, c \in BackupContacts, x \in BkChat, ChatIsPut
  <2>2. dev' = [p EXCEPT !.files = F]
    BY DEF PutChat
  <2> HIDE DEF p
  <2>3. /\ dev' \in Devices /\ dev'.on = p.on /\ dev'.chats = p.chats
    BY <2>1, <2>2 DEF Devices
  <2>4. QED BY <2>1, <2>3 DEF HasChat
<1>3. \A y \in HasChat(dev) : /\ SameSetting(dev'.chats[y], dev.chats[y]) /\ Apart(dev'.chats[y])
                              /\ y \in BackupContacts /\ dev.chats[y] \in BkChat
  BY <1>1, <1>2, ChatMaps DEF BackupInv, TombsKept, Everywhere, HasChat, SameSetting, Devices
<1>4. \A y \in BackupContacts :
          unsent'[y] \subseteq (IF y \in HasChat(dev') THEN dev'.chats[y].tombs ELSE {})
  BY <1>2 DEF BackupInv, TombsKept
<1>5. Grown(dev, dev')
  <2>1. \A y \in HasChat(dev) : dev.chats[y].session >= dev.chats[y].session
    BY <1>3 DEF BkChat
  <2>2. QED BY <1>2, <2>1 DEF Grown
<1>6. PICK d \in Devices : d = dev'
  BY <1>2
<1>7. BackupInv'
  BY <1>2, <1>3, <1>4, <1>6, UseKeeps
<1>8. QED BY <1>5, <1>7

\* What every step keeps: the invariant, and what it does to a chat and to the taken copy.
StepKept ==
    /\ BackupInv'
    /\ dev.on /\ dev'.on => Grown(dev, dev')
    /\ fetched # NoBlob /\ fetched' = NoBlob => serverSlot' = fetched \/ dev'.on

LEMMA ChatOf ==
    ASSUME BackupInv, NEW c \in HasChat(dev)
    PROVE  /\ c \in BackupContacts /\ dev.chats[c] \in BkChat /\ Apart(dev.chats[c])
           /\ unsent[c] \subseteq dev.chats[c].tombs
<1>1. c \in BackupContacts /\ dev.chats[c] \in BkChat
  BY ChatMaps DEF BackupInv, BackupTypes, Devices, HasChat
<1>2. QED BY <1>1 DEF BackupInv, TombsKept, Everywhere, HasChat

LEMMA ExchangeKeeps ==
    ASSUME BackupInv, NEW c \in BackupContacts, NEW m \in Msgs, Exchange(c, m)
    PROVE  StepKept
<1> USE BackupAssumption
<1> DEFINE y == dev.chats[c]
           x == [y EXCEPT !.session = @ + 1, !.history = @ \cup {m}]
           F == dev.files \cup ({m} \cap Pictures)
<1>1. /\ dev.on /\ c \in HasChat(dev) /\ y.session < MaxSession /\ m \notin y.history /\ m \notin y.tombs
      /\ UNCHANGED <<prepared, exports, serverSlot, fetched, view, unsent>>
  BY DEF Exchange
<1>2. y \in BkChat /\ Apart(y) /\ unsent[c] \subseteq y.tombs
  BY <1>1, ChatOf
<1>3. /\ x \in BkChat /\ SameSetting(x, y) /\ Apart(x) /\ x.session >= y.session /\ x.tombs = y.tombs
  <2>1. x.session = y.session + 1 /\ x.history = y.history \cup {m} /\ x.tombs = y.tombs /\ SameSetting(x, y)
    BY <1>2 DEF BkChat, SameSetting
  <2>2. y.session + 1 \in 0 .. MaxSession /\ y.session + 1 >= y.session /\ y.history \cup {m} \in SUBSET Msgs
    BY <1>1, <1>2 DEF BkChat
  <2>3. x \in BkChat
    BY <1>2, <2>2 DEF BkChat
  <2>4. Apart(x)
    BY <1>1, <1>2, <2>1 DEF Apart
  <2>5. QED BY <2>1, <2>2, <2>3, <2>4
<1>4. F \in SUBSET Pictures /\ dev \in Devices
  BY DEF BackupInv, BackupTypes, Devices
<1>5. dev' = PutChat(dev, c, x, F)
  BY <1>4 DEF Exchange, Saves, PutChat, Put, Devices
<1>6. unsent' \in [BackupContacts -> SUBSET Msgs] /\ fetched = NoBlob
  BY <1>1 DEF BackupInv, BackupTypes, InHand
<1> HIDE DEF x, F
<1>7. BackupInv' /\ Grown(dev, dev')
  BY <1>1, <1>2, <1>3, <1>4, <1>5, <1>6, ChatStepKeeps
<1>8. QED BY <1>6, <1>7 DEF StepKept

LEMMA UnsendKeeps ==
    ASSUME BackupInv, NEW c \in BackupContacts, NEW m \in Msgs, Unsend(c, m)
    PROVE  StepKept
<1> DEFINE y == dev.chats[c]
           x == [y EXCEPT !.history = @ \ {m}, !.tombs = @ \cup {m}]
           F == dev.files \ {m}
<1>1. /\ dev.on /\ c \in HasChat(dev)
      /\ UNCHANGED <<prepared, exports, serverSlot, fetched, view>> /\ unsent' = [unsent EXCEPT ![c] = @ \cup {m}]
  BY DEF Unsend
<1>2. y \in BkChat /\ Apart(y) /\ unsent[c] \subseteq y.tombs
  BY <1>1, ChatOf
<1>3. /\ x \in BkChat /\ SameSetting(x, y) /\ Apart(x) /\ x.session >= y.session /\ x.tombs = y.tombs \cup {m}
  <2>1. /\ x.session = y.session /\ x.history = y.history \ {m} /\ x.tombs = y.tombs \cup {m}
        /\ SameSetting(x, y)
    BY <1>2 DEF BkChat, SameSetting
  <2>2. y.tombs \cup {m} \in SUBSET Msgs /\ y.history \ {m} \in SUBSET Msgs /\ y.session >= y.session
    BY <1>2 DEF BkChat
  <2>3. x \in BkChat
    BY <1>2, <2>2 DEF BkChat
  <2>4. Apart(x)
    BY <1>2, <2>1 DEF Apart
  <2>5. QED BY <2>1, <2>2, <2>3, <2>4
<1>4. F \in SUBSET Pictures /\ dev \in Devices
  BY DEF BackupInv, BackupTypes, Devices
<1>5. dev' = PutChat(dev, c, x, F)
  BY <1>4 DEF Unsend, Saves, PutChat, Put, Devices
<1>6. /\ unsent' \in [BackupContacts -> SUBSET Msgs] /\ unsent'[c] \subseteq x.tombs
      /\ \A z \in BackupContacts : z # c => unsent'[z] = unsent[z]
      /\ fetched = NoBlob
  BY <1>1, <1>2, <1>3 DEF BackupInv, BackupTypes, InHand
<1> HIDE DEF x, F
<1>7. BackupInv' /\ Grown(dev, dev')
  BY <1>1, <1>2, <1>3, <1>4, <1>5, <1>6, ChatStepKeeps
<1>8. QED BY <1>6, <1>7 DEF StepKept

LEMMA VanishKeeps ==
    ASSUME BackupInv, NEW c \in BackupContacts, NEW m \in Msgs, Vanish(c, m)
    PROVE  StepKept
<1> DEFINE y == dev.chats[c]
           x == [y EXCEPT !.history = @ \ {m}]
           F == dev.files \ {m}
<1>1. /\ dev.on /\ c \in HasChat(dev) /\ UNCHANGED <<prepared, exports, serverSlot, fetched, view, unsent>>
  BY DEF Vanish
<1>2. y \in BkChat /\ Apart(y) /\ unsent[c] \subseteq y.tombs
  BY <1>1, ChatOf
<1>3. /\ x \in BkChat /\ SameSetting(x, y) /\ Apart(x) /\ x.session >= y.session /\ x.tombs = y.tombs
  BY <1>2 DEF BkChat, SameSetting, Apart
<1>4. F \in SUBSET Pictures /\ dev \in Devices
  BY DEF BackupInv, BackupTypes, Devices
<1>5. dev' = PutChat(dev, c, x, F)
  BY <1>4 DEF Vanish, Saves, PutChat, Put, Devices
<1>6. unsent' \in [BackupContacts -> SUBSET Msgs] /\ fetched = NoBlob
  BY <1>1 DEF BackupInv, BackupTypes, InHand
<1> HIDE DEF x, F
<1>7. BackupInv' /\ Grown(dev, dev')
  BY <1>1, <1>2, <1>3, <1>4, <1>5, <1>6, ChatStepKeeps
<1>8. QED BY <1>6, <1>7 DEF StepKept

LEMMA DeleteChatKeeps ==
    ASSUME BackupInv, NEW c \in BackupContacts, DeleteChat(c)
    PROVE  StepKept
<1> DEFINE g == [x \in HasChat(dev) \ {c} |-> dev.chats[x]]
           F == dev.files \ dev.chats[c].history
           d == [dev EXCEPT !.chats = g, !.files = F]
<1>1. /\ dev.on /\ dev' = d /\ UNCHANGED <<prepared, exports, serverSlot, fetched, view>>
      /\ unsent' = [unsent EXCEPT ![c] = {}]
  BY DEF DeleteChat, Saves
<1>2. dev \in Devices /\ unsent \in [BackupContacts -> SUBSET Msgs] /\ fetched = NoBlob
  BY <1>1 DEF BackupInv, BackupTypes, InHand
<1>3. g \in BkChats
  <2>1. \A x \in DOMAIN g : g[x] \in BkChat /\ x \in BackupContacts
    BY ChatOf
  <2>2. g \in [DOMAIN g -> BkChat]
    BY <2>1
  <2>3. QED BY <2>1, <2>2, ChatMaps
<1>4. DOMAIN g = HasChat(dev) \ {c} /\ \A x \in DOMAIN g : g[x] = dev.chats[x]
  OBVIOUS
<1>5. F \in SUBSET Pictures
  BY <1>2 DEF Devices
<1> HIDE DEF g, F
<1>6. d \in Devices /\ d.on /\ d.chats = g
  BY <1>1, <1>2, <1>3, <1>5 DEF Devices
<1> HIDE DEF d
<1>7. /\ HasChat(d) = HasChat(dev) \ {c}
      /\ \A x \in HasChat(d) : /\ d.chats[x] = dev.chats[x] /\ SameSetting(d.chats[x], dev.chats[x])
                               /\ Apart(d.chats[x]) /\ d.chats[x].session >= dev.chats[x].session
  <2>1. HasChat(d) = HasChat(dev) \ {c} /\ \A x \in HasChat(d) : d.chats[x] = dev.chats[x]
    BY <1>4, <1>6 DEF HasChat
  <2>2. \A x \in HasChat(dev) : Apart(dev.chats[x]) /\ dev.chats[x].session >= dev.chats[x].session
    BY ChatOf DEF BkChat
  <2>3. QED BY <2>1, <2>2 DEF SameSetting
<1>8. unsent' \in [BackupContacts -> SUBSET Msgs]
  BY <1>1, <1>2
<1>9. \A x \in BackupContacts : unsent'[x] \subseteq (IF x \in HasChat(d) THEN d.chats[x].tombs ELSE {})
  BY <1>1, <1>2, <1>7 DEF BackupInv, TombsKept
<1>10. BackupInv'
  BY <1>1, <1>6, <1>7, <1>8, <1>9, UseKeeps
<1>11. Grown(dev, dev')
  BY <1>1, <1>7 DEF Grown
<1>12. QED BY <1>2, <1>10, <1>11 DEF StepKept

\* Marking chats as backed up changes nothing the invariant reads.
LEMMA MarkingIsHarmless ==
    ASSUME NEW d \in Devices, NEW S
    PROVE  LET e == MarkBacked(d, S) IN
           /\ e \in Devices /\ e.on = d.on /\ HasChat(e) = HasChat(d)
           /\ \A c \in HasChat(d) : /\ SameSetting(e.chats[c], d.chats[c]) /\ e.chats[c].session = d.chats[c].session
                                    /\ e.chats[c].history = d.chats[c].history /\ e.chats[c].tombs = d.chats[c].tombs
<1> DEFINE g == [c \in HasChat(d) |-> [d.chats[c] EXCEPT !.backed = @ \/ c \in S]]
<1>1. \A c \in HasChat(d) : d.chats[c] \in BkChat /\ c \in BackupContacts
  BY ChatMaps DEF Devices, HasChat
<1>2. \A c \in HasChat(d) : /\ g[c] \in BkChat /\ SameSetting(g[c], d.chats[c]) /\ g[c].session = d.chats[c].session
                            /\ g[c].history = d.chats[c].history /\ g[c].tombs = d.chats[c].tombs
  <2> TAKE c \in HasChat(d)
  <2> DEFINE b == d.chats[c].backed \/ c \in S
  <2>1. b \in BOOLEAN /\ g[c] = [d.chats[c] EXCEPT !.backed = b]
    OBVIOUS
  <2> HIDE DEF b
  <2>2. QED BY <1>1, <2>1 DEF BkChat, SameSetting
<1>3. DOMAIN g = HasChat(d)
  OBVIOUS
<1>4. MarkBacked(d, S) = [d EXCEPT !.chats = g]
  BY DEF MarkBacked
<1>5. g \in [DOMAIN g -> BkChat]
  BY <1>2, <1>3
<1> HIDE DEF g
<1>6. g \in BkChats
  BY <1>1, <1>3, <1>5, ChatMaps
<1>7. /\ MarkBacked(d, S) \in Devices /\ MarkBacked(d, S).on = d.on /\ MarkBacked(d, S).chats = g
  BY <1>4, <1>6 DEF Devices
<1>8. QED BY <1>2, <1>3, <1>7 DEF HasChat

\* What an export holds of a chat.
LEMMA ChatIsExported ==
    ASSUME NEW y \in BkChat, Apart(y), NEW full \in BOOLEAN
    PROVE  /\ Stripped(y, full) \in BkChat /\ CopyOf(Stripped(y, full), y) /\ Apart(Stripped(y, full))
           /\ LET z == Stripped(NearbyOff(y), full) IN z \in BkChat /\ CopyOf(z, y) /\ Apart(z)
<1>1. ASSUME NEW z \in BkChat, CopyOf(z, y), Apart(z)
      PROVE  Stripped(z, full) \in BkChat /\ CopyOf(Stripped(z, full), y) /\ Apart(Stripped(z, full))
  BY <1>1 DEF Stripped, BkChat, CopyOf, Apart
<1>2. CopyOf(y, y)
  BY DEF CopyOf
<1>3. NearbyOff(y) \in BkChat /\ CopyOf(NearbyOff(y), y) /\ Apart(NearbyOff(y))
  <2>1. CASE y.near
    <3> DEFINE n == y.seq + 1
               z == [y EXCEPT !.near = FALSE, !.seq = n]
    <3>1. n \in Nat /\ n = y.seq + 1 /\ NearbyOff(y) = z
      BY <2>1 DEF NearbyOff, BkChat
    <3> HIDE DEF n
    <3>2. z \in BkChat
      BY <3>1 DEF BkChat
    <3>3. z.seq = n /\ ~z.near /\ z.told = y.told /\ z.history = y.history /\ z.tombs = y.tombs
      BY DEF BkChat
    <3> HIDE DEF z
    <3>4. QED BY <2>1, <3>1, <3>2, <3>3 DEF CopyOf, Apart
  <2>2. CASE ~y.near
    BY <1>2, <2>2 DEF NearbyOff
  <2>3. QED BY <2>1, <2>2
<1>4. QED BY <1>1, <1>2, <1>3

LEMMA DeviceIsExported ==
    ASSUME BackupInv, NEW full \in BOOLEAN
    PROVE  ExportOf(dev, DeviceExport(full))
<1> DEFINE g == [c \in HasChat(dev) |-> Stripped(NearbyOff(dev.chats[c]), full)]
           F == IF full THEN dev.files ELSE {}
<1>1. \A c \in HasChat(dev) : g[c] \in BkChat /\ CopyOf(g[c], dev.chats[c]) /\ Apart(g[c]) /\ c \in BackupContacts
  BY ChatOf, ChatIsExported
<1>2. DOMAIN g = HasChat(dev)
  OBVIOUS
<1>3. DeviceExport(full) = [is |-> "device", chats |-> g, files |-> F]
  BY DEF DeviceExport
<1>4. g \in [DOMAIN g -> BkChat]
  BY <1>1, <1>2
<1>5. F \in SUBSET Pictures
  BY DEF BackupInv, BackupTypes, Devices
<1> HIDE DEF g, F
<1>6. g \in BkChats
  BY <1>1, <1>2, <1>4, ChatMaps
<1>7. QED BY <1>1, <1>2, <1>3, <1>5, <1>6 DEF ExportOf, Blobs

LEMMA ChatAloneIsExported ==
    ASSUME BackupInv, NEW c \in HasChat(dev), NEW full \in BOOLEAN
    PROVE  ExportOf(dev, ChatExport(c, full))
<1> DEFINE g == [x \in {c} |-> Stripped(dev.chats[c], full)]
           F == IF full THEN dev.files \cap dev.chats[c].history ELSE {}
<1>1. g[c] \in BkChat /\ CopyOf(g[c], dev.chats[c]) /\ Apart(g[c]) /\ c \in BackupContacts
  BY ChatOf, ChatIsExported
<1>2. DOMAIN g = {c}
  OBVIOUS
<1>3. ChatExport(c, full) = [is |-> "chat", chats |-> g, files |-> F]
  BY DEF ChatExport
<1>4. g \in [DOMAIN g -> BkChat]
  BY <1>1, <1>2
<1>5. F \in SUBSET Pictures
  BY DEF BackupInv, BackupTypes, Devices
<1> HIDE DEF g, F
<1>6. g \in BkChats
  BY <1>1, <1>2, <1>4, ChatMaps
<1>7. QED BY <1>1, <1>2, <1>3, <1>5, <1>6 DEF ExportOf, Blobs

\* A device that only marked chats, and what it exported meanwhile.
LEMMA ExportKeeps ==
    ASSUME BackupInv, dev.on, NEW d \in Devices, dev' = d, d.on = dev.on, HasChat(d) = HasChat(dev),
           \A c \in HasChat(dev) : /\ SameSetting(d.chats[c], dev.chats[c]) /\ d.chats[c].session = dev.chats[c].session
                                   /\ d.chats[c].history = dev.chats[c].history
                                   /\ d.chats[c].tombs = dev.chats[c].tombs,
           NEW p, prepared' = p, p = prepared \/ ExportOf(dev, p),
           NEW s, serverSlot' = s, s = serverSlot \/ ExportOf(dev, s),
           UNCHANGED <<exports, fetched, view, unsent>>
    PROVE  StepKept
<1>1. \A c \in HasChat(d) : /\ SameSetting(d.chats[c], dev.chats[c]) /\ Apart(d.chats[c])
                            /\ d.chats[c].session >= dev.chats[c].session
                            /\ d.chats[c].tombs = dev.chats[c].tombs
  BY ChatOf DEF Apart, BkChat
<1>2. unsent' \in [BackupContacts -> SUBSET Msgs] /\ fetched = NoBlob
  BY DEF BackupInv, BackupTypes, InHand
<1>3. \A c \in BackupContacts : unsent'[c] \subseteq (IF c \in HasChat(d) THEN d.chats[c].tombs ELSE {})
  BY <1>1 DEF BackupInv, TombsKept
<1>4. BackupInv'
  BY <1>1, <1>2, <1>3, UseKeeps
<1>5. Grown(dev, dev')
  BY <1>1 DEF Grown
<1>6. QED BY <1>2, <1>4, <1>5 DEF StepKept

LEMMA ExportsKeep ==
    ASSUME BackupInv, NEW full \in BOOLEAN,
           CreateBackup(full) \/ CreateServerBackup(full) \/ \E c \in BackupContacts : CreateChatBackup(c, full)
    PROVE  StepKept
<1>1. dev \in Devices
  BY DEF BackupInv, BackupTypes
<1>2. PICK d \in Devices : d = dev' /\ (d = dev \/ \E S : d = MarkBacked(dev, S))
  <2>1. dev' = dev \/ \E S : dev' = MarkBacked(dev, S)
    BY DEF CreateBackup, CreateServerBackup, CreateChatBackup, Saves
  <2>2. QED BY <1>1, <2>1, MarkingIsHarmless
<1>3. /\ d.on = dev.on /\ HasChat(d) = HasChat(dev)
      /\ \A c \in HasChat(dev) : /\ SameSetting(d.chats[c], dev.chats[c]) /\ d.chats[c].session = dev.chats[c].session
                                 /\ d.chats[c].history = dev.chats[c].history
                                 /\ d.chats[c].tombs = dev.chats[c].tombs
  <2>1. CASE d = dev
    BY <2>1 DEF SameSetting
  <2>2. CASE \E S : d = MarkBacked(dev, S)
    BY <1>1, <2>2, MarkingIsHarmless
  <2>3. QED BY <1>2, <2>1, <2>2
<1>4. dev.on /\ UNCHANGED <<exports, fetched, view, unsent>>
  BY DEF CreateBackup, CreateServerBackup, CreateChatBackup
<1>5. /\ prepared' = prepared \/ ExportOf(dev, prepared')
      /\ serverSlot' = serverSlot \/ ExportOf(dev, serverSlot')
  BY DeviceIsExported, ChatAloneIsExported DEF CreateBackup, CreateServerBackup, CreateChatBackup
<1>6. QED BY <1>2, <1>3, <1>4, <1>5, ExportKeeps

\* A step after which every chat there is was there before.
LEMMA FewerKeep ==
    ASSUME BackupInv, BackupTypes', InHand', NewestFirst', UNCHANGED view,
           \A k \in Everywhere' : DOMAIN k.chats = {} \/ \E m \in Everywhere : k.chats = m.chats,
           \A c \in BackupContacts :
              unsent'[c] \subseteq (IF c \in HasChat(dev') THEN dev'.chats[c].tombs ELSE {})
    PROVE  BackupInv'
<1>1. ASSUME NEW k \in Everywhere', NEW c \in DOMAIN k.chats
      PROVE  Apart(k.chats[c]) /\ \E m \in Everywhere : c \in DOMAIN m.chats /\ CopyOf(k.chats[c], m.chats[c])
  <2>1. PICK m \in Everywhere : k.chats = m.chats
    BY <1>1
  <2>2. QED BY <1>1, <2>1 DEF BackupInv, TombsKept, CopyOf
<1>2. QED BY <1>1, CopiesKeep

LEMMA SaveKeeps ==
    ASSUME BackupInv, SaveBackup
    PROVE  StepKept
<1>1. /\ dev.on /\ prepared # NoBlob /\ exports' = exports \cup {prepared} /\ prepared' = NoBlob
      /\ UNCHANGED <<dev, serverSlot, fetched, view, unsent>> /\ fetched = NoBlob
  BY DEF SaveBackup, BackupInv, InHand
<1>2. BackupTypes'
  BY <1>1 DEF BackupInv, BackupTypes
<1>3. InHand' /\ NewestFirst'
  BY <1>1 DEF InHand, NewestFirst
<1>4. \A k \in Everywhere' : \E m \in Everywhere : k.chats = m.chats
  BY <1>1 DEF Everywhere
<1>5. \A c \in BackupContacts : unsent'[c] \subseteq (IF c \in HasChat(dev') THEN dev'.chats[c].tombs ELSE {})
  BY <1>1 DEF BackupInv, TombsKept, HasChat
<1>6. BackupInv'
  BY <1>1, <1>2, <1>3, <1>4, <1>5, FewerKeep
<1>7. Grown(dev, dev')
  BY <1>1, ChatOf DEF Grown, BkChat
<1>8. QED BY <1>1, <1>6, <1>7 DEF StepKept

LEMMA EmptyPhone == [c \in {} |-> NewChat] \in BkChats /\ DOMAIN [c \in {} |-> NewChat] = {}
<1>1. DOMAIN [c \in {} |-> NewChat] = {} /\ [c \in {} |-> NewChat] \in [{} -> BkChat]
  OBVIOUS
<1>2. QED BY <1>1, ChatMaps

LEMMA LossKeeps ==
    ASSUME BackupInv, LosePhone
    PROVE  StepKept
<1> DEFINE g == [c \in {} |-> NewChat]
<1>1. /\ dev.on /\ dev' = [on |-> FALSE, chats |-> g, files |-> {}] /\ prepared' = NoBlob
      /\ unsent' = [c \in BackupContacts |-> {}] /\ UNCHANGED <<exports, serverSlot, fetched, view>>
      /\ fetched = NoBlob
  BY DEF LosePhone, BackupInv, InHand
<1>2. g \in BkChats /\ DOMAIN g = {}
  BY EmptyPhone
<1> HIDE DEF g
<1>3. HasChat(dev') = {} /\ dev'.chats = g /\ ~dev'.on /\ dev' \in Devices
  BY <1>1, <1>2 DEF HasChat, Devices
<1>4. BackupTypes'
  BY <1>1, <1>3 DEF BackupInv, BackupTypes
<1>5. InHand'
  BY <1>1, <1>3 DEF InHand
<1>6. NewestFirst'
  BY <1>1, <1>3 DEF BackupInv, NewestFirst
<1>7. \A k \in Everywhere' : DOMAIN k.chats = {} \/ \E m \in Everywhere : k.chats = m.chats
  BY <1>1, <1>2, <1>3 DEF Everywhere
<1>8. \A c \in BackupContacts : unsent'[c] \subseteq (IF c \in HasChat(dev') THEN dev'.chats[c].tombs ELSE {})
  BY <1>1
<1>9. BackupInv'
  BY <1>1, <1>4, <1>5, <1>6, <1>7, <1>8, FewerKeep
<1>10. QED BY <1>1, <1>3, <1>9 DEF StepKept

\* A device rebuilt from a backup.
LEMMA RestoredIsDevice ==
    ASSUME NEW b \in Blobs
    PROVE  Restored(b) \in Devices /\ Restored(b).on /\ Restored(b).chats = b.chats
BY DEF Restored, Blobs, Devices

LEMMA RestoreKeeps ==
    ASSUME BackupInv, (\E b \in exports : RestoreFile(b)) \/ RestoreFetched
    PROVE  StepKept
<1>1. PICK b \in Blobs : /\ dev' = Restored(b) /\ ~dev.on /\ fetched' = NoBlob /\ b \in Everywhere
                         /\ UNCHANGED <<prepared, exports, serverSlot, view, unsent>>
                         /\ b \in exports \/ (b = fetched /\ fetched # NoBlob)
  <2>1. CASE \E b \in exports : RestoreFile(b)
    BY <2>1 DEF RestoreFile, Saves, BackupInv, BackupTypes, Everywhere
  <2>2. CASE RestoreFetched
    BY <2>2 DEF RestoreFetched, Saves, BackupInv, BackupTypes, Everywhere
  <2>3. QED BY <2>1, <2>2
<1>2. dev' \in Devices /\ dev'.on /\ dev'.chats = b.chats /\ HasChat(dev') = DOMAIN b.chats
  BY <1>1, RestoredIsDevice DEF HasChat
<1>3. BackupTypes'
  BY <1>1, <1>2 DEF BackupInv, BackupTypes
<1>4. InHand'
  BY <1>1, <1>2 DEF InHand
<1>5. NewestFirst'
  <2>1. CASE b \in exports
    BY <1>1, <2>1 DEF NewestFirst
  <2>2. CASE b = fetched /\ fetched # NoBlob
    BY <1>1, <1>2, <2>2 DEF BackupInv, InHand, NewestFirst
  <2>3. QED BY <1>1, <2>1, <2>2
<1>6. \A k \in Everywhere' : \E m \in Everywhere : k.chats = m.chats
  BY <1>1, <1>2 DEF Everywhere
<1>7. \A c \in BackupContacts : unsent'[c] \subseteq (IF c \in HasChat(dev') THEN dev'.chats[c].tombs ELSE {})
  BY <1>1 DEF BackupInv, TombsKept, InHand
<1>8. BackupInv'
  BY <1>1, <1>3, <1>4, <1>5, <1>6, <1>7, FewerKeep
<1>9. QED BY <1>1, <1>2, <1>8 DEF StepKept

LEMMA CopyKeeps ==
    ASSUME PlainFaults, BackupInv, TakeServerBackup \/ RestoreFails
    PROVE  StepKept
<1>1. /\ ~dev.on /\ HasChat(dev) = {} /\ UNCHANGED <<dev, prepared, exports, view, unsent>>
      /\ \/ fetched = NoBlob /\ fetched' = serverSlot /\ serverSlot' = NoBlob /\ serverSlot # NoBlob
         \/ serverSlot = NoBlob /\ serverSlot' = fetched /\ fetched' = NoBlob /\ fetched # NoBlob
  BY DEF TakeServerBackup, RestoreFails, PutBack, PlainFaults, BackupInv, InHand
<1>2. BackupTypes' /\ InHand'
  BY <1>1 DEF BackupInv, BackupTypes, InHand, HasChat
<1>3. HasChat(dev') = {}
  BY <1>1 DEF HasChat
<1>4. NewestFirst'
  BY <1>1, <1>3 DEF BackupInv, NewestFirst
<1>5. \A k \in Everywhere' : k \in Everywhere
  BY <1>1 DEF Everywhere
<1>6. \A c \in BackupContacts : unsent'[c] \subseteq (IF c \in HasChat(dev') THEN dev'.chats[c].tombs ELSE {})
  BY <1>1, <1>3 DEF BackupInv, TombsKept
<1>7. BackupInv'
  BY <1>1, <1>2, <1>4, <1>5, <1>6, FewerKeep
<1>8. QED BY <1>1, <1>7 DEF StepKept

\* A contact the device pairs, of whom nothing was ever kept.
LEMMA AddKeeps ==
    ASSUME BackupInv, NEW c \in BackupContacts, AddContact(c)
    PROVE  StepKept
<1> DEFINE p == Put(dev, c, NewChat)
<1>1. /\ dev.on /\ c \notin HasChat(dev) /\ view[c] = [on |-> FALSE, seq |-> 0] /\ dev' = p
      /\ UNCHANGED <<prepared, exports, serverSlot, fetched, view, unsent>> /\ fetched = NoBlob
      /\ \A k \in Everywhere : c \notin DOMAIN k.chats
  BY DEF AddContact, Saves, BackupInv, InHand, Everywhere, HasChat
<1>2. NewChat \in BkChat /\ NewChat.seq = 0 /\ NewChat.told = 0 /\ NewChat.near = FALSE /\ Apart(NewChat)
  BY BackupAssumption DEF NewChat, BkChat, Apart
<1>3. dev \in Devices
  BY DEF BackupInv, BackupTypes
<1>4. /\ p \in Devices /\ p.on = dev.on /\ HasChat(p) = HasChat(dev) \cup {c} /\ p.chats[c] = NewChat
      /\ \A y \in HasChat(dev) \ {c} : p.chats[y] = dev.chats[y]
  BY ONLY <1>2, <1>3, c \in BackupContacts, ChatIsPut
<1> HIDE DEF p
<1>5. /\ dev' \in Devices /\ dev'.on /\ HasChat(dev') = HasChat(dev) \cup {c} /\ dev'.chats[c] = NewChat
      /\ \A y \in HasChat(dev) : y # c /\ dev'.chats[y] = dev.chats[y]
  BY <1>1, <1>4
<1>6. BackupTypes' /\ InHand'
  BY <1>1, <1>5 DEF BackupInv, BackupTypes, InHand
<1>7. NewestFirst'
  <2> SUFFICES ASSUME exports = {}, NEW y \in BackupContacts
               PROVE  /\ y \in HasChat(dev') => view[y].seq <= dev'.chats[y].seq
                      /\ \A k \in {serverSlot, fetched} \ {NoBlob} : y \in DOMAIN k.chats =>
                            /\ view[y].seq <= k.chats[y].seq
                            /\ y \in HasChat(dev') => dev'.chats[y].seq <= k.chats[y].seq
    BY <1>1 DEF NewestFirst
  <2>1. CASE y = c
    BY <1>1, <1>2, <1>5, <2>1 DEF Everywhere
  <2>2. CASE y # c
    BY <1>5, <2>2 DEF BackupInv, NewestFirst
  <2>3. QED BY <2>1, <2>2
<1>8. ASSUME NEW k \in Everywhere', NEW y \in DOMAIN k.chats
      PROVE  /\ Apart(k.chats[y])
             /\ \/ k.chats[y] = NewChat /\ y = c
                \/ y # c /\ \E m \in Everywhere : y \in DOMAIN m.chats /\ k.chats[y] = m.chats[y]
  <2>1. CASE k \in Everywhere
    BY <1>1, <2>1 DEF BackupInv, TombsKept
  <2>2. CASE k = dev' /\ y = c
    BY <1>2, <1>5, <2>2
  <2>3. CASE k = dev' /\ y # c
    <3>1. y \in HasChat(dev) /\ k.chats[y] = dev.chats[y]
      BY <1>5, <2>3 DEF HasChat
    <3>2. QED BY <2>3, <3>1, ChatOf DEF Everywhere, HasChat
  <2>4. QED BY <1>1, <2>1, <2>2, <2>3 DEF Everywhere
<1>9. TombsKept'
  <2>1. \A y \in BackupContacts :
            unsent'[y] \subseteq (IF y \in HasChat(dev') THEN dev'.chats[y].tombs ELSE {})
    BY <1>1, <1>5 DEF BackupInv, TombsKept
  <2>2. QED BY <1>8, <2>1 DEF TombsKept
<1>10. SettingsAgree'
  <2> SUFFICES ASSUME NEW y \in BackupContacts PROVE \E S \in Nat, N \in BOOLEAN : Agreed(y, S, N)'
    BY DEF SettingsAgree
  <2>1. CASE y = c
    <3>1. SettingOf(NewChat, 0, FALSE)
      BY <1>2 DEF SettingOf
    <3>2. ASSUME NEW k \in Everywhere', y \in DOMAIN k.chats
          PROVE  SettingOf(k.chats[y], 0, FALSE) /\ k.chats[y].told <= view'[y].seq
      <4>1. k.chats[y] = NewChat
        BY <1>8, <2>1, <3>2
      <4>2. NewChat.told = 0 /\ view'[y].seq = 0
        BY ONLY <1>1, <1>2, <2>1
      <4>3. k.chats[y].told <= view'[y].seq
        BY ONLY <4>1, <4>2
      <4>4. QED BY ONLY <3>1, <4>1, <4>3
    <3>3. /\ view'[y].seq <= 0 + 1 /\ (view'[y].seq = 0 => view'[y].on = FALSE)
          /\ view'[y].seq = 0 + 1 => FALSE /\ ~view'[y].on
      BY <1>1, <2>1
    <3>4. Agreed(y, 0, FALSE)'
      BY <3>2, <3>3 DEF Agreed
    <3>5. QED BY <3>4
  <2>2. CASE y # c
    <3>1. PICK S \in Nat, N \in BOOLEAN : Agreed(y, S, N)
      BY DEF BackupInv, SettingsAgree
    <3>2. ASSUME NEW k \in Everywhere', y \in DOMAIN k.chats
          PROVE  SettingOf(k.chats[y], S, N) /\ k.chats[y].told <= view'[y].seq
      BY <1>1, <1>8, <2>2, <3>1, <3>2 DEF Agreed
    <3>3. Agreed(y, S, N)'
      BY <1>1, <3>1, <3>2 DEF Agreed
    <3>4. QED BY <3>3
  <2>3. QED BY <2>1, <2>2
<1>11. BackupInv'
  BY <1>6, <1>7, <1>9, <1>10 DEF BackupInv
<1>12. Grown(dev, dev')
  BY <1>5, ChatOf DEF Grown, BkChat
<1>13. QED BY <1>1, <1>11, <1>12 DEF StepKept

\* A chat an export is folded into keeps its session and its setting.
LEMMA FoldIs ==
    ASSUME BackupInv, NEW b \in exports, NEW c \in HasChat(dev) \cap DOMAIN b.chats
    PROVE  LET x == Folded(dev, b, c)
           IN  /\ x \in BkChat /\ SameSetting(x, dev.chats[c]) /\ Apart(x)
               /\ x.session = dev.chats[c].session /\ dev.chats[c].tombs \subseteq x.tombs
<1> DEFINE y == dev.chats[c]
           z == b.chats[c]
           H == y.history \cup (z.history \ y.tombs)
           T == y.tombs \cup (z.tombs \ y.history)
           x == [y EXCEPT !.history = H, !.tombs = T]
<1>1. y \in BkChat /\ Apart(y)
  BY ChatOf
<1>2. z \in BkChat /\ Apart(z)
  <2>1. b.chats \in BkChats
    BY BlobsAreChats DEF BackupInv, Everywhere
  <2>2. QED BY <2>1, ChatMaps DEF BackupInv, TombsKept, Everywhere
<1>3. H \in SUBSET Msgs /\ T \in SUBSET Msgs /\ H \cap T = {} /\ y.tombs \subseteq T
  BY <1>1, <1>2 DEF BkChat, Apart
<1>4. Folded(dev, b, c) = x
  BY DEF Folded
<1> HIDE DEF H, T
<1>5. x \in BkChat /\ SameSetting(x, y) /\ Apart(x) /\ x.session = y.session /\ x.tombs = T
  BY <1>1, <1>3 DEF BkChat, SameSetting, Apart
<1> HIDE DEF x
<1>6. QED BY <1>3, <1>4, <1>5

\* Where the chats of a merged device come from.
LEMMA MergedIs ==
    ASSUME BackupInv, NEW b \in exports, NEW C \in SUBSET DOMAIN b.chats
    PROVE  LET e == Merged(dev, b, C)
           IN  /\ e \in Devices /\ e.on = dev.on /\ e.files = dev.files /\ HasChat(e) = HasChat(dev) \cup C
               /\ \A c \in HasChat(dev) : /\ SameSetting(e.chats[c], dev.chats[c]) /\ Apart(e.chats[c])
                                          /\ e.chats[c].session >= dev.chats[c].session
                                          /\ dev.chats[c].tombs \subseteq e.chats[c].tombs
               /\ \A c \in C \ HasChat(dev) : e.chats[c] = b.chats[c] /\ Apart(e.chats[c])
<1> DEFINE g == [c \in HasChat(dev) \cup C |->
                    IF c \notin C THEN dev.chats[c] ELSE IF c \in HasChat(dev) THEN Folded(dev, b, c) ELSE b.chats[c]]
           e == [dev EXCEPT !.chats = g]
<1>1. dev \in Devices
  BY DEF BackupInv, BackupTypes
<1>2. \A c \in DOMAIN b.chats : c \in BackupContacts /\ b.chats[c] \in BkChat /\ Apart(b.chats[c])
  <2>1. b.chats \in BkChats
    BY BlobsAreChats DEF BackupInv, Everywhere
  <2>2. QED BY <2>1, ChatMaps DEF BackupInv, TombsKept, Everywhere
<1>3. DOMAIN g = HasChat(dev) \cup C
  OBVIOUS
<1>4. ASSUME NEW c \in HasChat(dev)
      PROVE  /\ g[c] \in BkChat /\ SameSetting(g[c], dev.chats[c]) /\ Apart(g[c]) /\ c \in BackupContacts
             /\ g[c].session >= dev.chats[c].session /\ dev.chats[c].tombs \subseteq g[c].tombs
  <2>1. c \in BackupContacts /\ dev.chats[c] \in BkChat /\ Apart(dev.chats[c])
    BY ChatOf
  <2>2. dev.chats[c].session >= dev.chats[c].session
    BY <2>1 DEF BkChat
  <2>3. CASE c \notin C
    <3>1. g[c] = dev.chats[c]
      BY <2>3
    <3> HIDE DEF g
    <3>2. QED BY <2>1, <2>2, <3>1 DEF SameSetting
  <2>4. CASE c \in C
    <3>1. g[c] = Folded(dev, b, c)
      BY <2>4
    <3> HIDE DEF g
    <3>2. /\ Folded(dev, b, c) \in BkChat /\ SameSetting(Folded(dev, b, c), dev.chats[c]) /\ Apart(Folded(dev, b, c))
          /\ Folded(dev, b, c).session = dev.chats[c].session
          /\ dev.chats[c].tombs \subseteq Folded(dev, b, c).tombs
      BY <2>4, FoldIs
    <3>3. QED BY <2>1, <2>2, <3>1, <3>2
  <2>5. QED BY <2>3, <2>4
<1>5. \A c \in C \ HasChat(dev) : g[c] = b.chats[c] /\ g[c] \in BkChat /\ Apart(g[c]) /\ c \in BackupContacts
  BY <1>2
<1>6. Merged(dev, b, C) = e
  BY DEF Merged
<1> HIDE DEF g
<1>7. g \in [DOMAIN g -> BkChat] /\ DOMAIN g \subseteq BackupContacts
  <2>1. g = [c \in DOMAIN g |-> g[c]]
    BY DEF g
  <2>2. \A c \in DOMAIN g : g[c] \in BkChat /\ c \in BackupContacts
    BY <1>3, <1>4, <1>5
  <2>3. QED BY <2>1, <2>2
<1>8. g \in BkChats
  BY <1>7, ChatMaps
<1>9. e \in Devices /\ e.chats = g /\ e.on = dev.on /\ e.files = dev.files
  BY <1>1, <1>8 DEF Devices
<1> HIDE DEF e
<1>10. QED BY <1>3, <1>4, <1>5, <1>6, <1>9 DEF HasChat

LEMMA MergeKeeps ==
    ASSUME BackupInv, NEW b \in exports, MergeBackup(b)
    PROVE  StepKept
<1>1. /\ dev.on /\ UNCHANGED <<prepared, exports, serverSlot, fetched, view, unsent>> /\ fetched = NoBlob
  BY DEF MergeBackup, BackupInv, InHand
<1>2. PICK C \in SUBSET DOMAIN b.chats :
         dev' = Merged(dev, b, C) \/ dev' = [Merged(dev, b, C) EXCEPT !.files = @ \cup b.files]
  BY DEF MergeBackup, Saves
<1> DEFINE e == Merged(dev, b, C)
<1>3. /\ e \in Devices /\ e.on = dev.on /\ e.files = dev.files /\ HasChat(e) = HasChat(dev) \cup C
      /\ \A c \in HasChat(dev) : /\ SameSetting(e.chats[c], dev.chats[c]) /\ Apart(e.chats[c])
                                 /\ e.chats[c].session >= dev.chats[c].session
                                 /\ dev.chats[c].tombs \subseteq e.chats[c].tombs
      /\ \A c \in C \ HasChat(dev) : e.chats[c] = b.chats[c] /\ Apart(e.chats[c])
  BY MergedIs
<1>4. b.files \subseteq Pictures /\ b \in Everywhere
  BY BlobsAreChats DEF BackupInv, Everywhere
<1>5. dev' = e \/ dev' = [e EXCEPT !.files = @ \cup b.files]
  BY <1>2
<1> HIDE DEF e
<1>6. dev' \in Devices /\ dev'.on /\ dev'.chats = e.chats
  BY <1>1, <1>3, <1>4, <1>5 DEF Devices
<1>7. HasChat(dev') = HasChat(dev) \cup C
  BY <1>3, <1>6 DEF HasChat
<1>8. BackupTypes' /\ InHand' /\ NewestFirst'
  BY <1>1, <1>6 DEF BackupInv, BackupTypes, InHand, NewestFirst
<1>9. ASSUME NEW k \in Everywhere', NEW y \in DOMAIN k.chats
      PROVE  /\ Apart(k.chats[y])
             /\ \E m \in Everywhere : y \in DOMAIN m.chats /\ CopyOf(k.chats[y], m.chats[y])
  <2>1. CASE k \in Everywhere
    BY <2>1 DEF BackupInv, TombsKept, CopyOf
  <2>2. CASE k = dev' /\ y \in HasChat(dev)
    BY <1>3, <1>6, <2>2 DEF CopyOf, SameSetting, Everywhere, HasChat
  <2>3. CASE k = dev' /\ y \notin HasChat(dev)
    <3>1. y \in C /\ k.chats[y] = b.chats[y] /\ Apart(k.chats[y])
      BY <1>3, <1>6, <1>7, <2>3 DEF HasChat
    <3>2. QED BY <1>4, <3>1 DEF CopyOf
  <2>4. QED BY <1>1, <2>1, <2>2, <2>3 DEF Everywhere
<1>10. \A y \in BackupContacts :
           unsent'[y] \subseteq (IF y \in HasChat(dev') THEN dev'.chats[y].tombs ELSE {})
  BY <1>1, <1>3, <1>6, <1>7 DEF BackupInv, TombsKept
<1>11. BackupInv'
  BY <1>1, <1>8, <1>9, <1>10, CopiesKeep
<1>12. Grown(dev, dev')
  BY <1>3, <1>6 DEF Grown
<1>13. QED BY <1>1, <1>11, <1>12 DEF StepKept

\* The device alone holds the chats: no backup was ever kept.
LEMMA SwitchKeeps ==
    ASSUME PlainFaults, BackupInv, NEW c \in BackupContacts, SwitchNearby(c)
    PROVE  StepKept
<1> DEFINE y == dev.chats[c]
           n == y.seq + 1
           on == ~y.near
           x == [y EXCEPT !.near = on, !.seq = n]
<1>1. /\ dev.on /\ c \in HasChat(dev) /\ exports = {} /\ serverSlot = NoBlob /\ prepared = NoBlob
      /\ fetched = NoBlob /\ UNCHANGED <<prepared, exports, serverSlot, fetched, view, unsent>>
      /\ dev' = Put(dev, c, x) /\ dev \in Devices
  BY DEF SwitchNearby, Saves, PlainFaults, BackupInv, BackupTypes, InHand
<1>2. y \in BkChat /\ Apart(y) /\ unsent[c] \subseteq y.tombs
  BY <1>1, ChatOf
<1>3. n \in Nat /\ n = y.seq + 1 /\ on \in BOOLEAN
  BY <1>2 DEF BkChat
<1> HIDE DEF n, on
<1>4. /\ x \in BkChat /\ x.seq = n /\ x.near = on /\ x.told = y.told /\ x.history = y.history
      /\ x.tombs = y.tombs /\ x.session = y.session
  BY <1>2, <1>3 DEF BkChat
<1> HIDE DEF x
<1>5. /\ dev' \in Devices /\ dev'.on = dev.on /\ HasChat(dev') = HasChat(dev) /\ dev'.chats[c] = x
      /\ \A d \in HasChat(dev) \ {c} : dev'.chats[d] = dev.chats[d]
  <2>1. /\ Put(dev, c, x) \in Devices /\ Put(dev, c, x).on = dev.on
        /\ HasChat(Put(dev, c, x)) = HasChat(dev) \cup {c} /\ Put(dev, c, x).chats[c] = x
        /\ \A d \in HasChat(dev) \ {c} : Put(dev, c, x).chats[d] = dev.chats[d]
    <3>1. dev \in Devices /\ x \in BkChat
      BY <1>1, <1>4
    <3>2. QED BY ONLY <3>1, c \in BackupContacts, ChatIsPut
  <2>2. QED BY <1>1, <2>1
<1>6. Everywhere = {dev} /\ Everywhere' = {dev'}
  BY <1>1 DEF Everywhere
<1>7. BackupTypes' /\ InHand'
  BY <1>1, <1>5 DEF BackupInv, BackupTypes, InHand
<1>8. view[c].seq \in Nat /\ view[c].seq <= y.seq
  BY <1>1 DEF BackupInv, BackupTypes, NewestFirst
<1>9. TombsKept'
  <2>1. \A d \in HasChat(dev') : Apart(dev'.chats[d])
    BY <1>2, <1>4, <1>5, ChatOf DEF Apart
  <2>2. \A d \in BackupContacts :
            unsent'[d] \subseteq (IF d \in HasChat(dev') THEN dev'.chats[d].tombs ELSE {})
    BY <1>1, <1>2, <1>4, <1>5 DEF BackupInv, TombsKept
  <2>3. QED BY <1>6, <2>1, <2>2 DEF TombsKept, HasChat
<1>10. NewestFirst'
  <2> SUFFICES ASSUME NEW d \in HasChat(dev) PROVE view[d].seq <= dev'.chats[d].seq
    BY <1>1, <1>5 DEF NewestFirst
  <2>1. CASE d = c
    BY <1>2, <1>3, <1>4, <1>5, <1>8, <2>1 DEF BkChat
  <2>2. CASE d # c
    BY <1>1, <1>5, <2>2, ChatOf DEF BackupInv, NewestFirst
  <2>3. QED BY <2>1, <2>2
<1>11. SettingsAgree'
  <2> SUFFICES ASSUME NEW d \in BackupContacts PROVE \E S \in Nat, N \in BOOLEAN : Agreed(d, S, N)'
    BY DEF SettingsAgree
  <2>1. PICK S \in Nat, N \in BOOLEAN : Agreed(d, S, N)
    BY DEF BackupInv, SettingsAgree
  <2>2. CASE d = c
    <3>1. x.told <= view[c].seq
      BY <1>1, <1>4, <1>6, <2>1, <2>2 DEF Agreed, HasChat
    <3>2. PICK T \in Nat, M \in BOOLEAN : T = n /\ M = on
      BY <1>3
    <3>3. SettingOf(x, T, M)
      BY <1>4, <3>2 DEF SettingOf
    <3>4. view[c].seq < T
      BY <1>2, <1>3, <1>8, <3>2 DEF BkChat
    <3>5. Agreed(c, T, M)'
      <4>1. view'[c].seq <= T + 1 /\ view'[c].seq # T /\ view'[c].seq # T + 1
        BY <1>1, <1>8, <3>4
      <4>2. \A k \in Everywhere' : c \in DOMAIN k.chats =>
                SettingOf(k.chats[c], T, M) /\ k.chats[c].told <= view'[c].seq
        BY <1>1, <1>5, <1>6, <3>1, <3>3
      <4>3. QED BY <4>1, <4>2 DEF Agreed
    <3>6. QED BY <2>2, <3>5
  <2>3. CASE d # c
    <3>1. Agreed(d, S, N)'
      BY <1>1, <1>5, <1>6, <2>1, <2>3 DEF Agreed, HasChat
    <3>2. QED BY <3>1
  <2>4. QED BY <2>2, <2>3
<1>12. BackupInv'
  BY <1>7, <1>9, <1>10, <1>11 DEF BackupInv
<1>13. Grown(dev, dev')
  BY <1>4, <1>5, <1>2, ChatOf DEF Grown, BkChat
<1>14. QED BY <1>1, <1>12, <1>13 DEF StepKept

LEMMA TellKeeps ==
    ASSUME BackupInv, NEW c \in BackupContacts, TellNearby(c)
    PROVE  StepKept
<1> DEFINE y == dev.chats[c]
           n == y.told + (y.seq - y.told)
           x == [y EXCEPT !.told = n]
<1>1. /\ dev.on /\ c \in HasChat(dev) /\ fetched = NoBlob /\ dev' = Put(dev, c, x) /\ dev \in Devices
      /\ UNCHANGED <<prepared, exports, serverSlot, fetched, unsent>>
  BY DEF TellNearby, Saves, BackupInv, BackupTypes, InHand
<1>2. y \in BkChat /\ Apart(y) /\ unsent[c] \subseteq y.tombs
  BY <1>1, ChatOf
<1>3. n = y.seq /\ y.seq \in Nat
  BY <1>2 DEF BkChat
<1> HIDE DEF n
<1>4. /\ x \in BkChat /\ x.seq = y.seq /\ x.near = y.near /\ x.told = y.seq /\ x.history = y.history
      /\ x.tombs = y.tombs /\ x.session = y.session
  BY <1>2, <1>3 DEF BkChat
<1> HIDE DEF x
<1>5. /\ dev' \in Devices /\ dev'.on = dev.on /\ HasChat(dev') = HasChat(dev) /\ dev'.chats[c] = x
      /\ \A d \in HasChat(dev) \ {c} : dev'.chats[d] = dev.chats[d]
  <2>1. /\ Put(dev, c, x) \in Devices /\ Put(dev, c, x).on = dev.on
        /\ HasChat(Put(dev, c, x)) = HasChat(dev) \cup {c} /\ Put(dev, c, x).chats[c] = x
        /\ \A d \in HasChat(dev) \ {c} : Put(dev, c, x).chats[d] = dev.chats[d]
    <3>1. dev \in Devices /\ x \in BkChat
      BY <1>1, <1>4
    <3>2. QED BY ONLY <3>1, c \in BackupContacts, ChatIsPut
  <2>2. QED BY <1>1, <2>1
<1>6. \A k \in Everywhere' : k = dev' \/ k \in Everywhere
  BY <1>1 DEF Everywhere
<1>7. /\ view \in [BackupContacts -> [on : BOOLEAN, seq : Nat]]
      /\ view' \in [BackupContacts -> [on : BOOLEAN, seq : Nat]]
      /\ \A d \in BackupContacts \ {c} : view'[d] = view[d]
      /\ y.seq > view[c].seq => view'[c].on = y.near /\ view'[c].seq = y.seq
      /\ ~(y.seq > view[c].seq) => view'[c] = view[c]
  <2>1. view \in [BackupContacts -> [on : BOOLEAN, seq : Nat]]
    BY DEF BackupInv, BackupTypes
  <2>2. [on |-> y.near, seq |-> y.seq] \in [on : BOOLEAN, seq : Nat]
    BY <1>2 DEF BkChat
  <2>3. view' = IF y.seq > view[c].seq THEN [view EXCEPT ![c] = [on |-> y.near, seq |-> y.seq]] ELSE view
    BY DEF TellNearby
  <2>4. CASE y.seq > view[c].seq
    BY <2>1, <2>2, <2>3, <2>4
  <2>5. CASE ~(y.seq > view[c].seq)
    BY <2>1, <2>3, <2>5
  <2>6. QED BY <2>1, <2>4, <2>5
<1>8. BackupTypes' /\ InHand'
  BY <1>1, <1>5, <1>7 DEF BackupInv, BackupTypes, InHand
<1>9. view[c].seq \in Nat /\ view'[c].seq \in Nat /\ view[c].seq <= view'[c].seq /\ y.seq <= view'[c].seq
  BY <1>3, <1>7
<1>10. TombsKept'
  <2>1. \A k \in Everywhere' : \A d \in DOMAIN k.chats : Apart(k.chats[d])
    <3>1. \A d \in HasChat(dev') : Apart(dev'.chats[d])
      BY <1>2, <1>4, <1>5, ChatOf DEF Apart
    <3>2. QED BY <1>6, <3>1 DEF BackupInv, TombsKept, HasChat
  <2>2. \A d \in BackupContacts :
            unsent'[d] \subseteq (IF d \in HasChat(dev') THEN dev'.chats[d].tombs ELSE {})
    BY <1>1, <1>2, <1>4, <1>5 DEF BackupInv, TombsKept
  <2>3. QED BY <2>1, <2>2 DEF TombsKept
<1>11. \A d \in HasChat(dev') : dev'.chats[d].seq = dev.chats[d].seq
  BY <1>4, <1>5
<1>12. NewestFirst'
  <2> SUFFICES ASSUME exports = {}, NEW d \in BackupContacts
               PROVE  /\ d \in HasChat(dev') => view'[d].seq <= dev'.chats[d].seq
                      /\ serverSlot # NoBlob /\ d \in DOMAIN serverSlot.chats =>
                            /\ view'[d].seq <= serverSlot.chats[d].seq
                            /\ d \in HasChat(dev') => dev'.chats[d].seq <= serverSlot.chats[d].seq
    BY <1>1 DEF NewestFirst
  <2>1. /\ d \in HasChat(dev) => view[d].seq <= dev.chats[d].seq
        /\ serverSlot # NoBlob /\ d \in DOMAIN serverSlot.chats =>
              /\ view[d].seq <= serverSlot.chats[d].seq
              /\ d \in HasChat(dev) => dev.chats[d].seq <= serverSlot.chats[d].seq
    BY DEF BackupInv, NewestFirst
  <2>2. CASE d = c
    <3>1. view'[c].seq = y.seq
      BY <1>1, <1>3, <1>7, <1>9, <2>1, <2>2
    <3>2. QED BY <1>1, <1>3, <1>5, <1>11, <2>1, <2>2, <3>1
  <2>3. CASE d # c
    BY <1>5, <1>7, <1>11, <2>1, <2>3
  <2>4. QED BY <2>2, <2>3
<1>13. SettingsAgree'
  <2> SUFFICES ASSUME NEW d \in BackupContacts PROVE \E S \in Nat, N \in BOOLEAN : Agreed(d, S, N)'
    BY DEF SettingsAgree
  <2>1. PICK S \in Nat, N \in BOOLEAN : Agreed(d, S, N)
    BY DEF BackupInv, SettingsAgree
  <2>2. CASE d = c
    <3>1. SettingOf(y, S, N)
      BY <1>1, <2>1, <2>2 DEF Agreed, Everywhere, HasChat
    <3>2. SettingOf(x, S, N)
      BY <1>4, <3>1 DEF SettingOf
    <3>3. \A k \in Everywhere' : c \in DOMAIN k.chats =>
              SettingOf(k.chats[c], S, N) /\ k.chats[c].told <= view'[c].seq
      <4> SUFFICES ASSUME NEW k \in Everywhere', c \in DOMAIN k.chats
                   PROVE  SettingOf(k.chats[c], S, N) /\ k.chats[c].told <= view'[c].seq
        OBVIOUS
      <4>1. CASE k = dev'
        BY <1>4, <1>5, <1>9, <3>2, <4>1
      <4>2. CASE k \in Everywhere
        <5>1. SettingOf(k.chats[c], S, N) /\ k.chats[c].told <= view[c].seq
          BY <2>1, <2>2, <4>2 DEF Agreed
        <5>2. k.chats[c].told \in Nat
          BY <4>2, BlobsAreChats, ChatMaps DEF BackupInv, BkChat
        <5>3. QED BY <1>9, <5>1, <5>2
      <4>3. QED BY <1>6, <4>1, <4>2
    <3>4. /\ view'[c].seq <= S + 1 /\ (view'[c].seq = S => view'[c].on = N)
          /\ view'[c].seq = S + 1 => N /\ ~view'[c].on
      <4>1. /\ view[c].seq <= S + 1 /\ (view[c].seq = S => view[c].on = N)
            /\ view[c].seq = S + 1 => N /\ ~view[c].on
        BY <2>1, <2>2 DEF Agreed
      <4>2. CASE y.seq > view[c].seq
        BY <1>3, <1>7, <3>1, <4>2 DEF SettingOf
      <4>3. CASE ~(y.seq > view[c].seq)
        BY <1>7, <4>1, <4>3
      <4>4. QED BY <4>2, <4>3
    <3>5. Agreed(c, S, N)'
      BY <3>3, <3>4 DEF Agreed
    <3>6. QED BY <2>2, <3>5
  <2>3. CASE d # c
    <3>1. \A k \in Everywhere' : d \in DOMAIN k.chats =>
              SettingOf(k.chats[d], S, N) /\ k.chats[d].told <= view'[d].seq
      <4> SUFFICES ASSUME NEW k \in Everywhere', d \in DOMAIN k.chats
                   PROVE  SettingOf(k.chats[d], S, N) /\ k.chats[d].told <= view'[d].seq
        OBVIOUS
      <4>1. CASE k = dev'
        <5>1. d \in HasChat(dev) /\ k.chats[d] = dev.chats[d]
          BY <1>5, <2>3, <4>1 DEF HasChat
        <5>2. QED BY <1>7, <2>1, <2>3, <5>1 DEF Agreed, Everywhere, HasChat
      <4>2. CASE k \in Everywhere
        BY <1>7, <2>1, <2>3, <4>2 DEF Agreed
      <4>3. QED BY <1>6, <4>1, <4>2
    <3>2. Agreed(d, S, N)'
      BY <1>7, <2>1, <2>3, <3>1 DEF Agreed
    <3>3. QED BY <3>2
  <2>4. QED BY <2>2, <2>3
<1>14. BackupInv'
  BY <1>8, <1>10, <1>12, <1>13 DEF BackupInv
<1>15. Grown(dev, dev')
  BY <1>2, <1>4, <1>5, ChatOf DEF Grown, BkChat
<1>16. QED BY <1>1, <1>14, <1>15 DEF StepKept

LEMMA BackupStarts == BackupInit => BackupInv
<1> SUFFICES ASSUME BackupInit PROVE BackupInv
  OBVIOUS
<1> USE BackupAssumption DEF BackupInit
<1> DEFINE g == [c \in {} |-> NewChat]
<1>1. g \in BkChats /\ DOMAIN g = {}
  BY EmptyPhone
<1>2. dev = [on |-> TRUE, chats |-> g, files |-> {}]
  OBVIOUS
<1> HIDE DEF g
<1>3. dev \in Devices /\ dev.on /\ dev.chats = g /\ HasChat(dev) = {}
  BY <1>1, <1>2 DEF Devices, HasChat
<1>4. Everywhere = {dev}
  BY DEF Everywhere
<1>5. BackupTypes /\ InHand
  BY <1>3 DEF BackupTypes, InHand
<1>6. TombsKept /\ NewestFirst
  BY <1>1, <1>3, <1>4 DEF TombsKept, NewestFirst
<1>7. ASSUME NEW c \in BackupContacts PROVE Agreed(c, 0, FALSE)
  <2>1. view[c].on = FALSE /\ view[c].seq = 0
    OBVIOUS
  <2>2. \A k \in Everywhere : c \notin DOMAIN k.chats
    BY <1>1, <1>3, <1>4
  <2> HIDE DEF BackupInit
  <2>3. view[c].seq <= 0 + 1 /\ ~(view[c].seq = 0 + 1)
    BY <2>1
  <2>4. QED BY <2>1, <2>2, <2>3, Zenon DEF Agreed
<1>8. SettingsAgree
  BY <1>7 DEF SettingsAgree
<1>9. QED BY <1>5, <1>6, <1>8 DEF BackupInv

LEMMA BackupStutters == BackupInv /\ UNCHANGED backupVars => StepKept
<1> SUFFICES ASSUME BackupInv, UNCHANGED backupVars PROVE StepKept
  OBVIOUS
<1>1. UNCHANGED <<dev, prepared, exports, serverSlot, fetched, view, unsent>>
  BY DEF backupVars
<1>2. BackupTypes' /\ InHand'
  BY <1>1 DEF BackupInv, BackupTypes, InHand, HasChat
<1>3. NewestFirst'
  BY <1>1 DEF BackupInv, NewestFirst, HasChat
<1>4. \A k \in Everywhere' : k \in Everywhere
  BY <1>1 DEF Everywhere
<1>5. \A c \in BackupContacts : unsent'[c] \subseteq (IF c \in HasChat(dev') THEN dev'.chats[c].tombs ELSE {})
  BY <1>1 DEF BackupInv, TombsKept, HasChat
<1>6. BackupInv'
  BY <1>1, <1>2, <1>3, <1>4, <1>5, FewerKeep
<1>7. Grown(dev, dev')
  BY <1>1, ChatOf DEF Grown, BkChat
<1>8. QED BY <1>1, <1>6, <1>7 DEF StepKept

LEMMA BackupSteps ==
    ASSUME PlainFaults, BackupInv, [BackupNext]_backupVars
    PROVE  StepKept
<1>1. ASSUME NEW c \in BackupContacts, NEW m \in Msgs, Exchange(c, m) \/ Unsend(c, m) \/ Vanish(c, m)
      PROVE  StepKept
  BY <1>1, ExchangeKeeps, UnsendKeeps, VanishKeeps
<1>2. ASSUME NEW c \in BackupContacts, AddContact(c) \/ DeleteChat(c) \/ SwitchNearby(c) \/ TellNearby(c)
      PROVE  StepKept
  BY <1>2, AddKeeps, DeleteChatKeeps, SwitchKeeps, TellKeeps
<1>3. ASSUME NEW c \in BackupContacts, NEW full \in BOOLEAN, CreateChatBackup(c, full)
      PROVE  StepKept
  BY <1>3, ExportsKeep
<1>4. ASSUME NEW b \in exports, MergeBackup(b)
      PROVE  StepKept
  BY <1>4, MergeKeeps
<1>5. ASSUME NEW full \in BOOLEAN, CreateBackup(full) \/ CreateServerBackup(full)
      PROVE  StepKept
  BY <1>5, ExportsKeep
<1>6. CASE SaveBackup \/ LosePhone
  BY <1>6, SaveKeeps, LossKeeps
<1>7. CASE (\E b \in exports : RestoreFile(b)) \/ RestoreFetched
  BY <1>7, RestoreKeeps
<1>8. CASE TakeServerBackup \/ RestoreFails
  BY <1>8, CopyKeeps
<1>9. CASE UNCHANGED backupVars
  BY <1>9, BackupStutters
<1>10. QED BY <1>1, <1>2, <1>3, <1>4, <1>5, <1>6, <1>7, <1>8, <1>9 DEF BackupNext

\* What the invariant gives the run's properties.
LEMMA BackupMeans == BackupInv => BackupTypeOK /\ UnsentStaysUnsent /\ NearbyOffIsHeard
<1> SUFFICES ASSUME BackupInv PROVE BackupTypeOK /\ UnsentStaysUnsent /\ NearbyOffIsHeard
  OBVIOUS
<1>1. BackupTypeOK
  BY ChatOf DEF BackupTypeOK, BackupInv, BackupTypes, Devices, BkChat
<1>2. UnsentStaysUnsent
  BY ChatOf DEF UnsentStaysUnsent, Apart
<1>3. NearbyOffIsHeard
  <2> SUFFICES ASSUME NEW c \in HasChat(dev), dev.chats[c].told = dev.chats[c].seq, ~dev.chats[c].near
               PROVE  ~view[c].on
    BY DEF NearbyOffIsHeard
  <2>1. c \in BackupContacts /\ dev.chats[c] \in BkChat /\ view[c].seq \in Nat
    BY ChatOf DEF BackupInv, BackupTypes
  <2>2. PICK S \in Nat, N \in BOOLEAN : Agreed(c, S, N)
    BY <2>1 DEF BackupInv, SettingsAgree
  <2>3. SettingOf(dev.chats[c], S, N) /\ dev.chats[c].told <= view[c].seq
    BY <2>2 DEF Agreed, Everywhere, HasChat
  <2>4. /\ view[c].seq <= S + 1 /\ (view[c].seq = S => view[c].on = N)
        /\ view[c].seq = S + 1 => N /\ ~view[c].on
    BY <2>2 DEF Agreed
  <2>5. QED BY <2>1, <2>3, <2>4 DEF SettingOf, BkChat
<1>4. QED BY <1>1, <1>2, <1>3

\* Whatever is exported, lost, restored and merged: a backup takes nothing from a device,
\* brings back nothing that was unsent, leaves no contact thinking nearby is on, and the
\* relay's only copy is restored or put back (backup.rs, restore_from_server).
THEOREM BackupsAreKept == PlainFaults => (BackupSpec => BackupHolds)
<1> SUFFICES ASSUME PlainFaults PROVE BackupSpec => BackupHolds
  OBVIOUS
<1>1. BackupInit => BackupInv
  BY BackupStarts
<1>2. BackupInv /\ [BackupNext]_backupVars => StepKept
  BY BackupSteps
<1>3. BackupInv /\ StepKept => /\ BackupInv'
                               /\ [dev.on /\ dev'.on => Grown(dev, dev')]_backupVars
  BY DEF StepKept
<1>4. StepKept => [fetched # NoBlob /\ fetched' = NoBlob => serverSlot' = fetched \/ dev'.on]_backupVars
  BY DEF StepKept
<1>5. StepKept => [dev.on /\ dev'.on =>
                      \A c \in HasChat(dev) \cap HasChat(dev') :
                         /\ dev'.chats[c].session >= dev.chats[c].session
                         /\ dev.chats[c].tombs \subseteq dev'.chats[c].tombs]_backupVars
  BY DEF StepKept, Grown
<1>6. BackupInv => BackupTypeOK /\ UnsentStaysUnsent /\ NearbyOffIsHeard
  BY BackupMeans
<1>7. QED BY <1>1, <1>2, <1>3, <1>4, <1>5, <1>6, PTL DEF BackupSpec, BackupHolds, MergeOnlyAdds, ServerCopyKept

-----------------------------------------------------------------------------
(* Attachments.                                                            *)

Messages == [t : Transfers, mine : BOOLEAN, kind : Kinds \cup {"video"}, file : BOOLEAN, thumb : BOOLEAN]
Ciphers == {"pre", "media"} \X Transfers
Sealed == {"payload", "preview"} \X Transfers
Boxes == [up : BOOLEAN, history : SUBSET Messages, files : SUBSET Sealed, scratch : SUBSET Transfers,
          spent : SUBSET Ciphers, left : Nat]
States == [history : SUBSET Messages, spent : SUBSET Ciphers, gone : SUBSET Transfers]
MedTypes ==
    /\ box \in [Ends2 -> Boxes] /\ saved \in [Ends2 -> States]
    /\ sent \subseteq Transfers /\ removed \in [Ends2 -> SUBSET Transfers] /\ kills \in Nat
    /\ \A f \in flying : f.t \in sent /\ f.kind \in Kinds \cup {"incoming"}
    /\ \A f \in flying : f.kind = "incoming" => f.thumb \in BOOLEAN

\* Histories with one message per transfer, of transfers that were sent.
OneEach(h) == \A m, n \in h : m.t = n.t => m = n

\* What was opened to get a message and what a deletion leaves, on a device or in its file.
Opened(h, keys, gone) ==
    /\ \A m \in h : /\ ~m.mine /\ m.t \in sent
                    /\ m.file => <<"media", m.t>> \in keys /\ m.t \notin gone
                    /\ ~m.file => <<"pre", m.t>> \in keys
    /\ \A t \in gone : <<"media", t>> \in keys
    /\ \A t \in Transfers : <<"media", t>> \in keys => t \in sent
    /\ \A f \in flying : f.kind = "incoming" => <<"media", f.t>> \notin keys

\* The sender's own history and file.
Own(h, gone) == gone \subseteq sent /\ \A m \in h : m.mine /\ m.file /\ m.t \in sent /\ m.t \notin gone

MedInv ==
    /\ MedTypes
    /\ \A d \in Ends2 : OneEach(box[d].history) /\ OneEach(saved[d].history)
    /\ Own(box["a"].history, removed["a"]) /\ Own(saved["a"].history, saved["a"].gone)
    /\ Opened(box["b"].history, box["b"].spent, removed["b"])
    /\ Opened(saved["b"].history, saved["b"].spent, saved["b"].gone)
    /\ kills = 0 => \A d \in Ends2 : box[d].up
    /\ NothingStranded /\ PlainCopiesFollow

\* The sealed files that histories name.
LEMMA RefsAre ==
    ASSUME NEW h
    PROVE  /\ \A t : Payload(t) \in Refs(h) <=> \E m \in h : m.t = t /\ m.file
           /\ \A t : Preview(t) \in Refs(h) <=> \E m \in h : m.t = t /\ m.thumb
           /\ \A r \in Refs(h) : \E m \in h : r = Payload(m.t) \/ r = Preview(m.t)
BY DEF Refs, Payload, Preview

LEMMA RefsOfMessages ==
    ASSUME NEW h \in SUBSET Messages
    PROVE  Refs(h) \in SUBSET Sealed
<1> SUFFICES ASSUME NEW r \in Refs(h) PROVE r \in Sealed
  OBVIOUS
<1>1. PICK m \in h : r = Payload(m.t) \/ r = Preview(m.t)
  BY RefsAre
<1>2. m.t \in Transfers
  BY DEF Messages
<1>3. QED BY <1>1, <1>2 DEF Payload, Preview, Sealed

LEMMA RefsOfUnion ==
    ASSUME NEW h, NEW g
    PROVE  Refs(h \cup g) = Refs(h) \cup Refs(g)
BY DEF Refs

\* A message takes the files of no other with it.
LEMMA RefsRemoved ==
    ASSUME NEW h, OneEach(h), NEW m \in h
    PROVE  Refs(h \ {m}) = Refs(h) \ Refs({m})
<1>1. \A n \in h \ {m} : n.t # m.t
  BY DEF OneEach
<1>2. \A r \in Refs(h \ {m}) : r \in Refs(h) /\ r \notin Refs({m})
  BY <1>1 DEF Refs, Payload, Preview
<1>3. \A r \in Refs(h) \ Refs({m}) : r \in Refs(h \ {m})
  BY DEF Refs
<1>4. QED BY <1>2, <1>3

\* What was opened stays opened while nothing new is under way.
LEMMA OpenedStays ==
    ASSUME NEW h, NEW keys, NEW gone, Opened(h, keys, gone),
           sent \subseteq sent',
           \A f \in flying' : f.kind = "incoming" => f \in flying \/ <<"media", f.t>> \notin keys
    PROVE  Opened(h, keys, gone)'
BY DEF Opened

\* A step of one device that puts nothing under way and saves nothing.
LEMMA DeviceKeeps ==
    ASSUME MedInv, NEW d \in Ends2, NEW B \in Boxes, NEW R \in SUBSET Transfers,
           box' = [box EXCEPT ![d] = B], removed' = [removed EXCEPT ![d] = R],
           UNCHANGED <<saved, sent, kills>>, flying' \subseteq flying,
           box[d].up => B.up, OneEach(B.history),
           d = "a" => Own(B.history, R),
           d = "b" => Opened(B.history, B.spent, R) /\ (B.left > 0 => box["b"].left > 0),
           kills = 0 /\ box["b"].left > 0 /\ (d = "b" => B.left > 0) => B.files = Refs(B.history),
           B.up => \A t \in B.scratch : Payload(t) \in B.files
    PROVE  MedInv'
<1>1. MedTypes
  BY DEF MedInv
<1>2. box'[d] = B /\ removed'[d] = R /\ \A e \in Ends2 \ {d} : box'[e] = box[e] /\ removed'[e] = removed[e]
  BY <1>1 DEF MedTypes
<1>3. MedTypes'
  BY <1>1 DEF MedTypes
<1>4. \A e \in Ends2 : OneEach(box'[e].history) /\ OneEach(saved'[e].history)
  BY <1>2 DEF MedInv
<1>5. Own(box'["a"].history, removed'["a"]) /\ Own(saved'["a"].history, saved'["a"].gone)
  BY <1>2 DEF MedInv, Ends2
<1>6. Opened(saved["b"].history, saved["b"].spent, saved["b"].gone)'
  BY DEF MedInv, Opened
<1>7. Opened(box["b"].history, box["b"].spent, removed["b"])'
  <2>1. CASE d = "b"
    BY <1>2, <2>1 DEF Opened
  <2>2. CASE d # "b"
    BY <1>2, <2>2 DEF Opened, MedInv, Ends2
  <2>3. QED BY <2>1, <2>2
<1>8. kills' = 0 => \A e \in Ends2 : box'[e].up
  BY <1>2 DEF MedInv
<1>9. NothingStranded'
  <2> SUFFICES ASSUME kills = 0, box'["b"].left > 0, NEW e \in Ends2
               PROVE  box'[e].files = Refs(box'[e].history)
    BY DEF NothingStranded
  <2>1. box["b"].left > 0
    BY <1>2 DEF Ends2
  <2>2. QED BY <1>2, <2>1 DEF MedInv, NothingStranded
<1>10. PlainCopiesFollow'
  BY <1>2 DEF MedInv, PlainCopiesFollow
<1>11. QED
  BY <1>3, <1>4, <1>5, <1>6, <1>7, <1>8, <1>9, <1>10 DEF MedInv, Own

\* What the invariant says of the receiver.
LEMMA ReceiverIs ==
    ASSUME MedInv
    PROVE  /\ box["a"] \in Boxes /\ box["b"] \in Boxes /\ removed["b"] \in SUBSET Transfers
           /\ OneEach(box["b"].history) /\ Opened(box["b"].history, box["b"].spent, removed["b"])
           /\ box["b"].up => \A t \in box["b"].scratch : Payload(t) \in box["b"].files
           /\ kills = 0 /\ box["b"].left > 0 => box["b"].files = Refs(box["b"].history)
BY DEF MedInv, MedTypes, Ends2, NothingStranded, PlainCopiesFollow

LEMMA NothingNewKeeps ==
    ASSUME MedInv, flying' \subseteq flying, UNCHANGED <<box, saved, sent, removed, kills>>
    PROVE  MedInv'
<1>1. /\ box' = [box EXCEPT !["b"] = box["b"]] /\ removed' = [removed EXCEPT !["b"] = removed["b"]]
      /\ "b" \in Ends2
  BY DEF MedInv, MedTypes, Ends2
<1>2. PICK B \in Boxes, R \in SUBSET Transfers : B = box["b"] /\ R = removed["b"]
  BY ReceiverIs
<1>3. QED BY <1>1, <1>2, ReceiverIs, DeviceKeeps

LEMMA IncomingKeeps ==
    ASSUME MedInv, NEW f \in flying, RecvIncoming(f)
    PROVE  MedInv'
<1> DEFINE b == box["b"]
           m == MediaMsg(f.t, FALSE, "video", FALSE, f.thumb)
           S == b.spent \cup {Cipher(f)}
           H == b.history \cup {m}
           F == b.files \cup Refs({m})
<1>1. /\ b.up /\ f.kind = "incoming" /\ <<"pre", f.t>> \notin b.spent /\ Cipher(f) = <<"pre", f.t>>
      /\ flying' = flying \ {f} /\ UNCHANGED <<saved, sent, removed, kills>>
      /\ f.t \in Transfers /\ f.t \in sent /\ f.thumb \in BOOLEAN
  BY DEF RecvIncoming, Opens, Consume, Cipher, MedInv, MedTypes
<1>2. /\ b \in Boxes /\ OneEach(b.history) /\ Opened(b.history, b.spent, removed["b"])
      /\ removed["b"] \in SUBSET Transfers
  BY ReceiverIs
<1>3. /\ m \in Messages /\ ~m.mine /\ ~m.file /\ m.t = f.t
  BY <1>1 DEF Messages, MediaMsg
<1>4. \A n \in b.history : n.t # f.t
  BY <1>1, <1>2 DEF Opened
<1>5. S \in SUBSET Ciphers /\ H \in SUBSET Messages /\ F \in SUBSET Sealed
  <2>1. S \in SUBSET Ciphers
    BY <1>1, <1>2 DEF Ciphers, Boxes
  <2>2. Refs({m}) \in SUBSET Sealed
    BY <1>3, RefsOfMessages
  <2>3. QED BY <1>2, <1>3, <2>1, <2>2 DEF Boxes
<1>6. OneEach(H) /\ OneEach(b.history)
  BY <1>2, <1>3, <1>4 DEF OneEach
<1>7. Opened(H, S, removed["b"]) /\ Opened(b.history, S, removed["b"])
  <2>1. \A t : <<"media", t>> \in S <=> <<"media", t>> \in b.spent
    BY <1>1
  <2>2. b.spent \subseteq S /\ <<"pre", f.t>> \in S
    BY <1>1
  <2> HIDE DEF S
  <2>3. Opened(b.history, S, removed["b"])
    BY <1>2, <2>1, <2>2 DEF Opened
  <2> HIDE DEF m
  <2>4. Opened(H, S, removed["b"])
    BY <1>1, <1>3, <2>2, <2>3 DEF Opened
  <2>5. QED BY <2>3, <2>4
<1>8. Refs(H) = Refs(b.history) \cup Refs({m})
  BY RefsOfUnion
<1>9. "b" \in Ends2 /\ removed' = [removed EXCEPT !["b"] = removed["b"]] /\ b.left \in Nat
  BY <1>1, <1>2 DEF MedInv, MedTypes, Ends2, Boxes
<1>10. CASE Admitted("b")
  <2> DEFINE l == b.left - 1
  <2>1. l \in Nat /\ b.left > 0
    BY <1>2, <1>10 DEF Admitted, Boxes
  <2>2. box' = [box EXCEPT !["b"] = [b EXCEPT !.spent = S, !.left = l, !.history = H, !.files = F]]
    BY <1>10, <1>9 DEF RecvIncoming, MedInv, MedTypes
  <2> HIDE DEF l, S, H, F, b, m
  <2>3. PICK B \in Boxes : B = [b EXCEPT !.spent = S, !.left = l, !.history = H, !.files = F]
    BY <1>2, <1>5, <2>1 DEF Boxes
  <2>4. /\ B.up = b.up /\ B.spent = S /\ B.left = l /\ B.history = H /\ B.files = F
        /\ B.scratch = b.scratch
    BY <1>2, <2>3 DEF Boxes
  <2>5. B.up => \A t \in B.scratch : Payload(t) \in B.files
    BY <2>4, ReceiverIs DEF b, F
  <2>6. kills = 0 /\ b.left > 0 => B.files = Refs(B.history)
    BY <1>8, <2>4, ReceiverIs DEF b, F
  <2>7. box' = [box EXCEPT !["b"] = B] /\ flying' \subseteq flying
    BY <1>1, <2>2, <2>3
  <2>8. Opened(B.history, B.spent, removed["b"]) /\ OneEach(B.history) /\ box["b"].left > 0 /\ (box["b"].up => B.up)
    BY <1>6, <1>7, <2>1, <2>4 DEF b
  <2>9. QED BY <1>1, <1>2, <1>9, <2>5, <2>6, <2>7, <2>8, DeviceKeeps DEF b
<1>11. CASE ~Admitted("b")
  <2>1. box' = [box EXCEPT !["b"] = [b EXCEPT !.spent = S, !.left = 0, !.history = b.history, !.files = b.files]]
    BY <1>11, <1>9 DEF RecvIncoming, MedInv, MedTypes
  <2> HIDE DEF S, H, F, b, m
  <2>2. PICK B \in Boxes : B = [b EXCEPT !.spent = S, !.left = 0, !.history = b.history, !.files = b.files]
    BY <1>2, <1>5 DEF Boxes
  <2>3. /\ B.up = b.up /\ B.spent = S /\ B.left = 0 /\ B.history = b.history /\ B.files = b.files
        /\ B.scratch = b.scratch
    BY <1>2, <2>2 DEF Boxes
  <2>4. B.up => \A t \in B.scratch : Payload(t) \in B.files
    BY <2>3, ReceiverIs DEF b
  <2>5. box' = [box EXCEPT !["b"] = B] /\ flying' \subseteq flying
    BY <1>1, <2>1, <2>2
  <2>6. Opened(B.history, B.spent, removed["b"]) /\ OneEach(B.history) /\ (box["b"].up => B.up) /\ ~(B.left > 0)
    BY <1>6, <1>7, <2>3 DEF b
  <2>7. QED BY <1>1, <1>2, <1>9, <2>4, <2>5, <2>6, DeviceKeeps DEF b
<1>12. QED BY <1>10, <1>11

\* A payload is opened once no pre-signal of its transfer is under way.
LEMMA PayloadOpens ==
    ASSUME MedInv, NEW f \in flying, RecvMedia(f), \A g \in flying : g.t = f.t => g.kind # "incoming",
           NEW h, h \subseteq box["b"].history
    PROVE  LET S == box["b"].spent \cup {<<"media", f.t>>} IN
           /\ S \in SUBSET Ciphers /\ Opened(h, S, removed["b"])
           /\ <<"media", f.t>> \notin box["b"].spent /\ Cipher(f) = <<"media", f.t>>
           /\ f.t \in Transfers /\ f.t \in sent /\ f.kind \in Kinds
<1> DEFINE S == box["b"].spent \cup {<<"media", f.t>>}
<1>1. /\ f.kind # "incoming" /\ Cipher(f) = <<"media", f.t>> /\ Cipher(f) \notin box["b"].spent
      /\ f.t \in Transfers /\ f.t \in sent /\ f.kind \in Kinds
  BY DEF RecvMedia, Opens, Cipher, MedInv, MedTypes
<1>2. S \in SUBSET Ciphers
  BY <1>1, ReceiverIs DEF Boxes, Ciphers
<1>3. \A g \in flying : g.kind = "incoming" => <<"media", g.t>> \notin S
  BY <1>1, ReceiverIs DEF Opened
<1>4. box["b"].spent \subseteq S /\ \A t \in Transfers : <<"media", t>> \in S => t \in sent
  BY <1>1, ReceiverIs DEF Opened
<1> HIDE DEF S
<1>5. Opened(h, S, removed["b"])
  BY <1>3, <1>4, ReceiverIs DEF Opened
<1>6. QED BY <1>1, <1>2, <1>5 DEF S

LEMMA PayloadKeeps ==
    ASSUME MedInv, NEW f \in flying, RecvMedia(f), \A g \in flying : g.t = f.t => g.kind # "incoming"
    PROVE  MedInv'
<1> DEFINE b == box["b"]
           S == b.spent \cup {<<"media", f.t>>}
           open == {m \in b.history : Waits(m, f.t)}
           H == {m \in b.history : ~Waits(m, f.t)}
           new == MediaMsg(f.t, FALSE, f.kind, TRUE, FALSE)
           done == IF open = {} THEN {new} ELSE {[m EXCEPT !.file = TRUE] : m \in open}
           G == (b.history \ open) \cup done
           F == b.files \cup {Payload(f.t)}
<1>1. /\ S \in SUBSET Ciphers /\ Opened(b.history, S, removed["b"]) /\ Opened(H, S, removed["b"])
      /\ f.t \in Transfers /\ f.t \in sent /\ f.kind \in Kinds /\ Cipher(f) = <<"media", f.t>>
      /\ <<"media", f.t>> \notin b.spent
  BY PayloadOpens
<1>2. /\ b \in Boxes /\ OneEach(b.history) /\ Opened(b.history, b.spent, removed["b"])
      /\ removed["b"] \in SUBSET Transfers /\ b.left \in Nat
  BY ReceiverIs DEF Boxes
<1>3. /\ flying' \subseteq flying /\ UNCHANGED <<saved, sent, removed, kills>> /\ "b" \in Ends2
      /\ removed' = [removed EXCEPT !["b"] = removed["b"]] /\ box["b"].up = b.up
  BY DEF RecvMedia, Consume, MedInv, MedTypes, Ends2
<1>4. CASE \E m \in b.history : m.t = f.t /\ ~m.mine /\ m.file
  <2>1. box' = [box EXCEPT !["b"] = [b EXCEPT !.spent = S]]
    BY <1>1, <1>4 DEF RecvMedia
  <2> HIDE DEF S, b
  <2>2. PICK B \in Boxes : B = [b EXCEPT !.spent = S]
    BY <1>1, <1>2 DEF Boxes
  <2>3. /\ B.up = b.up /\ B.spent = S /\ B.left = b.left /\ B.history = b.history /\ B.files = b.files
        /\ B.scratch = b.scratch
    BY <1>2, <2>2 DEF Boxes
  <2>4. B.up => \A t \in B.scratch : Payload(t) \in B.files
    BY <2>3, ReceiverIs DEF b
  <2>5. kills = 0 /\ B.left > 0 => B.files = Refs(B.history)
    BY <2>3, ReceiverIs DEF b
  <2>6. /\ Opened(B.history, B.spent, removed["b"]) /\ OneEach(B.history) /\ (box["b"].up => B.up)
        /\ B.left = box["b"].left
    BY <1>1, <1>2, <2>3 DEF b
  <2>7. box' = [box EXCEPT !["b"] = B]
    BY <2>1, <2>2
  <2>8. QED BY <1>2, <1>3, <2>4, <2>5, <2>6, <2>7, DeviceKeeps
<1>5. CASE ~(\E m \in b.history : m.t = f.t /\ ~m.mine /\ m.file) /\ ~Admitted("b")
  <2>1. box' = [box EXCEPT !["b"] = [b EXCEPT !.spent = S, !.history = H]]
    BY <1>1, <1>5 DEF RecvMedia, RefusePayload
  <2>2. b.left = 0 /\ H \in SUBSET Messages /\ OneEach(H)
    BY <1>2, <1>5 DEF Admitted, Boxes, OneEach
  <2> HIDE DEF S, b, H
  <2>3. PICK B \in Boxes : B = [b EXCEPT !.spent = S, !.history = H]
    BY <1>1, <1>2, <2>2 DEF Boxes
  <2>4. /\ B.up = b.up /\ B.spent = S /\ B.left = 0 /\ B.history = H /\ B.files = b.files
        /\ B.scratch = b.scratch
    BY <1>2, <2>2, <2>3 DEF Boxes
  <2>5. B.up => \A t \in B.scratch : Payload(t) \in B.files
    BY <2>4, ReceiverIs DEF b
  <2>6. /\ Opened(B.history, B.spent, removed["b"]) /\ OneEach(B.history) /\ (box["b"].up => B.up)
        /\ ~(B.left > 0)
    BY <1>1, <1>2, <2>2, <2>4 DEF b
  <2>7. box' = [box EXCEPT !["b"] = B]
    BY <2>1, <2>3
  <2>8. QED BY <1>2, <1>3, <2>5, <2>6, <2>7, DeviceKeeps
<1>6. CASE ~(\E m \in b.history : m.t = f.t /\ ~m.mine /\ m.file) /\ Admitted("b")
  <2> DEFINE l == b.left - 1
  <2>1. box' = [box EXCEPT !["b"] = [b EXCEPT !.spent = S, !.left = l, !.history = G, !.files = F]]
    BY <1>1, <1>6 DEF RecvMedia, KeepPayload
  <2>2. l \in Nat /\ b.left > 0
    BY <1>2, <1>6 DEF Admitted
  <2>3. \A m \in b.history : m \in Messages /\ ~m.mine /\ m.t \in sent
    BY <1>2 DEF Boxes, Opened
  <2>4. \A m \in b.history : m.t = f.t => m \in open
    BY <1>6, <2>3 DEF Waits
  <2>5. \A m \in b.history \ open : m.t # f.t
    BY <2>4
  <2>6. PICK n \in Messages : /\ done = {n} /\ n.t = f.t /\ ~n.mine /\ n.file
                              /\ Refs({n}) = Refs(open) \cup {Payload(f.t)}
    <3>1. CASE open = {}
      <4>1. new \in Messages /\ new.t = f.t /\ ~new.mine /\ new.file /\ ~new.thumb
        BY <1>1 DEF MediaMsg, Messages
      <4>2. Refs({new}) = {Payload(f.t)}
        BY <4>1 DEF Refs
      <4>3. Refs(open) = {}
        BY <3>1 DEF Refs
      <4>4. QED BY <3>1, <4>1, <4>2, <4>3
    <3>2. CASE open # {}
      <4>1. PICK m \in open : TRUE
        BY <3>2
      <4>2. m \in Messages /\ m.t = f.t /\ ~m.mine /\ ~m.file
        BY <2>3, <4>1 DEF Waits
      <4>3. open = {m}
        BY <1>2, <4>1 DEF OneEach, Waits
      <4>4. done = {[m EXCEPT !.file = TRUE]}
        BY <3>2, <4>3
      <4>5. /\ [m EXCEPT !.file = TRUE] \in Messages /\ [m EXCEPT !.file = TRUE].t = f.t
            /\ ~[m EXCEPT !.file = TRUE].mine /\ [m EXCEPT !.file = TRUE].file
            /\ [m EXCEPT !.file = TRUE].thumb = m.thumb
        BY <4>2 DEF Messages
      <4> DEFINE k == [m EXCEPT !.file = TRUE]
      <4> HIDE DEF k, open, done
      <4>6. Refs({k}) = Refs({m}) \cup {Payload(f.t)}
        BY <4>2, <4>5 DEF Refs, k
      <4>7. QED BY <4>3, <4>4, <4>5, <4>6 DEF k
    <3>3. QED BY <3>1, <3>2
  <2>7. G \in SUBSET Messages /\ F \in SUBSET Sealed
    <3>1. Payload(f.t) \in Sealed
      BY <1>1 DEF Payload, Sealed
    <3>2. b.files \in SUBSET Sealed
      BY <1>2 DEF Boxes
    <3>3. G \in SUBSET Messages
      <4> HIDE DEF done
      <4>1. QED BY <2>3, <2>6
    <3>4. QED BY <3>1, <3>2, <3>3
  <2>8. OneEach(G)
    BY <1>2, <2>5, <2>6 DEF OneEach
  <2>9. Opened(G, S, removed["b"])
    <3>1. f.t \notin removed["b"] /\ <<"media", f.t>> \in S
      BY <1>1, <1>2 DEF Opened
    <3> HIDE DEF S, done, open
    <3>2. QED BY <1>1, <2>6, <3>1 DEF Opened
  <2>10. Refs(G) = Refs(b.history) \cup {Payload(f.t)}
    <3>1. b.history = (b.history \ open) \cup open
      OBVIOUS
    <3>2. Refs(b.history) = Refs(b.history \ open) \cup Refs(open)
      BY <3>1, RefsOfUnion
    <3>3. Refs(G) = Refs(b.history \ open) \cup Refs(done)
      BY RefsOfUnion
    <3>4. QED BY <2>6, <3>2, <3>3
  <2> HIDE DEF l, S, G, F, b
  <2>11. PICK B \in Boxes : B = [b EXCEPT !.spent = S, !.left = l, !.history = G, !.files = F]
    BY <1>1, <1>2, <2>2, <2>7 DEF Boxes
  <2>12. /\ B.up = b.up /\ B.spent = S /\ B.left = l /\ B.history = G /\ B.files = F
         /\ B.scratch = b.scratch
    BY <1>2, <2>11 DEF Boxes
  <2>13. B.up => \A t \in B.scratch : Payload(t) \in B.files
    BY <2>12, ReceiverIs DEF b, F
  <2>14. kills = 0 /\ b.left > 0 => B.files = Refs(B.history)
    BY <2>10, <2>12, ReceiverIs DEF b, F
  <2>15. /\ Opened(B.history, B.spent, removed["b"]) /\ OneEach(B.history) /\ (box["b"].up => B.up)
         /\ box["b"].left > 0
    BY <2>2, <2>8, <2>9, <2>12 DEF b
  <2>16. box' = [box EXCEPT !["b"] = B]
    BY <2>1, <2>11
  <2>17. QED BY <1>2, <1>3, <2>13, <2>14, <2>15, <2>16, DeviceKeeps DEF b
<1>7. QED BY <1>4, <1>5, <1>6

\* Opening, clearing and removing on either device.
LEMMA DeviceIs ==
    ASSUME MedInv, NEW d \in Ends2
    PROVE  /\ box[d] \in Boxes /\ removed[d] \in SUBSET Transfers /\ OneEach(box[d].history)
           /\ d = "a" => Own(box[d].history, removed[d])
           /\ d = "b" => Opened(box[d].history, box[d].spent, removed[d])
           /\ box[d].up => \A t \in box[d].scratch : Payload(t) \in box[d].files
           /\ kills = 0 /\ box["b"].left > 0 => box[d].files = Refs(box[d].history)
           /\ removed = [removed EXCEPT ![d] = removed[d]]
BY DEF MedInv, MedTypes, NothingStranded, PlainCopiesFollow

LEMMA PlainCopiesKeep ==
    ASSUME MedInv, NEW d \in Ends2, (\E t \in Transfers : OpenMedia(d, t)) \/ ClearOpenCache(d)
    PROVE  MedInv'
<1> DEFINE b == box[d]
<1>1. /\ UNCHANGED <<saved, flying, sent, removed, kills>> /\ b.up
  BY DEF OpenMedia, ClearOpenCache
<1>2. b \in Boxes
  BY DeviceIs
<1>3. PICK s \in SUBSET Transfers : box' = [box EXCEPT ![d] = [b EXCEPT !.scratch = s]]
                                    /\ \A t \in s : Payload(t) \in b.files
  <2>1. CASE ClearOpenCache(d)
    <3>1. box' = [box EXCEPT ![d] = [b EXCEPT !.scratch = {}]]
      BY <2>1 DEF ClearOpenCache
    <3>2. {} \in SUBSET Transfers /\ \A t \in {} : Payload(t) \in b.files
      OBVIOUS
    <3>3. QED BY <3>1, <3>2
  <2>2. CASE \E t \in Transfers : OpenMedia(d, t)
    <3>1. PICK t \in Transfers : OpenMedia(d, t)
      BY <2>2
    <3>2. b.scratch \cup {t} \in SUBSET Transfers
      BY <1>2 DEF Boxes
    <3>3. \A u \in b.scratch \cup {t} : Payload(u) \in b.files
      BY <1>1, <3>1, DeviceIs DEF OpenMedia
    <3>4. box' = [box EXCEPT ![d] = [b EXCEPT !.scratch = b.scratch \cup {t}]]
      BY <3>1 DEF OpenMedia
    <3>5. QED BY <3>2, <3>3, <3>4
  <2>3. QED BY <2>1, <2>2
<1> HIDE DEF b
<1>4. PICK B \in Boxes : B = [b EXCEPT !.scratch = s]
  BY <1>2 DEF Boxes
<1>5. /\ B.up = b.up /\ B.spent = b.spent /\ B.left = b.left /\ B.history = b.history /\ B.files = b.files
      /\ B.scratch = s
  BY <1>2, <1>4 DEF Boxes
<1>6. box' = [box EXCEPT ![d] = B]
  BY <1>3, <1>4
<1>7. /\ box[d].up => B.up
      /\ OneEach(B.history) /\ (d = "a" => Own(B.history, removed[d]))
      /\ d = "b" => Opened(B.history, B.spent, removed[d]) /\ (B.left > 0 => box["b"].left > 0)
      /\ kills = 0 /\ box["b"].left > 0 => B.files = Refs(B.history)
      /\ \A t \in B.scratch : Payload(t) \in B.files
  BY <1>3, <1>5, DeviceIs DEF b
<1>8. removed' = [removed EXCEPT ![d] = removed[d]] /\ removed[d] \in SUBSET Transfers
  BY <1>1, DeviceIs
<1>9. QED BY <1>1, <1>6, <1>7, <1>8, DeviceKeeps

LEMMA RemovalKeeps ==
    ASSUME MedInv, NEW d \in Ends2, NEW m \in box[d].history, RemoveMessage(d, m)
    PROVE  MedInv'
<1> DEFINE b == box[d]
           H == b.history \ {m}
           F == b.files \ Refs({m})
           C == {t \in b.scratch : Payload(t) \notin Refs({m})}
           R == IF m.file THEN removed[d] \cup {m.t} ELSE removed[d]
<1>1. /\ UNCHANGED <<saved, flying, sent, kills>> /\ b.up
  BY DEF RemoveMessage
<1>2. /\ b \in Boxes /\ OneEach(b.history) /\ m \in Messages /\ removed[d] \in SUBSET Transfers
  BY DeviceIs DEF Boxes
<1>3. /\ box' = [box EXCEPT ![d] = [b EXCEPT !.history = H, !.files = F, !.scratch = C]]
      /\ removed' = [removed EXCEPT ![d] = R]
  <2> DEFINE k == [b EXCEPT !.history = H]
  <2>1. k \in Boxes /\ k.files = b.files /\ k.scratch = b.scratch
    BY <1>2 DEF Boxes
  <2>2. ForgetMedia(k, Refs({m})) = [k EXCEPT !.files = F, !.scratch = C]
    BY <2>1 DEF ForgetMedia
  <2> HIDE DEF k, H, F, C, b
  <2>3. [k EXCEPT !.files = F, !.scratch = C] = [b EXCEPT !.history = H, !.files = F, !.scratch = C]
    BY <1>2 DEF Boxes, k
  <2>4. box' = [box EXCEPT ![d] = ForgetMedia(k, Refs({m}))]
    <3>1. box' = [box EXCEPT ![d] = ForgetMedia([box[d] EXCEPT !.history = @ \ {m}], Refs({m}))]
      BY DEF RemoveMessage
    <3>2. [box[d] EXCEPT !.history = @ \ {m}] = k
      BY <1>2 DEF k, H, b, Boxes
    <3>3. QED BY <3>1, <3>2
  <2>5. removed' = [removed EXCEPT ![d] = R]
    BY DEF RemoveMessage
  <2>6. QED BY <2>2, <2>3, <2>4, <2>5
<1>4. H \in SUBSET Messages /\ F \in SUBSET Sealed /\ C \in SUBSET Transfers /\ R \in SUBSET Transfers
  BY <1>2 DEF Boxes, Messages
<1>5. OneEach(H) /\ \A n \in H : n \in b.history /\ n.t # m.t
  BY <1>2 DEF OneEach
<1>6. d = "a" => Own(H, R)
  <2>1. CASE m.file
    BY <1>5, <2>1, DeviceIs DEF Own
  <2>2. CASE ~m.file
    BY <1>5, <2>2, DeviceIs DEF Own
  <2>3. QED BY <2>1, <2>2
<1>7. d = "b" => Opened(H, b.spent, R)
  <2>1. CASE m.file
    BY <1>5, <2>1, DeviceIs DEF Opened
  <2>2. CASE ~m.file
    BY <1>5, <2>2, DeviceIs DEF Opened
  <2>3. QED BY <2>1, <2>2
<1>8. Refs(H) = Refs(b.history) \ Refs({m})
  BY <1>2, RefsRemoved
<1>9. \A t \in C : Payload(t) \in F
  BY <1>1, DeviceIs
<1> HIDE DEF b, H, F, C, R
<1>10. PICK B \in Boxes : B = [b EXCEPT !.history = H, !.files = F, !.scratch = C]
  BY <1>2, <1>4 DEF Boxes
<1>11. /\ B.up = b.up /\ B.spent = b.spent /\ B.left = b.left /\ B.history = H /\ B.files = F
       /\ B.scratch = C
  BY <1>2, <1>10 DEF Boxes
<1>12. box' = [box EXCEPT ![d] = B]
  BY <1>3, <1>10
<1>13. kills = 0 /\ box["b"].left > 0 => B.files = Refs(B.history)
  BY <1>8, <1>11, DeviceIs DEF b, F
<1>14. /\ box[d].up => B.up
       /\ OneEach(B.history) /\ (d = "a" => Own(B.history, R))
       /\ d = "b" => Opened(B.history, B.spent, R) /\ (B.left > 0 => box["b"].left > 0)
       /\ \A t \in B.scratch : Payload(t) \in B.files
  BY <1>5, <1>6, <1>7, <1>9, <1>11 DEF b
<1>15. QED BY <1>1, <1>3, <1>4, <1>12, <1>13, <1>14, DeviceKeeps

LEMMA SendingKeeps ==
    ASSUME MedInv, NEW t \in Transfers, NEW kind \in Kinds, NEW thumb \in BOOLEAN, NEW copies,
           SendMedia(t, kind, thumb, copies)
    PROVE  MedInv'
<1> USE MediaAssumption
<1> DEFINE b == box["a"]
           m == MediaMsg(t, TRUE, kind, TRUE, thumb)
           H == b.history \cup {m}
           F == b.files \cup Refs({m})
           new == PayloadFrames(t, kind, copies) \cup PreSignal(t, kind, thumb)
<1>1. /\ t \notin sent /\ b.up /\ flying' = flying \cup new /\ sent' = sent \cup {t}
      /\ UNCHANGED <<removed, kills>>
  BY DEF SendMedia
<1>2. /\ b \in Boxes /\ OneEach(b.history) /\ Own(b.history, removed["a"]) /\ removed["a"] \in SUBSET Transfers
      /\ "a" \in Ends2 /\ \A u \in b.scratch : Payload(u) \in b.files
      /\ kills = 0 /\ box["b"].left > 0 => b.files = Refs(b.history)
  BY <1>1, DeviceIs DEF Ends2
<1>3. m \in Messages /\ m.mine /\ m.file /\ m.t = t
  BY DEF MediaMsg, Messages
<1>4. \A f \in new : f.t = t /\ f.kind \in Kinds \cup {"incoming"} /\ (f.kind = "incoming" => f.thumb \in BOOLEAN)
  BY DEF PayloadFrames, PreSignal
<1>5. H \in SUBSET Messages /\ F \in SUBSET Sealed
  <2>1. Refs({m}) \in SUBSET Sealed
    BY <1>3, RefsOfMessages
  <2>2. QED BY <1>2, <1>3, <2>1 DEF Boxes
<1>6. OneEach(H)
  <2>1. \A n \in b.history : n.t # t
    BY <1>1, <1>2 DEF Own
  <2> HIDE DEF m, b
  <2>2. QED BY <1>2, <1>3, <2>1 DEF OneEach
<1>7. /\ removed["a"] \subseteq sent'
      /\ \A n \in H : n.mine /\ n.file /\ n.t \in sent' /\ n.t \notin removed["a"]
  <2> HIDE DEF m, b
  <2>1. \A n \in b.history : n.mine /\ n.file /\ n.t \in sent /\ n.t \notin removed["a"]
    BY <1>2 DEF Own
  <2>2. removed["a"] \subseteq sent
    BY <1>2 DEF Own
  <2>3. QED BY <1>1, <1>3, <2>1, <2>2
<1>8. Refs(H) = Refs(b.history) \cup Refs({m})
  BY RefsOfUnion
<1>9. box' = [box EXCEPT !["a"] = [b EXCEPT !.history = H, !.files = F]]
  BY DEF SendMedia
<1>10. saved' = [saved EXCEPT !["a"] = [history |-> H, spent |-> b.spent, gone |-> removed["a"]]]
  BY DEF SendMedia
<1>11. [history |-> H, spent |-> b.spent, gone |-> removed["a"]] \in States
  BY <1>2, <1>5 DEF States, Boxes
<1>12. MedTypes /\ saved \in [Ends2 -> States] /\ box \in [Ends2 -> Boxes]
  BY DEF MedInv, MedTypes
<1> HIDE DEF b, m, H, F, new
<1>13. PICK B \in Boxes : B = [b EXCEPT !.history = H, !.files = F]
  BY <1>2, <1>5 DEF Boxes
<1>14. /\ B.up = b.up /\ B.spent = b.spent /\ B.left = b.left /\ B.history = H /\ B.files = F
       /\ B.scratch = b.scratch
  BY <1>2, <1>13 DEF Boxes
<1>15. PICK S \in States : /\ S = [history |-> H, spent |-> b.spent, gone |-> removed["a"]]
                           /\ S.history = H /\ S.gone = removed["a"]
  BY <1>11
<1>16. /\ box' \in [Ends2 -> Boxes] /\ box'["a"] = B /\ box'["b"] = box["b"]
       /\ saved' \in [Ends2 -> States] /\ saved'["a"] = S /\ saved'["b"] = saved["b"]
  BY <1>2, <1>9, <1>10, <1>12, <1>13, <1>15 DEF Ends2
<1>17. MedTypes'
  BY <1>1, <1>4, <1>12, <1>16 DEF MedTypes
<1>18. \A f \in flying' : f.kind = "incoming" => f \in flying \/ (f.t = t /\ f.t \notin sent)
  BY <1>1, <1>4
<1>19. /\ Opened(box["b"].history, box["b"].spent, removed["b"])'
       /\ Opened(saved["b"].history, saved["b"].spent, saved["b"].gone)'
  <2>1. <<"media", t>> \notin box["b"].spent /\ <<"media", t>> \notin saved["b"].spent
    BY <1>1 DEF MedInv, Opened
  <2>2. QED BY <1>1, <1>16, <1>18, <2>1 DEF MedInv, Opened
<1>20. NothingStranded'
  <2>1. kills = 0 /\ box["b"].left > 0 => F = Refs(H)
    BY <1>2, <1>8 DEF F
  <2>2. QED BY <1>1, <1>14, <1>16, <2>1 DEF MedInv, NothingStranded, Ends2
<1>21. PlainCopiesFollow'
  BY <1>2, <1>14, <1>16 DEF MedInv, PlainCopiesFollow, Ends2, F
<1>22. \A d \in Ends2 : OneEach(box'[d].history) /\ OneEach(saved'[d].history)
  BY <1>6, <1>14, <1>15, <1>16 DEF MedInv, Ends2
<1>23. Own(box["a"].history, removed["a"])' /\ Own(saved["a"].history, saved["a"].gone)'
  BY <1>1, <1>7, <1>14, <1>15, <1>16 DEF Own
<1>24. kills' = 0 => \A d \in Ends2 : box'[d].up
  BY <1>1, <1>14, <1>16 DEF MedInv, Ends2
<1>25. QED
  BY <1>17, <1>19, <1>20, <1>21, <1>22, <1>23, <1>24 DEF MedInv

LEMMA SavingKeeps ==
    ASSUME MedInv, NEW d \in Ends2, SaveState(d)
    PROVE  MedInv'
<1> DEFINE S == [history |-> box[d].history, spent |-> box[d].spent, gone |-> removed[d]]
<1>1. saved' = [saved EXCEPT ![d] = S] /\ UNCHANGED <<box, flying, sent, removed, kills>>
  BY DEF SaveState
<1>2. /\ S \in States /\ S.history = box[d].history /\ S.spent = box[d].spent /\ S.gone = removed[d]
  BY DeviceIs DEF States, Boxes
<1> HIDE DEF S
<1>3. /\ saved' \in [Ends2 -> States] /\ saved'[d] = S /\ \A e \in Ends2 \ {d} : saved'[e] = saved[e]
  BY <1>1, <1>2 DEF MedInv, MedTypes
<1>4. MedTypes'
  BY <1>1, <1>3 DEF MedInv, MedTypes
<1>5. \A e \in Ends2 : OneEach(box'[e].history) /\ OneEach(saved'[e].history)
  BY <1>1, <1>2, <1>3 DEF MedInv
<1>6. Own(box["a"].history, removed["a"])' /\ Own(saved["a"].history, saved["a"].gone)'
  BY <1>1, <1>2, <1>3 DEF MedInv, Own, Ends2
<1>7. Opened(box["b"].history, box["b"].spent, removed["b"])'
  BY <1>1 DEF MedInv, Opened
<1>8. Opened(saved["b"].history, saved["b"].spent, saved["b"].gone)'
  <2>1. CASE d = "b"
    BY <1>1, <1>2, <1>3, <2>1 DEF MedInv, Opened
  <2>2. CASE d # "b"
    BY <1>1, <1>3, <2>2 DEF MedInv, Opened, Ends2
  <2>3. QED BY <2>1, <2>2
<1>9. NothingStranded' /\ PlainCopiesFollow'
  BY <1>1 DEF MedInv, NothingStranded, PlainCopiesFollow
<1>10. QED BY <1>1, <1>4, <1>5, <1>6, <1>7, <1>8, <1>9 DEF MedInv

\* A kill and the launch after it.
LEMMA KillKeeps ==
    ASSUME MedInv, NEW d \in Ends2, KillMedia(d)
    PROVE  MedInv'
<1> DEFINE B == [box[d] EXCEPT !.up = FALSE]
<1>1. box' = [box EXCEPT ![d] = B] /\ kills' = kills + 1 /\ UNCHANGED <<saved, flying, sent, removed>>
  BY DEF KillMedia
<1>2. /\ B \in Boxes /\ ~B.up /\ B.history = box[d].history /\ B.spent = box[d].spent
  BY DeviceIs DEF Boxes
<1> HIDE DEF B
<1>3. /\ box' \in [Ends2 -> Boxes] /\ box'[d] = B /\ \A e \in Ends2 \ {d} : box'[e] = box[e]
  BY <1>1, <1>2 DEF MedInv, MedTypes
<1>4. MedTypes' /\ kills' # 0
  BY <1>1, <1>3 DEF MedInv, MedTypes
<1>5. \A e \in Ends2 : box'[e].history = box[e].history /\ box'[e].spent = box[e].spent
  BY <1>2, <1>3
<1>6. \A e \in Ends2 : OneEach(box'[e].history) /\ OneEach(saved'[e].history)
  BY <1>1, <1>5 DEF MedInv
<1>7. Own(box["a"].history, removed["a"])' /\ Own(saved["a"].history, saved["a"].gone)'
  BY <1>1, <1>5 DEF MedInv, Own, Ends2
<1>8. /\ Opened(box["b"].history, box["b"].spent, removed["b"])'
      /\ Opened(saved["b"].history, saved["b"].spent, saved["b"].gone)'
  BY <1>1, <1>5 DEF MedInv, Opened, Ends2
<1>9. NothingStranded' /\ PlainCopiesFollow'
  BY <1>2, <1>3, <1>4 DEF MedInv, NothingStranded, PlainCopiesFollow
<1>10. QED BY <1>4, <1>6, <1>7, <1>8, <1>9 DEF MedInv

LEMMA LaunchKeeps ==
    ASSUME MedInv, NEW d \in Ends2, LaunchMedia(d)
    PROVE  MedInv'
<1> USE MediaAssumption
<1> DEFINE b == box[d]
           s == saved[d]
           B == [b EXCEPT !.up = TRUE, !.history = s.history, !.spent = s.spent, !.scratch = {},
                          !.left = MaxAllowance]
<1>1. /\ box' = [box EXCEPT ![d] = B] /\ removed' = [removed EXCEPT ![d] = s.gone]
      /\ UNCHANGED <<saved, flying, sent, kills>> /\ ~b.up
  BY DEF LaunchMedia
<1>2. b \in Boxes /\ s \in States
  BY DEF MedInv, MedTypes
<1>3. /\ B \in Boxes /\ B.history = s.history /\ B.spent = s.spent /\ B.scratch = {}
      /\ s.gone \in SUBSET Transfers
  BY <1>2 DEF Boxes, States
<1> HIDE DEF B
<1>4. /\ box' \in [Ends2 -> Boxes] /\ box'[d] = B /\ \A e \in Ends2 \ {d} : box'[e] = box[e]
      /\ removed' \in [Ends2 -> SUBSET Transfers] /\ removed'[d] = s.gone
      /\ \A e \in Ends2 \ {d} : removed'[e] = removed[e]
  BY <1>1, <1>3 DEF MedInv, MedTypes
<1>5. kills # 0
  BY <1>1 DEF MedInv
<1>6. MedTypes'
  BY <1>1, <1>4 DEF MedInv, MedTypes
<1>7. \A e \in Ends2 : OneEach(box'[e].history) /\ OneEach(saved'[e].history)
  BY <1>1, <1>3, <1>4 DEF MedInv
<1>8. Own(box["a"].history, removed["a"])' /\ Own(saved["a"].history, saved["a"].gone)'
  <2>1. Own(saved["a"].history, saved["a"].gone)'
    BY <1>1 DEF MedInv, Own
  <2>2. CASE d = "a"
    BY <1>1, <1>3, <1>4, <2>1, <2>2 DEF Own
  <2>3. CASE d # "a"
    BY <1>1, <1>4, <2>1, <2>3 DEF MedInv, Own, Ends2
  <2>4. QED BY <2>1, <2>2, <2>3
<1>9. /\ Opened(box["b"].history, box["b"].spent, removed["b"])'
      /\ Opened(saved["b"].history, saved["b"].spent, saved["b"].gone)'
  <2>1. Opened(saved["b"].history, saved["b"].spent, saved["b"].gone)'
    BY <1>1 DEF MedInv, Opened
  <2>2. CASE d = "b"
    BY <1>1, <1>3, <1>4, <2>1, <2>2 DEF Opened
  <2>3. CASE d # "b"
    BY <1>1, <1>4, <2>1, <2>3 DEF MedInv, Opened, Ends2
  <2>4. QED BY <2>1, <2>2, <2>3
<1>10. NothingStranded' /\ PlainCopiesFollow'
  BY <1>1, <1>3, <1>4, <1>5 DEF MedInv, NothingStranded, PlainCopiesFollow
<1>11. QED BY <1>1, <1>5, <1>6, <1>7, <1>8, <1>9, <1>10 DEF MedInv

LEMMA MediaStarts == MedInit => MedInv
<1> SUFFICES ASSUME MedInit PROVE MedInv
  OBVIOUS
<1> USE MediaAssumption DEF MedInit
<1>1. PICK left \in 0 .. MaxAllowance :
          box = [d \in Ends2 |-> [up |-> TRUE, history |-> {}, files |-> {}, scratch |-> {},
                                  spent |-> {}, left |-> left]]
  OBVIOUS
<1>2. MedTypes
  BY <1>1 DEF MedTypes, Boxes, States, Ends2
<1>3. \A d \in Ends2 : /\ box[d].up /\ box[d].history = {} /\ box[d].files = {} /\ box[d].scratch = {}
                       /\ box[d].spent = {} /\ saved[d].history = {} /\ saved[d].spent = {}
                       /\ saved[d].gone = {} /\ removed[d] = {}
  BY <1>1
<1>4. Refs({}) = {}
  BY DEF Refs
<1>5. "a" \in Ends2 /\ "b" \in Ends2 /\ flying = {} /\ sent = {}
  BY DEF Ends2
<1> HIDE DEF MedInit
<1>6. Own(box["a"].history, removed["a"]) /\ Own(saved["a"].history, saved["a"].gone)
  BY <1>3, <1>5 DEF Own
<1>7. /\ Opened(box["b"].history, box["b"].spent, removed["b"])
      /\ Opened(saved["b"].history, saved["b"].spent, saved["b"].gone)
  BY <1>3, <1>5 DEF Opened
<1>8. NothingStranded /\ PlainCopiesFollow
  BY <1>3, <1>4 DEF NothingStranded, PlainCopiesFollow
<1>9. QED BY <1>2, <1>3, <1>6, <1>7, <1>8 DEF MedInv, OneEach

LEMMA MediaSteps ==
    ASSUME InOrder, MedInv, [MedNext]_medVars
    PROVE  MedInv'
<1>1. ASSUME NEW t \in Transfers, NEW kind \in Kinds, NEW thumb \in BOOLEAN, NEW copies,
             SendMedia(t, kind, thumb, copies)
      PROVE  MedInv'
  BY <1>1, SendingKeeps
<1>2. ASSUME NEW f \in flying, RecvIncoming(f)
      PROVE  MedInv'
  BY <1>2, IncomingKeeps
<1>3. ASSUME NEW f \in flying, (InOrder => \A g \in flying : g.t = f.t => g.kind # "incoming") /\ RecvMedia(f)
      PROVE  MedInv'
  BY <1>3, PayloadKeeps
<1>4. ASSUME NEW f \in flying, Undecryptable(f) \/ LoseMedia(f)
      PROVE  MedInv'
  BY <1>4, NothingNewKeeps DEF Undecryptable, LoseMedia, Consume
<1>5. ASSUME NEW d \in Ends2, (\E t \in Transfers : OpenMedia(d, t)) \/ ClearOpenCache(d)
      PROVE  MedInv'
  BY <1>5, PlainCopiesKeep
<1>6. ASSUME NEW d \in Ends2, NEW m \in box[d].history, RemoveMessage(d, m)
      PROVE  MedInv'
  BY <1>6, RemovalKeeps
<1>7. ASSUME NEW d \in Ends2, SaveState(d) \/ KillMedia(d) \/ LaunchMedia(d)
      PROVE  MedInv'
  BY <1>7, SavingKeeps, KillKeeps, LaunchKeeps
<1>8. CASE UNCHANGED medVars
  BY <1>8, NothingNewKeeps DEF medVars
<1>9. QED BY <1>1, <1>2, <1>3, <1>4, <1>5, <1>6, <1>7, <1>8 DEF MedNext

\* Sealed files are exactly those the history names, decrypted copies go with them, and
\* a deleted attachment does not come back with a late copy or a kill, where a pre-signal
\* and its payload keep their order (Media handler, store_media, forget_media).
THEOREM AttachmentsAreKept == InOrder => (MedSpec => []AttachmentsHold)
<1> SUFFICES ASSUME InOrder PROVE MedSpec => []AttachmentsHold
  OBVIOUS
<1>1. MedInit => MedInv
  BY MediaStarts
<1>2. MedInv /\ [MedNext]_medVars => MedInv'
  BY MediaSteps
<1>3. MedInv => AttachmentsHold
  <2> SUFFICES ASSUME MedInv PROVE AttachmentsHold
    OBVIOUS
  <2>1. MedTypeOK
    BY DEF MedInv, MedTypes, MedTypeOK, OneEach
  <2>2. GoneStaysGone
    BY DEF MedInv, GoneStaysGone, Own, Opened, Ends2
  <2>3. QED BY <2>1, <2>2 DEF MedInv, AttachmentsHold
<1>4. QED BY <1>1, <1>2, <1>3, PTL DEF MedSpec

-----------------------------------------------------------------------------
(* The update download.                                                    *)

LEMMA UpdateBounds ==
    /\ MaxRelease \in Nat /\ MaxKeys \in Nat /\ Blocks \in Nat /\ MaxFiles \in Nat
    /\ 0 \in 0 .. MaxRelease /\ 0 \in 0 .. MaxKeys /\ 0 \in 0 .. MaxFiles
BY UpdateAssumption

LEMMA UpdateStarts == UpInit => UpInv
<1> SUFFICES ASSUME UpInit PROVE UpInv
  OBVIOUS
<1>1. UpTypeOK
  <2>1. <<>> \in Seq(Seq(Releases)) /\ Len(<<>>) = 0
    OBVIOUS
  <2>2. files = <<>> /\ release = [key |-> 0, rel |-> 0] /\ manifests = {} /\ updateKey = 0
        /\ flight = FALSE /\ part = [r \in Releases |-> 0] /\ dest = 0
    BY DEF UpInit
  <2>3. Len(<<>>) <= MaxFiles
    BY <2>1, UpdateBounds
  <2> QED
    BY <2>1, <2>2, <2>3, UpdateBounds DEF UpTypeOK
<1>2. CallsOK
  BY DEF UpInit, CallsOK, CallOK, Idle
<1>3. FilesApart /\ DestIsWhole
  BY DEF UpInit, FilesApart, DestIsWhole
<1> QED
  BY <1>1, <1>2, <1>3 DEF UpInv

\* A call moves on, the one under way or the first: the others are idle.
LEMMA CallsFollow ==
    ASSUME UpInv, NEW d \in Downloads, NEW c, SetCall(d, c), checking' = checking,
           getting[d].pc # "idle" \/ ~flight, c.pc # "idle" => flight', CallOK(getting[d])'
    PROVE  CallsOK'
<1>1. getting' = [getting EXCEPT ![d] = c] /\ getting = [e \in Downloads |-> getting[e]]
  BY DEF SetCall, UpInv, CallsOK
<1>2. getting'[d] = c /\ \A e \in Downloads : e # d => getting'[e] = getting[e]
  BY <1>1
<1>3. \A e \in Downloads : e # d => getting[e].pc = "idle"
  BY DEF UpInv, CallsOK
<1>4. \A e \in Downloads : e # d => getting'[e].pc = "idle"
  BY <1>2, <1>3
<1>5. getting' = [e \in Downloads |-> getting'[e]]
  BY <1>1
<1>6. ASSUME NEW e \in Downloads
      PROVE  CallOK(getting[e])' /\ (getting'[e].pc # "idle" => flight')
  <2>1. CASE e = d
    BY <1>2, <2>1
  <2>2. CASE e # d
    BY <1>4, <2>2 DEF CallOK
  <2> QED
    BY <2>1, <2>2
<1>7. \A e, f \in Downloads : getting'[e].pc # "idle" /\ getting'[f].pc # "idle" => e = f
  BY <1>4
<1>8. checking'.pc = "remember" => checking'.key \in 0 .. MaxKeys
  BY DEF UpInv, CallsOK
<1> QED
  BY <1>5, <1>6, <1>7, <1>8 DEF CallsOK

\* The same, when the files stay as they were.
LEMMA OneCallMoves ==
    ASSUME UpInv, NEW d \in Downloads, NEW c, SetCall(d, c),
           UNCHANGED <<part, files, dest, release, manifests, checking>>,
           updateKey' \in 0 .. MaxKeys, flight' \in BOOLEAN,
           CallOK(c), c.pc # "idle" => flight',
           getting[d].pc # "idle" \/ ~flight
    PROVE  UpInv'
<1>1. getting'[d] = c
  BY DEF SetCall, UpInv, CallsOK
<1>2. CallOK(getting[d])'
  BY <1>1 DEF CallOK, WritesPart
<1>3. CallsOK'
  BY <1>2, CallsFollow
<1>4. UpTypeOK' /\ FilesApart' /\ DestIsWhole'
  BY DEF UpInv, UpTypeOK, FilesApart, DestIsWhole
<1> QED
  BY <1>3, <1>4 DEF UpInv

\* The calls and the files do not see what is published or checked.
LEMMA UpdateSeesNot ==
    ASSUME UpInv, UNCHANGED <<getting, flight, files, part, dest>>,
           release' \in [key : 0 .. MaxKeys, rel : 0 .. MaxRelease], manifests' \subseteq Manifest,
           updateKey' \in 0 .. MaxKeys, checking'.pc = "remember" => checking'.key \in 0 .. MaxKeys
    PROVE  UpInv'
<1>1. UpTypeOK' /\ FilesApart' /\ DestIsWhole'
  BY DEF UpInv, UpTypeOK, FilesApart, DestIsWhole
<1>2. CallsOK'
  BY DEF UpInv, CallsOK, CallOK, WritesPart
<1> QED
  BY <1>1, <1>2 DEF UpInv

LEMMA UpdateStep ==
    ASSUME UpInv, [UpNext]_upVars
    PROVE  UpInv'
<1>1. /\ release \in [key : 0 .. MaxKeys, rel : 0 .. MaxRelease] /\ manifests \subseteq Manifest
      /\ updateKey \in 0 .. MaxKeys /\ flight \in BOOLEAN
      /\ files \in Seq(Seq(Releases)) /\ Len(files) <= MaxFiles
      /\ part \in [Releases -> 0 .. MaxFiles] /\ dest \in 0 .. MaxFiles
  BY DEF UpInv, UpTypeOK
<1>2. checking.pc = "remember" => checking.key \in 0 .. MaxKeys
  BY DEF UpInv, CallsOK
<1>3. \A m \in manifests : m \in Manifest /\ m.by \in 0 .. MaxKeys /\ m.rot \in 0 .. MaxKeys /\ m.rel \in Releases
  BY <1>1 DEF Manifest
<1>4. Len(files) \in Nat
  BY <1>1
<1>5. CASE PublishRelease
  <2>1. release' \in [key : 0 .. MaxKeys, rel : 0 .. MaxRelease]
    BY <1>1, <1>5, UpdateBounds DEF PublishRelease
  <2>2. manifests' \subseteq Manifest
    BY <1>1, <1>5, UpdateBounds DEF PublishRelease, Manifest, Releases
  <2> QED
    BY <1>1, <1>2, <1>5, <2>1, <2>2, UpdateSeesNot DEF PublishRelease
<1>6. CASE RotateUpdateKey
  <2>1. release' \in [key : 0 .. MaxKeys, rel : 0 .. MaxRelease]
    BY SMTT(30), <1>1, <1>6, UpdateBounds DEF RotateUpdateKey
  <2>2. manifests' \subseteq Manifest
    BY <1>1, <1>6, UpdateBounds DEF RotateUpdateKey, Manifest, Releases
  <2> QED
    BY <1>1, <1>2, <1>6, <2>1, <2>2, UpdateSeesNot DEF RotateUpdateKey
<1>7. CASE StartCheck
  <2>1. checking'.pc # "remember"
    BY <1>7 DEF StartCheck
  <2> QED
    BY <1>1, <1>7, <2>1, UpdateSeesNot DEF StartCheck
<1>8. CASE FetchForCheck
  <2>1. checking'.pc = "remember" => checking'.key \in 0 .. MaxKeys
    BY <1>3, <1>8 DEF FetchForCheck, Idle
  <2> QED
    BY <1>1, <1>8, <2>1, UpdateSeesNot DEF FetchForCheck
<1>9. CASE RememberForCheck
  <2>1. updateKey' \in 0 .. MaxKeys /\ checking'.pc # "remember"
    BY <1>2, <1>9 DEF RememberForCheck, Idle
  <2> QED
    BY <1>1, <1>9, <2>1, UpdateSeesNot DEF RememberForCheck
<1>10. CASE KillUpdater
  <2>1. /\ checking' = Idle /\ getting' = [d \in Downloads |-> Idle] /\ flight' = FALSE
        /\ UNCHANGED <<release, manifests, updateKey, files, part, dest>>
    BY <1>10 DEF KillUpdater
  <2>2. CallsOK'
    BY <2>1 DEF CallsOK, CallOK, Idle
  <2>3. UpTypeOK' /\ FilesApart' /\ DestIsWhole'
    BY <2>1 DEF UpInv, UpTypeOK, FilesApart, DestIsWhole
  <2> QED
    BY <2>2, <2>3 DEF UpInv
<1>11. ASSUME NEW d \in Downloads
       PROVE  CallOK(getting[d]) /\ (getting[d].pc # "idle" => flight)
  BY DEF UpInv, CallsOK
<1>12. ASSUME NEW d \in Downloads, StartDownload(d)
       PROVE  UpInv'
  <2>1. CallOK([pc |-> "manifest"])
    BY DEF CallOK
  <2> QED
    BY <1>1, <1>12, <2>1, OneCallMoves DEF StartDownload
<1>13. ASSUME NEW d \in Downloads, getting[d].pc # "idle", EndCall(d),
              UNCHANGED <<part, files, dest, release, manifests, checking, updateKey>>
       PROVE  UpInv'
  <2>1. CallOK(Idle) /\ Idle.pc = "idle"
    BY DEF CallOK, Idle
  <2> QED
    BY <1>1, <1>13, <2>1, OneCallMoves DEF EndCall
<1>14. ASSUME NEW d \in Downloads, FetchManifest(d)
       PROVE  UpInv'
  <2>1. CASE EndCall(d)
    BY <1>13, <1>14, <2>1 DEF FetchManifest
  <2>2. ASSUME NEW m \in manifests, UNCHANGED flight,
               SetCall(d, [pc |-> "remember", m |-> m, moved |-> Moved(m, updateKey)])
        PROVE  UpInv'
    <3> DEFINE c == [pc |-> "remember", m |-> m, moved |-> Moved(m, updateKey)]
    <3>1. CallOK(c)
      BY <1>3, <2>2 DEF CallOK
    <3>2. flight /\ SetCall(d, c)
      BY <1>11, <1>14, <2>2 DEF FetchManifest
    <3> HIDE DEF c
    <3> QED
      BY <1>1, <1>14, <2>2, <3>1, <3>2, OneCallMoves DEF FetchManifest
  <2> QED
    BY <1>14, <2>1, <2>2 DEF FetchManifest
<1>15. ASSUME NEW d \in Downloads, Remember(d)
       PROVE  UpInv'
  <2>1. getting[d].m \in Manifest /\ flight /\ getting[d].pc = "remember"
    BY <1>11, <1>15 DEF Remember, CallOK
  <2>2. updateKey' \in 0 .. MaxKeys
    BY <1>1, <1>15, <2>1 DEF Remember, Manifest
  <2> DEFINE c == [pc |-> "open", rel |-> getting[d].m.rel]
  <2>3. CallOK(c) /\ SetCall(d, c)
    BY <1>15, <2>1 DEF Remember, CallOK, Manifest
  <2> HIDE DEF c
  <2> QED
    BY <1>1, <1>15, <2>1, <2>2, <2>3, OneCallMoves DEF Remember
<1>16. ASSUME NEW d \in Downloads, OpenPart(d)
       PROVE  UpInv'
  <2> DEFINE rel == getting[d].rel
             old == part[rel]
             file == IF old = 0 THEN Len(files) + 1 ELSE old
  <2>1. rel \in Releases /\ flight /\ getting[d].pc = "open"
    BY <1>11, <1>16 DEF OpenPart, CallOK
  <2>2. PICK served \in 1 .. release.rel, continues \in BOOLEAN :
            LET kept == IF old = 0 \/ ~continues THEN <<>> ELSE files[old] IN
            /\ files' = IF old = 0 THEN Append(files, <<>>) ELSE [files EXCEPT ![old] = kept]
            /\ SetCall(d, [pc |-> "stream", rel |-> rel, file |-> file, at |-> Len(kept),
                           served |-> served])
    BY <1>16 DEF OpenPart
  <2> DEFINE kept == IF old = 0 \/ ~continues THEN <<>> ELSE files[old]
             c == [pc |-> "stream", rel |-> rel, file |-> file, at |-> Len(kept), served |-> served]
  <2>3. /\ file <= MaxFiles /\ part' = [r \in Releases |-> IF r = rel THEN file ELSE 0]
        /\ UNCHANGED <<release, manifests, updateKey, checking, flight, dest, upLeft>>
    BY <1>16 DEF OpenPart
  <2>4. old \in Nat /\ old <= Len(files) /\ (old # 0 => old # dest) /\ dest <= Len(files)
    BY <1>1, <2>1 DEF UpInv, FilesApart
  <2>5. file \in Nat /\ file # 0 /\ file # dest
    BY <1>1, <1>4, <2>4
  <2>6. kept \in Seq(Releases)
    BY <1>1, <2>4
  <2>7. served \in Releases
    BY <1>1, UpdateBounds DEF Releases
  <2>8. files' = (IF old = 0 THEN Append(files, <<>>) ELSE [files EXCEPT ![old] = kept]) /\ SetCall(d, c)
    BY <2>2
  <2> HIDE DEF kept
  <2>9. /\ files' \in Seq(Seq(Releases)) /\ Len(files') = (IF old = 0 THEN Len(files) + 1 ELSE Len(files))
        /\ \A i \in 1 .. Len(files) : i # old => files'[i] = files[i]
    <3>1. CASE old = 0
      <4>1. files' = Append(files, <<>>) /\ <<>> \in Seq(Releases)
        BY <2>8, <3>1
      <4> QED
        BY <1>1, <3>1, <4>1
    <3>2. CASE old # 0
      <4>1. files' = [files EXCEPT ![old] = kept] /\ old \in 1 .. Len(files)
        BY <2>4, <2>8, <3>2
      <4> QED
        BY <1>1, <2>6, <3>2, <4>1
    <3> QED
      BY <3>1, <3>2
  <2>10. Len(files') <= MaxFiles /\ file <= Len(files') /\ Len(files) <= Len(files')
    BY <1>1, <1>4, <2>3, <2>4, <2>9
  <2>11. UpTypeOK'
    BY <1>1, <2>3, <2>5, <2>9, <2>10, UpdateBounds DEF UpTypeOK
  <2>12. part'[rel] = file /\ \A r \in Releases : r # rel => part'[r] = 0
    BY <2>1, <2>3
  <2>13. FilesApart'
    <3>1. dest' = dest /\ dest <= Len(files') /\ Len(files') \in Nat /\ dest \in Nat
      BY <1>1, <1>4, <2>3, <2>4, <2>9, <2>10
    <3>2. \A r \in Releases : part'[r] <= Len(files')
      BY <2>10, <2>12, <3>1
    <3>3. \A r, q \in Releases : part'[r] # 0 => part'[r] # dest /\ (part'[r] = part'[q] => r = q)
      BY <2>5, <2>12
    <3> QED
      BY <3>1, <3>2, <3>3 DEF FilesApart
  <2>14. DestIsWhole'
    <3>1. dest # 0 => files'[dest] = files[dest]
      BY <1>1, <2>4, <2>9
    <3> QED
      BY <2>3, <3>1 DEF UpInv, DestIsWhole
  <2>15. getting'[d] = c
    BY <2>8 DEF SetCall, UpInv, CallsOK
  <2>16. Len(kept) \in Nat
    BY <2>6
  <2>17. CallOK(getting[d])'
    <3>1. c \in [pc : {"stream"}, rel : Releases, file : 1 .. MaxFiles, at : Nat, served : Releases]
      BY <1>1, <2>1, <2>3, <2>5, <2>7, <2>16, UpdateBounds
    <3> QED
      BY <2>5, <2>12, <2>15, <3>1 DEF CallOK, WritesPart
  <2>18. CallsOK'
    <3> HIDE DEF c
    <3> QED
      BY <2>1, <2>3, <2>8, <2>17, CallsFollow
  <2> QED
    BY <2>11, <2>13, <2>14, <2>18 DEF UpInv
<1>17. ASSUME NEW d \in Downloads, getting[d].pc \in {"stream", "hashed"}
       PROVE  /\ flight /\ getting[d].rel \in Releases /\ getting[d].file # 0
              /\ part[getting[d].rel] = getting[d].file
              /\ getting[d].file \in 1 .. Len(files) /\ getting[d].file # dest
              /\ getting[d].pc = "stream" => getting[d].served \in Releases /\ getting[d].at \in Nat
              /\ getting[d].pc = "hashed" /\ getting[d].good => files[getting[d].file] = BuildOf(getting[d].rel)
  <2>1. /\ flight /\ WritesPart(getting[d])
        /\ getting[d].pc = "stream" => getting[d].served \in Releases /\ getting[d].at \in Nat
        /\ getting[d].pc = "hashed" /\ getting[d].good => files[getting[d].file] = BuildOf(getting[d].rel)
    BY <1>11, <1>17 DEF CallOK
  <2> QED
    BY <1>1, <1>4, <2>1 DEF WritesPart, UpInv, FilesApart
<1>18. ASSUME NEW d \in Downloads, StreamBlock(d)
       PROVE  UpInv'
  <2> DEFINE g == getting[d]
             c == [g EXCEPT !.at = @ + 1]
  <2>1. /\ g.pc = "stream" /\ g.at <= Len(files[g.file])
        /\ files' = [files EXCEPT ![g.file] = Written(files[g.file], g.at, g.served)]
        /\ SetCall(d, c)
        /\ UNCHANGED <<release, manifests, updateKey, checking, flight, part, dest, upLeft>>
    BY <1>18 DEF StreamBlock
  <2>2. /\ flight /\ g.rel \in Releases /\ g.file # 0 /\ part[g.rel] = g.file
        /\ g.file \in 1 .. Len(files) /\ g.file # dest /\ g.served \in Releases /\ g.at \in Nat
    BY <1>17, <2>1
  <2>3. Written(files[g.file], g.at, g.served) \in Seq(Releases)
    <3>1. files[g.file] \in Seq(Releases)
      BY <1>1, <2>2
    <3>2. ASSUME NEW s \in Seq(Releases), NEW b \in Releases, NEW at \in Nat
          PROVE  Written(s, at, b) \in Seq(Releases)
      <4>1. CASE at < Len(s)
        BY <4>1 DEF Written
      <4>2. CASE ~(at < Len(s))
        BY <4>2 DEF Written
      <4> QED
        BY <4>1, <4>2
    <3> QED
      BY <2>2, <3>1, <3>2
  <2>4. /\ files' \in Seq(Seq(Releases)) /\ Len(files') = Len(files)
        /\ \A i \in 1 .. Len(files) : i # g.file => files'[i] = files[i]
    BY <1>1, <2>1, <2>2, <2>3
  <2>5. UpTypeOK' /\ FilesApart'
    BY <1>1, <2>1, <2>4 DEF UpTypeOK, UpInv, FilesApart
  <2>6. DestIsWhole'
    <3>1. dest # 0 => files'[dest] = files[dest]
      BY <1>1, <2>2, <2>4 DEF UpInv, FilesApart
    <3> QED
      BY <2>1, <3>1 DEF UpInv, DestIsWhole
  <2>7. getting'[d] = c /\ g \in [pc : {"stream"}, rel : Releases, file : 1 .. MaxFiles, at : Nat, served : Releases]
    BY <1>11, <2>1 DEF SetCall, UpInv, CallsOK, CallOK
  <2>8. /\ c \in [pc : {"stream"}, rel : Releases, file : 1 .. MaxFiles, at : Nat, served : Releases]
        /\ c.rel = g.rel /\ c.file = g.file
    BY <2>2, <2>7
  <2>9. CallOK(getting[d])'
    BY <2>1, <2>2, <2>7, <2>8 DEF CallOK, WritesPart
  <2>10. CallsOK'
    <3> HIDE DEF c, g
    <3> QED
      BY <2>1, <2>2, <2>9, CallsFollow DEF g
  <2> QED
    BY <2>5, <2>6, <2>10 DEF UpInv
<1>19. ASSUME NEW d \in Downloads, DownloadBreaks(d)
       PROVE  UpInv'
  BY <1>13, <1>19 DEF DownloadBreaks
<1>20. ASSUME NEW d \in Downloads, StreamEnds(d)
       PROVE  UpInv'
  <2> DEFINE g == getting[d]
             c == [pc |-> "hashed", rel |-> g.rel, file |-> g.file,
                   good |-> files[g.file] = BuildOf(g.rel)]
  <2>1. g.pc = "stream" /\ SetCall(d, c)
        /\ UNCHANGED <<release, manifests, updateKey, checking, flight, files, part, dest, upLeft>>
    BY <1>20 DEF StreamEnds
  <2>2. /\ flight /\ g.rel \in Releases /\ g.file # 0 /\ part[g.rel] = g.file
    BY <1>17, <2>1
  <2>3. CallOK(c)
    BY <2>2 DEF CallOK, WritesPart
  <2> HIDE DEF c
  <2> QED
    BY <1>1, <2>1, <2>2, <2>3, OneCallMoves
<1>21. ASSUME NEW d \in Downloads, PlaceBuild(d)
       PROVE  UpInv'
  <2> DEFINE g == getting[d]
  <2>1. /\ g.pc = "hashed"
        /\ dest' = IF g.good /\ part[g.rel] # 0 THEN part[g.rel] ELSE dest
        /\ part' = [part EXCEPT ![g.rel] = 0]
        /\ SetCall(d, Idle) /\ flight' = FALSE
        /\ UNCHANGED <<release, manifests, updateKey, checking, files, upLeft>>
    BY <1>21 DEF PlaceBuild, EndCall
  <2>2. /\ flight /\ g.rel \in Releases /\ g.file # 0 /\ part[g.rel] = g.file
        /\ g.file \in 1 .. Len(files) /\ g.file # dest
        /\ g.good => files[g.file] = BuildOf(g.rel)
    BY <1>17, <2>1
  <2>3. part'[g.rel] = 0 /\ \A r \in Releases : r # g.rel => part'[r] = part[r]
    BY <1>1, <2>1, <2>2
  <2>4. dest' = g.file \/ dest' = dest
    BY <2>1, <2>2
  <2>5. UpTypeOK'
    BY <1>1, <1>4, <2>1, <2>2, <2>4, UpdateBounds DEF UpTypeOK
  <2>6. FilesApart'
    <3>1. dest' <= Len(files')
      BY <2>1, <2>2, <2>4 DEF UpInv, FilesApart
    <3>2. \A r \in Releases : part'[r] <= Len(files')
      BY <1>4, <2>1, <2>3 DEF UpInv, FilesApart
    <3>3. \A r \in Releases : part'[r] # 0 => part'[r] # dest' /\ part'[r] = part[r] /\ r # g.rel
      BY <2>2, <2>3, <2>4 DEF UpInv, FilesApart
    <3>4. \A r, q \in Releases : part'[r] # 0 /\ part'[r] = part'[q] => r = q
      BY <3>3 DEF UpInv, FilesApart
    <3> QED
      BY <3>1, <3>2, <3>3, <3>4 DEF FilesApart
  <2>7. DestIsWhole'
    <3>1. CASE dest' = dest
      BY <2>1, <3>1 DEF UpInv, DestIsWhole
    <3>2. CASE dest' # dest
      <4>1. dest' = g.file /\ g.good
        BY <2>1, <2>2, <3>2
      <4> QED
        BY <2>1, <2>2, <4>1 DEF DestIsWhole
    <3> QED
      BY <3>1, <3>2
  <2>8. CallOK(getting[d])' /\ Idle.pc = "idle"
    BY <2>1 DEF SetCall, UpInv, CallsOK, CallOK, Idle
  <2>9. CallsOK'
    BY <2>1, <2>8, CallsFollow
  <2> QED
    BY <2>5, <2>6, <2>7, <2>9 DEF UpInv
<1>22. CASE UNCHANGED upVars
  <2>1. UNCHANGED <<getting, flight, files, part, dest, release, manifests, updateKey, checking>>
    BY <1>22 DEF upVars
  <2> QED
    BY <1>1, <1>2, <2>1, UpdateSeesNot
<1> QED
  BY <1>5, <1>6, <1>7, <1>8, <1>9, <1>10, <1>12, <1>14, <1>15, <1>16, <1>18, <1>19, <1>20, <1>21, <1>22
  DEF UpNext

\* The file at the path a user may install from is always one complete build,
\* however transfers are cut off, resumed, superseded or killed (download,
\* download_update and its single-flight guard).
THEOREM UpdateIsWhole == UpSpec => []UpdateHolds
<1>1. UpInv /\ [UpNext]_upVars => UpInv'
  BY UpdateStep
<1>2. UpInv => UpdateHolds
  BY DEF UpInv, UpdateHolds
<1> QED
  BY UpdateStarts, <1>1, <1>2, PTL DEF UpSpec
=============================================================================
