----------------------------- MODULE PartsProofs -----------------------------
(***************************************************************************)
(* Proofs about parts of the app and the relay that do not share state,    *)
(* for every value of their constants.                                     *)
(***************************************************************************)
EXTENDS AppLock, Paths, OnionKey, Streams, Pairing, TallyProofs, FiniteSetTheorems, TLAPS

(* The app lock.                                                           *)

\* wait_after is a number of seconds, and the first tier has none.
LEMMA WaitsAreNatural == \A n \in Nat : WaitAfter(n) \in Nat /\ WaitAfter(0) = 0
<1>1. \A a, b \in Nat : Min({a, b}) \in {a, b} /\ (a <= b => Min({a, b}) = a)
  <2> SUFFICES ASSUME NEW a \in Nat, NEW b \in Nat
               PROVE  Min({a, b}) \in {a, b} /\ (a <= b => Min({a, b}) = a)
    OBVIOUS
  <2>1. \E x \in {a, b} : \A y \in {a, b} : x <= y
    <3>1. CASE a <= b
      BY <3>1
    <3>2. CASE b <= a
      BY <3>2
    <3>3. QED
      BY <3>1, <3>2
  <2>2. Min({a, b}) \in {a, b} /\ \A y \in {a, b} : Min({a, b}) <= y
    BY <2>1 DEF Min
  <2>3. QED
    BY <2>2
<1>2. Len(LockWaits) \in Nat \ {0} /\ \A i \in 1 .. Len(LockWaits) : LockWaits[i] \in Nat
  BY AppLockAssumption
<1>3. \A n \in Nat : n \div Tier \in Nat /\ 0 \div Tier = 0
  BY AppLockAssumption
<1>4. ASSUME NEW n \in Nat PROVE WaitAfter(n) \in Nat
  <2> DEFINE tier == n \div Tier + 1
  <2>1. tier \in Nat \ {0}
    BY <1>3
  <2> HIDE DEF tier
  <2>2. Min({tier, Len(LockWaits)}) \in 1 .. Len(LockWaits)
    <3>1. Min({tier, Len(LockWaits)}) \in {tier, Len(LockWaits)}
      BY <1>1, <1>2, <2>1
    <3>2. tier <= Len(LockWaits) => Min({tier, Len(LockWaits)}) = tier
      BY <1>1, <1>2, <2>1
    <3>3. CASE tier <= Len(LockWaits)
      BY <1>2, <2>1, <3>2, <3>3
    <3>4. CASE ~ (tier <= Len(LockWaits))
      <4>1. Min({tier, Len(LockWaits)}) = Len(LockWaits) \/ Min({tier, Len(LockWaits)}) = tier
        BY <3>1
      <4>2. Min({Len(LockWaits), tier}) = Len(LockWaits)
        BY <1>1, <1>2, <2>1, <3>4
      <4>3. {Len(LockWaits), tier} = {tier, Len(LockWaits)}
        OBVIOUS
      <4>4. Min({tier, Len(LockWaits)}) = Len(LockWaits)
        BY <4>2, <4>3
      <4>5. QED
        BY <1>2, <4>4
    <3>5. QED
      BY <3>3, <3>4
  <2>3. WaitAfter(n) = LockWaits[Min({tier, Len(LockWaits)})]
    BY Zenon DEF WaitAfter, tier
  <2>4. QED
    BY <1>2, <2>2, <2>3
<1>5. WaitAfter(0) = 0
  <2>1. Min({1, Len(LockWaits)}) = 1
    BY <1>1, <1>2
  <2>2. 0 \div Tier + 1 = 1
    BY <1>3
  <2>3. QED
    BY <2>1, <2>2, AppLockAssumption DEF WaitAfter
<1>6. QED
  BY <1>4, <1>5

\* One more wrong secret takes one more wait.
LEMMA PaceGrows ==
    ASSUME NEW n \in Nat
    PROVE  /\ Pace(n) \in Nat /\ WaitAfter(n) \in Nat
           /\ Pace(n + 1) = Pace(n) + WaitAfter(n)
<1>1. Weighs(1 .. n + 1, WaitBefore) /\ Weighs(1 .. n, WaitBefore)
  BY WaitsAreNatural DEF Weighs, WaitBefore
<1>2. IsFiniteSet(1 .. n)
  BY FS_Interval
<1>3. 1 .. n + 1 = (1 .. n) \cup {n + 1} /\ n + 1 \notin 1 .. n
  OBVIOUS
<1>4. Total((1 .. n) \cup {n + 1}, WaitBefore) = Total(1 .. n, WaitBefore) + WaitBefore[n + 1]
  <2>1. \A y : y \notin 1 .. n /\ Weighs((1 .. n) \cup {y}, WaitBefore)
               => Total((1 .. n) \cup {y}, WaitBefore) = Total(1 .. n, WaitBefore) + WaitBefore[y]
    BY <1>2, TotalAdd
  <2>2. Weighs((1 .. n) \cup {n + 1}, WaitBefore)
    BY <1>1, <1>3
  <2>3. QED
    BY <1>3, <2>1, <2>2
<1>5. WaitBefore[n + 1] = WaitAfter(n)
  BY DEF WaitBefore
<1>6. Total(1 .. n, WaitBefore) \in Nat
  BY <1>1, <1>2, UnitsAreFinite
<1>7. Pace(n + 1) = Total((1 .. n) \cup {n + 1}, WaitBefore) /\ Pace(n) = Total(1 .. n, WaitBefore)
  BY <1>3, Zenon DEF Pace
<1>8. QED
  BY <1>4, <1>5, <1>6, <1>7, WaitsAreNatural

LEMMA NoPace == Pace(0) = 0
<1>1. 1 .. 0 = {}
  OBVIOUS
<1>2. QED
  BY <1>1, TotalEmpty DEF Pace

\* The type part of LockInv that the steps share.
LEMMA LockStep == ~ DisableKill /\ LockInv /\ [LockNext]_lockVars => LockInv'
<1> SUFFICES ASSUME ~ DisableKill, LockInv, [LockNext]_lockVars PROVE LockInv'
  OBVIOUS
<1>1. /\ attempts.failures \in Nat /\ attempts.last \in Nat /\ lockClock \in Nat
      /\ guess.wrong \in Nat /\ guess.took \in Nat /\ guess.wrong = attempts.failures
      /\ lockClock <= MaxLockClock + MaxBack
      /\ MaxWrong \in Nat /\ MaxLockClock + MaxBack \in Nat /\ Since \in Nat
      /\ guess \in [wrong : Nat, took : Nat] /\ lockLeft \in [kills : Nat, back : Nat]
  BY SMTT(30), AppLockAssumption DEF LockInv, Since
<1>2. \A n \in Nat : Pace(n) \in Nat /\ WaitAfter(n) \in Nat /\ Pace(n + 1) = Pace(n) + WaitAfter(n)
  BY PaceGrows
<1>3. ASSUME NoteSuccess, UNCHANGED lockClock
      PROVE  /\ attempts' \in [failures : 0 .. MaxWrong, last : Nat]
             /\ guess' \in [wrong : Nat, took : Nat]
             /\ guess'.wrong = attempts'.failures
             /\ guess'.wrong > 0 => guess'.took >= Pace(guess'.wrong) + Since'
  BY <1>1, <1>3 DEF NoteSuccess, NoAttempts
<1>4. ASSUME NoteFailure, WaitSecs = 0, UNCHANGED lockClock
      PROVE  /\ attempts' \in [failures : 0 .. MaxWrong, last : Nat]
             /\ guess' \in [wrong : Nat, took : Nat]
             /\ guess'.wrong = attempts'.failures
             /\ guess'.wrong > 0 => guess'.took >= Pace(guess'.wrong) + Since'
  <2> DEFINE n == attempts.failures
  <2>1. /\ attempts' = [failures |-> n + 1, last |-> lockClock]
        /\ guess' = [guess EXCEPT !.wrong = @ + 1] /\ n < MaxWrong
    BY <1>4 DEF NoteFailure
  <2>2. guess'.wrong = n + 1 /\ guess'.took = guess.took
        /\ guess' \in [wrong : Nat, took : Nat]
    BY <1>1, <2>1
  <2>3. Since' = 0
    BY <1>1, <1>4, <2>1 DEF Since
  <2>4. Since >= WaitAfter(n)
    <3>1. WaitAfter(n) \in Nat /\ Since \in Nat
      BY <1>1, <1>2
    <3>2. (IF Since >= WaitAfter(n) THEN 0 ELSE WaitAfter(n) - Since) = 0
      BY <1>4 DEF WaitSecs
    <3>3. QED
      BY <3>1, <3>2
  <2>5. guess.took >= Pace(n + 1)
    <3>1. Pace(n) \in Nat /\ WaitAfter(n) \in Nat /\ Pace(n + 1) = Pace(n) + WaitAfter(n) /\ n \in Nat
      BY <1>1, <1>2
    <3>2. CASE n = 0
      <4>1. Pace(0 + 1) = Pace(0) + WaitAfter(0)
        BY <1>2
      <4>2. WaitAfter(0) = 0 /\ Pace(0) = 0
        BY NoPace, WaitsAreNatural
      <4>3. Pace(n + 1) = 0
        BY <3>1, <3>2, <4>2
      <4>4. QED
        BY <1>1, <4>3
    <3>3. CASE n > 0
      <4>1. guess.took >= Pace(n) + Since
        BY <1>1, <3>3 DEF LockInv
      <4> HIDE DEF n
      <4>2. QED
        BY <1>1, <2>4, <3>1, <4>1
    <3>4. QED
      BY <3>1, <3>2, <3>3
  <2>6. Pace(n + 1) \in Nat /\ n \in Nat
    <3>1. n \in Nat /\ n + 1 \in Nat
      BY <1>1
    <3> HIDE DEF n
    <3>2. QED
      BY <1>2, <3>1
  <2>7. attempts' \in [failures : 0 .. MaxWrong, last : Nat] /\ guess'.wrong = attempts'.failures
    <3>1. n + 1 \in 0 .. MaxWrong /\ lockClock \in Nat
      BY <1>1, <2>1, <2>6
    <3> HIDE DEF n
    <3>2. QED
      BY <2>1, <2>2, <3>1
  <2>8. guess'.took >= Pace(guess'.wrong) + Since'
    BY <1>1, <2>2, <2>3, <2>5, <2>6
  <2>9. QED
    BY <2>2, <2>7, <2>8
<1>5. ASSUME UNCHANGED <<attempts, guess, lockClock>>
      PROVE  /\ attempts' \in [failures : 0 .. MaxWrong, last : Nat]
             /\ guess' \in [wrong : Nat, took : Nat]
             /\ guess'.wrong = attempts'.failures
             /\ guess'.wrong > 0 => guess'.took >= Pace(guess'.wrong) + Since'
  BY <1>5 DEF LockInv, Since
<1>6. ASSUME NEW s \in Secrets, Unlock(s) PROVE LockInv'
  <2>1. \/ NoteSuccess /\ ram' = TRUE /\ UNCHANGED step
        \/ NoteSuccess /\ step' = "wipe" /\ UNCHANGED ram
        \/ NoteFailure /\ UNCHANGED <<ram, step>>
    BY <1>6 DEF Unlock
  <2>2. WaitSecs = 0 /\ step = "idle" /\ UNCHANGED <<lockFile, keystore, lockClock, lockLeft>>
    BY <1>6 DEF Unlock
  <2>3. QED
    BY <1>3, <1>4, <2>1, <2>2 DEF LockInv, IsLocked
<1>7. ASSUME NEW s \in Secrets, IsNormalSecret(s) PROVE LockInv'
  <2>1. NoteSuccess \/ NoteFailure
    BY <1>7 DEF IsNormalSecret
  <2>2. QED
    BY <1>3, <1>4, <1>7, <2>1 DEF LockInv, IsLocked, IsNormalSecret
<1>8. ASSUME NEW d \in Secrets, SetDuress(d) PROVE LockInv'
  <2>1. lockFile'.normal = lockFile.normal /\ lockFile.normal = Normal
        /\ lockFile' \in [normal : {"none", Normal}, duress : Secrets \cup {"none", "decoy"},
                          armed : BOOLEAN]
    BY <1>8 DEF LockInv, SetDuress
  <2>2. QED
    BY <1>3, <1>8, <2>1 DEF LockInv, IsLocked, SetDuress
<1>9. CASE ClearDuress \/ SetPassphrase
  <2>1. lockFile' = Fresh(Normal)
    BY <1>9 DEF ClearDuress, SetPassphrase, LockInv
  <2>2. lockFile'.normal = Normal
        /\ lockFile' \in [normal : {"none", Normal}, duress : Secrets \cup {"none", "decoy"},
                          armed : BOOLEAN]
    BY <2>1 DEF Fresh
  <2>3. QED
    BY <1>5, <1>9, <2>2 DEF LockInv, IsLocked, ClearDuress, SetPassphrase
<1>10. CASE DeleteKeystoreCopy
  BY <1>5, <1>10 DEF LockInv, IsLocked, DeleteKeystoreCopy
<1>11. ASSUME lockFile' = NoLock
       PROVE  ~ IsLocked' /\ lockFile' \in [normal : {"none", Normal},
                    duress : Secrets \cup {"none", "decoy"}, armed : BOOLEAN]
  BY <1>11 DEF NoLock, IsLocked
<1>12. CASE ClearPassphrase
  BY <1>3, <1>11, <1>12 DEF LockInv, ClearPassphrase
<1>13. CASE RestoreKeystoreCopy \/ LockStore
  BY <1>5, <1>13 DEF LockInv, IsLocked, RestoreKeystoreCopy, LockStore
<1>14. CASE DestroyLock
  BY <1>5, <1>11, <1>14 DEF LockInv, DestroyLock
<1>15. CASE Kill
  <2>1. /\ step \in {"idle", "enable"} /\ step' = "idle"
        /\ UNCHANGED <<lockFile, attempts, keystore, lockClock, guess>>
        /\ lockLeft' \in [kills : Nat, back : Nat]
    BY <1>1, <1>15 DEF Kill
  <2>2. QED
    BY <1>5, <2>1 DEF LockInv, IsLocked
<1>16. CASE Tick
  <2>1. lockClock' = lockClock + 1 /\ UNCHANGED <<lockFile, attempts, keystore, ram, step, lockLeft>>
        /\ lockClock < MaxLockClock + MaxBack
    BY <1>16 DEF Tick
  <2>2. /\ guess' \in [wrong : Nat, took : Nat] /\ guess'.wrong = guess.wrong
        /\ guess.wrong > 0 => guess'.took = guess.took + 1
    BY <1>1, <1>16 DEF Tick
  <2>3. Since' <= Since + 1 /\ Since' \in Nat
    BY <1>1, <2>1 DEF Since
  <2>4. guess.wrong > 0 => guess'.took >= Pace(guess.wrong) + Since'
    <3>1. Pace(guess.wrong) \in Nat
      BY <1>1, <1>2
    <3>2. guess.wrong > 0 => guess.took >= Pace(guess.wrong) + Since
      BY DEF LockInv
    <3>3. QED
      BY <1>1, <2>2, <2>3, <3>1, <3>2
  <2>5. lockClock' \in 0 .. MaxLockClock + MaxBack
    BY <1>1, <2>1
  <2>6. QED
    BY <2>1, <2>2, <2>4, <2>5 DEF LockInv, IsLocked
<1>17. CASE SetClockBack
  <2>1. lockClock' \in 0 .. lockClock - 1 /\ UNCHANGED <<lockFile, attempts, keystore, ram, step, guess>>
        /\ lockLeft' \in [kills : Nat, back : Nat]
    BY <1>1, <1>17 DEF SetClockBack
  <2>2. Since' <= Since /\ Since' \in Nat
    BY <1>1, <2>1 DEF Since
  <2>3. guess.wrong > 0 => guess.took >= Pace(guess.wrong) + Since'
    <3>1. Pace(guess.wrong) \in Nat
      BY <1>1, <1>2
    <3>2. guess.wrong > 0 => guess.took >= Pace(guess.wrong) + Since
      BY DEF LockInv
    <3>3. QED
      BY <1>1, <2>2, <3>1, <3>2
  <2>4. lockClock' \in 0 .. MaxLockClock + MaxBack
    BY <1>1, <2>1
  <2>5. QED
    BY <2>1, <2>3, <2>4 DEF LockInv, IsLocked
<1>18. CASE UNCHANGED lockVars
  BY <1>5, <1>18 DEF LockInv, IsLocked, lockVars
<1>19. QED
  BY <1>6, <1>7, <1>8, <1>9, <1>10, <1>12, <1>13, <1>14, <1>15, <1>16, <1>17, <1>18 DEF LockNext

\* The app lock never loses the store's key, and paces every series of wrong
\* secrets, across kills, a clock set back and the settings screen, as long as
\* no kill falls between the two steps of removing the passphrase.
THEOREM LockIsSafe == ~ DisableKill => (LockSpec => []LockHolds)
<1> SUFFICES ASSUME ~ DisableKill PROVE LockSpec => []LockHolds
  OBVIOUS
<1>1. ASSUME LockInit PROVE LockInv
  <2>1. lockFile = NoLock /\ ~ IsLocked
    BY <1>1 DEF LockInit, IsLocked
  <2>2. attempts = [failures |-> 0, last |-> 0] /\ guess = [wrong |-> 0, took |-> 0]
        /\ lockClock = MaxBack /\ lockLeft = [kills |-> MaxKills, back |-> MaxBack]
        /\ step = "idle" /\ keystore
    BY <1>1 DEF LockInit, NoAttempts
  <2>3. QED
    BY <2>1, <2>2, AppLockAssumption DEF LockInv, NoLock
<1>2. LockInv => LockHolds
  <2> SUFFICES ASSUME LockInv PROVE LockHolds
    OBVIOUS
  <2>1. LockTypeOK
    BY AppLockAssumption DEF LockInv, LockTypeOK
  <2>2. StoreKeyReachable
    BY DEF LockInv, StoreKeyReachable
  <2>3. GuessesArePaced
    <3>1. guess.wrong \in Nat /\ guess.took \in Nat /\ Pace(guess.wrong) \in Nat /\ Since \in Nat
      BY PaceGrows DEF LockInv, Since
    <3>2. CASE guess.wrong = 0
      BY <3>1, <3>2, NoPace DEF GuessesArePaced
    <3>3. CASE guess.wrong > 0
      BY <3>1, <3>3 DEF LockInv, GuessesArePaced
    <3>4. QED
      BY <3>1, <3>2, <3>3
  <2>4. QED
    BY <2>1, <2>2, <2>3 DEF LockHolds
<1>3. LockInv /\ [LockNext]_lockVars => LockInv'
  BY LockStep
<1>4. QED
  BY <1>1, <1>2, <1>3, PTL DEF LockSpec
-----------------------------------------------------------------------------
(* The paths to a contact.                                                 *)

Results == {"none", "local", "tor", "failed", "abandoned"}
PutPcs == {"idle", "exchange", "take", "dial", "write", "insert"}
PathCalls == [pc : {"idle", "local", "exchange", "take", "dial", "write", "insert"},
              fresh : BOOLEAN, rides : Nat, from : Nat, sends : Nat,
              result : Results]
Dialling == {t \in Threads : call[t].pc = "exchange"}
ProbeCount == IF probing THEN 1 ELSE 0

\* Local attempts are only begun while none has failed since the last lapse, so
\* those that have failed and those under way were all begun together.
PathInv ==
    /\ scene \in Scenes /\ call \in [Threads -> PathCalls]
    /\ opened \in Nat /\ opened <= scene.streams /\ warm \in 0 .. opened /\ dead \subseteq 1 .. opened
    /\ backoff \in BOOLEAN /\ probing \in BOOLEAN /\ misses \in Nat
    /\ \A t \in Threads : call[t].rides <= opened /\ call[t].from <= opened
    /\ FreshIsFresh
    /\ ~ backoff => misses = 0
    /\ misses + Cardinality(Dialling) + ProbeCount <= Cardinality(Threads) + 1

LEMMA DiallersAreCounted ==
    /\ IsFiniteSet(Dialling) /\ Cardinality(Dialling) \in Nat /\ Cardinality(Threads) \in Nat
    /\ Cardinality(Dialling) <= Cardinality(Threads)
BY PathsAssumption, FS_Subset, FS_CardinalityType DEF Dialling

\* The record of a send with its stream, place and result put down.
Put(r, n, pc, result) == [r EXCEPT !.rides = n, !.pc = pc, !.result = result]

LEMMA PutKeeps ==
    ASSUME NEW r \in PathCalls, NEW n \in Nat,
           NEW pc \in PutPcs,
           NEW result \in Results
    PROVE  /\ Put(r, n, pc, result) \in PathCalls
           /\ Put(r, n, pc, result).pc = pc /\ Put(r, n, pc, result).rides = n
           /\ Put(r, n, pc, result).from = r.from /\ Put(r, n, pc, result).fresh = r.fresh
BY DEF PathCalls, Put, PutPcs, Results

LEMMA PutIs ==
    ASSUME NEW r \in PathCalls, NEW n, NEW pc, NEW result
    PROVE  /\ [r EXCEPT !.rides = n, !.pc = pc] = Put(r, n, pc, r.result)
           /\ [r EXCEPT !.pc = pc] = Put(r, r.rides, pc, r.result)
           /\ [r EXCEPT !.pc = pc, !.result = result] = Put(r, r.rides, pc, result)
           /\ r.result \in Results /\ r.rides \in Nat
BY DEF PathCalls, Put, PutPcs, Results

\* A step of one thread that is not about the local path.
SendStep(t, k) ==
    /\ call' = [call EXCEPT ![t] = k] /\ call[t].pc # "exchange"
    /\ k.pc # "exchange" \/ misses = 0
    /\ opened' \in Nat /\ opened <= opened' /\ opened' <= scene.streams
    /\ warm' \in 0 .. opened' /\ k.rides <= opened' /\ k.from <= opened'
    /\ k.fresh /\ k.rides # 0 => k.rides > k.from
    /\ scene' = scene /\ dead' = dead /\ backoff' = backoff /\ probing' = probing
    /\ misses' = misses

LEMMA PathSend ==
    ASSUME PathInv, NEW t \in Threads, NEW k \in PathCalls, SendStep(t, k)
    PROVE  PathInv'
<1> USE DEF SendStep
<1>1. call' \in [Threads -> PathCalls] /\ call'[t] = k /\ \A u \in Threads \ {t} : call'[u] = call[u]
  BY DEF PathInv
<1>2. \A u \in Threads : call'[u].rides <= opened' /\ call'[u].from <= opened'
  <2>1. \A u \in Threads : call[u].rides \in Nat /\ call[u].from \in Nat
    BY DEF PathInv, PathCalls
  <2>2. \A u \in Threads : call[u].rides <= opened /\ call[u].from <= opened /\ opened \in Nat
    BY DEF PathInv
  <2>3. QED
    BY <1>1, <2>1, <2>2
<1>3. FreshIsFresh'
  BY <1>1 DEF PathInv, FreshIsFresh
<1>4. dead' \subseteq 1 .. opened'
  BY DEF PathInv
<1>5. misses' + Cardinality(Dialling') + ProbeCount' <= Cardinality(Threads) + 1
  <2>1. misses \in Nat /\ ProbeCount \in {0, 1} /\ ProbeCount' = ProbeCount
    BY DEF PathInv, ProbeCount
  <2>2. CASE k.pc # "exchange"
    <3>1. Dialling' = Dialling
      BY <1>1, <2>2 DEF Dialling
    <3>2. QED
      BY <2>1, <3>1 DEF PathInv
  <2>3. CASE misses = 0
    <3>1. Cardinality(Dialling') <= Cardinality(Threads) /\ Cardinality(Dialling') \in Nat
          /\ Cardinality(Threads) \in Nat
      BY PathsAssumption, FS_Subset, FS_CardinalityType DEF Dialling
    <3>2. QED
      BY <2>1, <2>3, <3>1
  <2>4. QED
    BY <2>2, <2>3
<1>6. QED
  BY <1>1, <1>2, <1>3, <1>4, <1>5 DEF PathInv

\* A step that leaves the threads' sends and the local path alone.
LEMMA PathAside ==
    ASSUME PathInv, warm' \in {0, warm}, dead' \subseteq 1 .. opened,
           UNCHANGED <<scene, call, opened, backoff, probing, misses>>
    PROVE  PathInv'
BY DEF PathInv, FreshIsFresh, Dialling, ProbeCount

\* The end of a local attempt, of a thread or of the probe.
LEMMA AttemptEnds ==
    ASSUME PathInv, NEW ok \in BOOLEAN, Record(ok), call' \in [Threads -> PathCalls],
           \A t \in Threads : /\ call'[t].fresh = call[t].fresh /\ call'[t].rides = call[t].rides
                              /\ call'[t].from = call[t].from,
           Cardinality(Dialling') + ProbeCount' + 1 = Cardinality(Dialling) + ProbeCount,
           Cardinality(Dialling') \in Nat, probing' \in BOOLEAN,
           UNCHANGED <<scene, warm, opened, dead>>
    PROVE  PathInv'
<1>1. FreshIsFresh'
  BY DEF PathInv, FreshIsFresh
<1>2. backoff' \in BOOLEAN /\ misses' \in Nat /\ (~ backoff' => misses' = 0)
  <2>1. misses \in Nat
    BY DEF PathInv
  <2>2. CASE ok = TRUE
    BY <2>1, <2>2 DEF Record
  <2>3. CASE ok = FALSE
    <3>1. backoff' = TRUE /\ backoff' \in BOOLEAN
      BY <2>3, Zenon DEF Record
    <3>2. misses' = misses + 1
      BY <2>3, Zenon DEF Record
    <3>3. QED
      BY <2>1, <3>1, <3>2
  <2>4. QED
    BY <2>2, <2>3
<1>3. misses' + Cardinality(Dialling') + ProbeCount' <= Cardinality(Threads) + 1
  <2>1. misses \in Nat /\ ProbeCount \in {0, 1} /\ ProbeCount' \in {0, 1}
    BY DEF PathInv, ProbeCount
  <2>2. misses + Cardinality(Dialling) + ProbeCount <= Cardinality(Threads) + 1
    BY DEF PathInv
  <2>3. misses' <= misses + 1 /\ misses' \in Nat
    BY <2>1 DEF Record
  <2>4. QED
    BY <2>1, <2>2, <2>3, DiallersAreCounted
<1>4. \A t \in Threads : call'[t].rides <= opened' /\ call'[t].from <= opened'
  BY DEF PathInv
<1>5. QED
  BY <1>1, <1>2, <1>3, <1>4 DEF PathInv

LEMMA PathStep == PathInv /\ [PathNext]_pathVars => PathInv'
<1> SUFFICES ASSUME PathInv, [PathNext]_pathVars PROVE PathInv'
  OBVIOUS
<1>1. /\ opened \in Nat /\ scene \in Scenes /\ scene.streams \in Nat /\ opened <= scene.streams
      /\ warm \in 0 .. opened /\ dead \subseteq 1 .. opened
      /\ call \in [Threads -> PathCalls]
      /\ backoff \in BOOLEAN /\ probing \in BOOLEAN /\ misses \in Nat
      /\ \A t \in Threads : call[t].rides <= opened /\ call[t].from <= opened
      /\ \A t \in Threads : call[t].fresh /\ call[t].rides # 0 => call[t].rides > call[t].from
      /\ \A t \in Threads : /\ call[t].rides \in Nat /\ call[t].from \in Nat /\ call[t].sends \in Nat
                            /\ call[t].fresh \in BOOLEAN /\ call[t] \in PathCalls
      /\ ~ backoff => misses = 0
  BY PathsAssumption DEF PathInv, FreshIsFresh, PathCalls
<1>0. \A t \in Threads : /\ call[t] \in PathCalls /\ call[t].rides \in Nat
                         /\ call[t].result \in Results
  BY <1>1, PutIs
<1>2. ASSUME NEW t \in Threads, NEW fresh \in BOOLEAN, StartSend(t, fresh) PROVE PathInv'
  <2> DEFINE k == [pc |-> "local", fresh |-> fresh, rides |-> 0, from |-> opened,
                   sends |-> call[t].sends + 1, result |-> "none"]
  <2>1. call' = [call EXCEPT ![t] = k] /\ call[t].pc = "idle"
        /\ UNCHANGED <<scene, warm, opened, dead, backoff, probing, misses>>
    BY <1>2 DEF StartSend
  <2>2. k \in PathCalls /\ k.pc = "local" /\ k.rides = 0 /\ k.from = opened
    BY <1>1 DEF PathCalls, Results
  <2> HIDE DEF k
  <2>3. SendStep(t, k)
    BY <1>1, <2>1, <2>2 DEF SendStep
  <2>4. QED
    BY <2>2, <2>3, PathSend
<1>3. ASSUME NEW t \in Threads, NEW pc \in PutPcs,
             NEW result \in Results,
             call' = [call EXCEPT ![t] = Put(call[t], call[t].rides, pc, result)],
             call[t].pc # "exchange", pc # "exchange" \/ misses = 0, warm' \in 0 .. opened,
             UNCHANGED <<scene, opened, dead, backoff, probing, misses>>
      PROVE  PathInv'
  <2> DEFINE k == Put(call[t], call[t].rides, pc, result)
  <2>1. /\ k \in PathCalls /\ k.pc = pc /\ k.rides = call[t].rides /\ k.from = call[t].from
        /\ k.fresh = call[t].fresh
    BY <1>0, PutKeeps
  <2>2. call' = [call EXCEPT ![t] = k]
    BY <1>3
  <2> HIDE DEF k
  <2>3. SendStep(t, k)
    <3>1. k.rides <= opened /\ k.from <= opened /\ (k.fresh /\ k.rides # 0 => k.rides > k.from)
      BY <1>1, <2>1
    <3>2. opened <= opened
      BY <1>1
    <3>3. QED
      BY <1>1, <1>3, <2>1, <2>2, <3>1, <3>2 DEF SendStep
  <2>4. QED
    BY <2>1, <2>3, PathSend
<1>4. ASSUME NEW t \in Threads, NEW pc \in PutPcs,
             Goes(t, pc)
      PROVE  call' = [call EXCEPT ![t] = Put(call[t], call[t].rides, pc, call[t].result)]
             /\ call[t].result \in Results
  <2>1. call' = [call EXCEPT ![t] = [call[t] EXCEPT !.pc = pc]]
    BY <1>1, <1>4 DEF Goes
  <2>2. [call[t] EXCEPT !.pc = pc]
            = Put(call[t], call[t].rides, pc, call[t].result)
        /\ call[t].result \in Results
    BY <1>1, PutIs
  <2>3. QED
    BY <2>1, <2>2
<1>5. ASSUME NEW t \in Threads, NEW result \in Results,
             Ends(t, result)
      PROVE  call' = [call EXCEPT ![t] = Put(call[t], call[t].rides, "idle", result)]
  <2>1. call' = [call EXCEPT ![t] = [call[t] EXCEPT !.pc = "idle", !.result = result]]
    BY <1>1, <1>5 DEF Ends
  <2>2. [call[t] EXCEPT !.pc = "idle", !.result = result]
            = Put(call[t], call[t].rides, "idle", result)
    BY <1>0 DEF PathCalls, Put
  <2>3. QED
    BY <2>1, <2>2
<1>6. ASSUME NEW t \in Threads, SkipLocal(t) PROVE PathInv'
  <2>1. /\ Goes(t, "take") /\ call[t].pc = "local" /\ warm' = warm
        /\ UNCHANGED <<scene, opened, dead, backoff, probing, misses>>
    BY <1>6 DEF SkipLocal
  <2>2. QED
    BY <1>1, <1>3, <1>4, <2>1 DEF PutPcs
<1>7. ASSUME NEW t \in Threads, DialLocal(t) PROVE PathInv'
  <2>1. /\ Goes(t, "exchange") /\ call[t].pc = "local" /\ warm' = warm /\ ~ backoff
        /\ UNCHANGED <<scene, opened, dead, backoff, probing, misses>>
    BY <1>7 DEF DialLocal, LocalUsable
  <2>2. QED
    BY <1>1, <1>3, <1>4, <2>1 DEF PutPcs
<1>8. ASSUME NEW t \in Threads, NEW pc \in PutPcs \ {"exchange"},
             NEW result \in Results, NEW ok \in BOOLEAN,
             call[t].pc = "exchange", Record(ok),
             call' = [call EXCEPT ![t] = Put(call[t], call[t].rides, pc, result)],
             UNCHANGED <<scene, warm, opened, dead, probing>>
      PROVE  PathInv'
  <2> DEFINE k == Put(call[t], call[t].rides, pc, result)
  <2>1. /\ k \in PathCalls /\ k.pc = pc /\ k.rides = call[t].rides /\ k.from = call[t].from
        /\ k.fresh = call[t].fresh
    BY <1>0, PutKeeps
  <2>2. call' = [call EXCEPT ![t] = k]
    BY <1>8
  <2> HIDE DEF k
  <2>3. call' \in [Threads -> PathCalls] /\ call'[t] = k /\ \A u \in Threads \ {t} : call'[u] = call[u]
    BY <1>1, <2>1, <2>2
  <2>4. Dialling' = Dialling \ {t} /\ t \in Dialling
    BY <1>8, <2>1, <2>3 DEF Dialling
  <2>5. Cardinality(Dialling') = Cardinality(Dialling) - 1 /\ Cardinality(Dialling') \in Nat
    BY <2>4, DiallersAreCounted, FS_RemoveElement, FS_CardinalityType
  <2>6. ProbeCount' = ProbeCount /\ ProbeCount \in {0, 1}
    BY <1>1, <1>8 DEF ProbeCount
  <2>7. Cardinality(Dialling') + ProbeCount' + 1 = Cardinality(Dialling) + ProbeCount
    BY <2>5, <2>6, DiallersAreCounted
  <2>8. \A u \in Threads : /\ call'[u].fresh = call[u].fresh /\ call'[u].rides = call[u].rides
                           /\ call'[u].from = call[u].from
    BY <2>1, <2>3
  <2>9. QED
    BY <1>1, <1>8, <2>3, <2>5, <2>7, <2>8, AttemptEnds
<1>9. ASSUME NEW t \in Threads, LocalOk(t) PROVE PathInv'
  BY <1>5, <1>8, <1>9 DEF LocalOk, PutPcs, Results
<1>10. ASSUME NEW t \in Threads, LocalFails(t) PROVE PathInv'
  <2>1. /\ Goes(t, "take") /\ call[t].pc = "exchange" /\ Record(FALSE)
        /\ UNCHANGED <<scene, warm, opened, dead, probing>>
    BY <1>10 DEF LocalFails
  <2>2. "take" \in PutPcs \ {"exchange"} /\ "take" \in PutPcs
    BY DEF PutPcs
  <2>3. call' = [call EXCEPT ![t] = Put(call[t], call[t].rides, "take", call[t].result)]
        /\ call[t].result \in Results
    BY <1>4, <2>1, <2>2
  <2>4. QED
    BY <1>8, <2>1, <2>2, <2>3
<1>11. ASSUME NEW t \in Threads, TakeStream(t) PROVE PathInv'
  <2>1. CASE closing
    BY <1>1, <1>3, <1>5, <1>11, <2>1 DEF TakeStream, PutPcs, Results
  <2>2. CASE ~ closing
    <3> DEFINE pc == IF Reused(t) = 0 THEN "dial" ELSE "write"
               k == Put(call[t], Reused(t), pc, call[t].result)
    <3>1. Reused(t) \in 0 .. opened /\ (call[t].fresh => Reused(t) = 0)
      BY <1>1 DEF Reused
    <3>2. pc \in {"dial", "write"}
      OBVIOUS
    <3> HIDE DEF pc
    <3>3. /\ k \in PathCalls /\ k.pc = pc /\ k.rides = Reused(t) /\ k.from = call[t].from
          /\ k.fresh = call[t].fresh
      <4>1. Reused(t) \in Nat
        BY <1>1, <3>1
      <4>2. pc \in PutPcs
        BY <3>2 DEF PutPcs
      <4>3. QED
        BY <1>0, <4>1, <4>2, PutKeeps
    <3>4. call' = [call EXCEPT ![t] = k] /\ call[t].pc = "take" /\ warm' = 0
          /\ UNCHANGED <<scene, opened, dead, backoff, probing, misses>>
      <4>1. call' = [call EXCEPT ![t] = [call[t] EXCEPT !.rides = Reused(t), !.pc = pc]]
        BY <1>1, <1>11, <2>2 DEF TakeStream, pc
      <4>2. [call[t] EXCEPT !.rides = Reused(t), !.pc = pc] = k
        BY <1>0, PutIs
      <4>3. QED
        BY <1>11, <2>2, <4>1, <4>2 DEF TakeStream
    <3> HIDE DEF k
    <3>5. SendStep(t, k)
      <4>1. k.rides <= opened /\ k.from <= opened /\ ~ (k.fresh /\ k.rides # 0)
        BY <1>1, <3>1, <3>3
      <4>2. opened <= opened /\ 0 \in 0 .. opened
        BY <1>1
      <4>3. QED
        BY <1>1, <3>2, <3>3, <3>4, <4>1, <4>2 DEF SendStep
    <3>6. QED
      BY <3>3, <3>5, PathSend
  <2>3. QED
    BY <2>1, <2>2
<1>12. ASSUME NEW t \in Threads, NEW ok \in BOOLEAN, WriteWarm(t, ok) PROVE PathInv'
  <2>1. /\ call[t].pc = "write" /\ warm' = warm
        /\ UNCHANGED <<scene, opened, dead, backoff, probing, misses>>
    BY <1>12 DEF WriteWarm
  <2>2. CASE ok
    <3>1. Goes(t, "insert")
      BY <1>12, <2>2 DEF WriteWarm
    <3>2. QED
      BY <1>1, <1>3, <1>4, <2>1, <3>1 DEF PutPcs
  <2>3. CASE ~ ok
    <3>1. Goes(t, "dial")
      BY <1>12, <2>3 DEF WriteWarm
    <3>2. QED
      BY <1>1, <1>3, <1>4, <2>1, <3>1 DEF PutPcs
  <2>4. QED
    BY <2>2, <2>3
<1>13. ASSUME NEW t \in Threads, DialOk(t) PROVE PathInv'
  <2> DEFINE k == Put(call[t], opened + 1, "insert", call[t].result)
  <2>1. /\ k \in PathCalls /\ k.pc = "insert" /\ k.rides = opened + 1 /\ k.from = call[t].from
        /\ k.fresh = call[t].fresh
    <3>1. opened + 1 \in Nat
      BY <1>1
    <3>2. "insert" \in PutPcs
      BY DEF PutPcs
    <3>3. QED
      BY <1>0, <3>1, <3>2, PutKeeps
  <2>2. call' = [call EXCEPT ![t] = k] /\ call[t].pc = "dial" /\ opened' = opened + 1
        /\ opened < scene.streams /\ UNCHANGED <<scene, warm, dead, backoff, probing, misses>>
    <3>1. call' = [call EXCEPT ![t] = [call[t] EXCEPT !.rides = opened + 1, !.pc = "insert"]]
      BY <1>1, <1>13 DEF DialOk
    <3>2. [call[t] EXCEPT !.rides = opened + 1, !.pc = "insert"] = k
      BY <1>0, PutIs
    <3>3. QED
      BY <1>13, <3>1, <3>2 DEF DialOk
  <2> HIDE DEF k
  <2>3. k.rides > k.from /\ k.rides <= opened' /\ k.from <= opened' /\ opened' \in Nat
        /\ opened' <= scene.streams /\ opened <= opened' /\ warm' \in 0 .. opened'
    BY <1>1, <2>1, <2>2
  <2>4. SendStep(t, k)
    BY <1>1, <2>1, <2>2, <2>3 DEF SendStep
  <2>5. QED
    BY <2>1, <2>4, PathSend
<1>14. ASSUME NEW t \in Threads, TorDialFails(t) \/ AbandonSend(t) PROVE PathInv'
  BY <1>1, <1>3, <1>5, <1>14 DEF TorDialFails, AbandonSend, PutPcs, Results
<1>15. ASSUME NEW t \in Threads, InsertStream(t) PROVE PathInv'
  <2>1. call[t].rides \in 0 .. opened
    BY <1>1
  <2>2. QED
    BY <1>3, <1>5, <1>15, <2>1 DEF InsertStream, PutPcs, Results
<1>16. ASSUME NEW s \in 1 .. scene.streams, CircuitDies(s) PROVE PathInv'
  BY <1>1, <1>16, PathAside DEF CircuitDies
<1>17. ASSUME ReapIdle \/ CloseTransport \/ ReaperExits \/ (\E r : SetRoute(r))
              \/ (\E list : SetLocalAddresses(list)) \/ UNCHANGED pathVars
       PROVE  PathInv'
  BY <1>1, <1>17, PathAside
     DEF ReapIdle, CloseTransport, ReaperExits, SetRoute, SetLocalAddresses, pathVars
<1>18. CASE BackoffLapses \/ StartProbe
  <2>1. UNCHANGED <<scene, call, warm, opened, dead>> /\ misses' = 0 /\ misses' \in Nat
        /\ backoff' \in BOOLEAN /\ probing' \in BOOLEAN
    <3>1. CASE BackoffLapses
      BY <1>1, <3>1 DEF BackoffLapses
    <3>2. CASE StartProbe
      BY <1>1, <3>2 DEF StartProbe, LocalUsable
    <3>3. QED
      BY <1>18, <3>1, <3>2
  <2>2. ProbeCount' \in {0, 1} /\ Dialling' = Dialling
    BY <2>1 DEF ProbeCount, Dialling
  <2>3. misses' + Cardinality(Dialling') + ProbeCount' <= Cardinality(Threads) + 1
    BY <2>1, <2>2, DiallersAreCounted
  <2>4. FreshIsFresh'
    BY <1>1, <2>1 DEF FreshIsFresh
  <2>5. QED
    BY <1>1, <2>1, <2>3, <2>4 DEF PathInv
<1>19. ASSUME NEW ok \in BOOLEAN, EndProbe(ok) PROVE PathInv'
  <2>1. probing /\ ~ probing' /\ probing' \in BOOLEAN /\ Record(ok)
        /\ UNCHANGED <<scene, call, warm, opened, dead>>
    BY <1>19 DEF EndProbe
  <2>2. ProbeCount' = 0 /\ ProbeCount = 1 /\ Dialling' = Dialling
    BY <2>1 DEF ProbeCount, Dialling
  <2>3. Cardinality(Dialling') + ProbeCount' + 1 = Cardinality(Dialling) + ProbeCount
        /\ Cardinality(Dialling') \in Nat
    BY <2>2, DiallersAreCounted
  <2>4. QED
    BY <1>1, <2>1, <2>3, AttemptEnds
<1>20. QED
  BY <1>2, <1>6, <1>7, <1>9, <1>10, <1>11, <1>12, <1>13, <1>14, <1>15, <1>16, <1>17, <1>18, <1>19
     DEF PathNext

\* A fresh send rides a stream opened after it was asked for, and a back-off
\* sees no more failures than there were threads and a probe, whatever the
\* threads, the reaper and the dying circuits do.
THEOREM PathsAreKept == PathSpec => []PathsHold
<1>1. PathInit => PathInv
  <2> SUFFICES ASSUME PathInit PROVE PathInv
    OBVIOUS
  <2>1. /\ scene \in Scenes /\ scene.streams \in Nat /\ opened = 0 /\ warm = 0 /\ dead = {}
        /\ ~ backoff /\ backoff \in BOOLEAN /\ ~ probing /\ probing \in BOOLEAN /\ misses = 0
        /\ call = [t \in Threads |-> AtRest]
    BY PathsAssumption DEF PathInit
  <2>2. AtRest \in PathCalls /\ AtRest.rides = 0 /\ AtRest.from = 0 /\ AtRest.pc = "idle"
    BY DEF AtRest, PathCalls, Results
  <2>3. Dialling = {} /\ ProbeCount = 0
    BY <2>1, <2>2 DEF Dialling, ProbeCount
  <2>4. misses + Cardinality(Dialling) + ProbeCount <= Cardinality(Threads) + 1
    BY <2>1, <2>3, DiallersAreCounted, FS_EmptySet
  <2>5. FreshIsFresh
    BY <2>1, <2>2 DEF FreshIsFresh
  <2>6. QED
    BY <2>1, <2>2, <2>4, <2>5 DEF PathInv
<1>2. PathInv => PathsHold
  <2> SUFFICES ASSUME PathInv PROVE PathsHold
    OBVIOUS
  <2>1. PathTypeOK
    BY PathsAssumption DEF PathInv, PathCalls, PathTypeOK
  <2>2. BackoffHolds
    <3>1. misses \in Nat /\ ProbeCount \in {0, 1}
      BY DEF PathInv, ProbeCount
    <3>2. misses + Cardinality(Dialling) + ProbeCount <= Cardinality(Threads) + 1
      BY DEF PathInv
    <3>3. QED
      BY <3>1, <3>2, DiallersAreCounted DEF BackoffHolds
  <2>3. QED
    BY <2>1, <2>2 DEF PathsHold, PathInv
<1>3. QED
  BY <1>1, <1>2, PathStep, PTL DEF PathSpec

----------------------------------------------------------------------------
(* The onion identity.                                                     *)

\* A restore that takes no key adopts what is in arti's keystore, so a case
\* with such restores has wipes that leave none behind.
CleanKeystore == \A c \in OnionCases : c.restores \cap {"bare", "server"} # {} =>
                                          \A w \in c.leaves : "arti" \notin w

LEMMA OnionStarts == OnionInit => OnionInv
<1> SUFFICES ASSUME OnionInit PROVE OnionInv
  OBVIOUS
<1> USE OnionKeyAssumption
<1>1. PICK old, elsewhere \in BOOLEAN :
        LET one == [id |-> 1, addr |-> 1]
            two == [id |-> 2, addr |-> 2]
        IN  /\ state = (IF old THEN one ELSE None) /\ arti = (IF old THEN 1 ELSE 0)
            /\ backup = (IF elsewhere THEN two ELSE None)
            /\ toldAddress = [i \in 1 .. MaxIds |-> IF (i = 1 /\ old) \/ (i = 2 /\ elsewhere) THEN i ELSE 0]
            /\ onionsMade = LET n == IF elsewhere THEN 2 ELSE IF old THEN 1 ELSE 0 IN
                            [ids |-> n, addrs |-> n, starts |-> 0]
  BY DEF OnionInit
<1>2. run = Off /\ sealed = None /\ means \in OnionCases
  BY DEF OnionInit
<1>3. OnionTypeOK
  BY <1>1, <1>2 DEF OnionTypeOK, None, Off, Ids, Addrs
<1>4. OnionRange
  BY <1>1, <1>2 DEF OnionRange, Ids, Addrs
<1>5. StateOwned
  BY <1>1, <1>2 DEF StateOwned, Restoring, OwnedBy, None
<1>6. BackupOwned
  BY <1>1, <1>2 DEF BackupOwned, OwnedBy, None
<1>7. RunOwned
  BY <1>2 DEF RunOwned, Off
<1>8. KeystoreOwned
  BY <1>1, <1>2 DEF KeystoreOwned, Restoring, None
<1> QED
  BY <1>3, <1>4, <1>5, <1>6, <1>7, <1>8 DEF OnionInv

\* Whom a start comes up as, and on what: the owner of its address, whatever
\* it started from.
OnionUp(id, addr, saved, disk) ==
    /\ run.pc = "off" /\ run' = [pc |-> "seal", id |-> id, addr |-> addr, saved |-> saved]
    /\ Counted(id, addr) /\ arti' = disk
    /\ UNCHANGED <<state, sealed, toldAddress, backup, means>>

LEMMA OnionComesUp ==
    ASSUME OnionInv, NEW id \in Nat, NEW addr \in Nat, NEW saved \in BOOLEAN, NEW disk \in Addrs,
           OnionUp(id, addr, saved, disk), id # 0, addr # 0,
           disk <= onionsMade.addrs,
           \A i \in 1 .. MaxIds : i # id => toldAddress[i] # addr,
           backup # None /\ backup.id # id => addr # backup.addr,
           Restoring => state = [id |-> id, addr |-> addr] /\ (sealed = state \/ disk = arti),
           saved => sealed = [id |-> id, addr |-> addr],
           ~Restoring /\ disk # 0 /\ means.restores \cap {"bare", "server"} # {} => disk = backup.addr
    PROVE  OnionInv'
<1> USE OnionKeyAssumption
<1>1. /\ onionsMade' \in [ids : Ids, addrs : Addrs, starts : Nat]
      /\ onionsMade.ids <= onionsMade'.ids /\ id <= onionsMade'.ids
      /\ onionsMade.addrs <= onionsMade'.addrs /\ addr <= onionsMade'.addrs
  BY DEF OnionUp, Counted, OnionInv, OnionRange, Ids, Addrs
<1>2. id \in Ids /\ addr \in Addrs
  BY DEF OnionUp, Counted, Ids, Addrs
<1>3. OnionTypeOK'
  BY <1>2 DEF OnionUp, OnionInv, OnionTypeOK
<1>4. OnionRange'
  <2>1. arti' <= onionsMade'.addrs
    BY <1>1 DEF OnionUp, OnionInv, OnionRange, Addrs
  <2>2. ASSUME NEW i \in 1 .. MaxIds
        PROVE  /\ toldAddress[i] <= onionsMade'.addrs
               /\ i > onionsMade'.ids => toldAddress[i] = 0
    <3>1. toldAddress[i] <= onionsMade.addrs /\ (i > onionsMade.ids => toldAddress[i] = 0)
      BY DEF OnionInv, OnionRange
    <3>2. toldAddress[i] \in Nat /\ onionsMade.addrs \in Nat /\ onionsMade.ids \in Nat
      <4>1. toldAddress \in [1 .. MaxIds -> Addrs]
        BY DEF OnionInv, OnionTypeOK
      <4>2. onionsMade \in [ids : Ids, addrs : Addrs, starts : Nat]
        BY DEF OnionInv, OnionRange
      <4> QED
        BY <4>1, <4>2 DEF Ids, Addrs
    <3>3. onionsMade'.addrs \in Nat /\ onionsMade'.ids \in Nat
      BY <1>1 DEF Addrs, Ids
    <3> QED
      BY <1>1, <3>1, <3>2, <3>3
  <2> QED
    BY <1>1, <2>1, <2>2 DEF OnionUp, OnionInv, OnionRange
<1>5. \A i, a \in Nat : OwnedBy(i, a) => OwnedBy(i, a)'
  BY <1>1 DEF OwnedBy, OnionUp, OnionInv, OnionRange, Ids, Addrs
<1>6. StateOwned'
  BY <1>5 DEF OnionUp, OnionInv, StateOwned, Restoring, OnionTypeOK, Ids, Addrs
<1>7. BackupOwned'
  BY SMTT(30), <1>5 DEF OnionUp, OnionInv, BackupOwned, OnionTypeOK, Ids, Addrs
<1>8. RunOwned'
  BY <1>1 DEF OnionUp, RunOwned, OwnedBy, Restoring, Ids, Addrs
<1>9. KeystoreOwned'
  BY DEF OnionUp, KeystoreOwned, Restoring
<1> QED
  BY <1>3, <1>4, <1>6, <1>7, <1>8, <1>9 DEF OnionInv

LEMMA OnionStep ==
    ASSUME OnionInv, CleanKeystore, [OnionNext]_okVars
    PROVE  OnionInv'
<1> USE OnionKeyAssumption
<1>1. /\ state \in [id : Ids, addr : Addrs] /\ sealed \in [id : Ids, addr : Addrs]
      /\ backup \in [id : Ids, addr : Addrs] /\ arti \in Addrs
      /\ run \in [pc : {"off", "seal", "save", "on"}, id : Ids, addr : Addrs, saved : BOOLEAN]
      /\ toldAddress \in [1 .. MaxIds -> Addrs]
      /\ onionsMade \in [ids : Ids, addrs : Addrs, starts : Nat]
  BY DEF OnionInv, OnionTypeOK, OnionRange
<1>n. /\ onionsMade.ids \in Nat /\ onionsMade.addrs \in Nat /\ arti \in Nat
       /\ state.id \in Nat /\ state.addr \in Nat /\ backup.id \in Nat /\ backup.addr \in Nat
       /\ run.id \in Nat /\ run.addr \in Nat /\ run.id <= MaxIds /\ run.addr <= MaxAddr
       /\ 0 \in Addrs /\ 0 \in Ids
       /\ \A i \in 1 .. MaxIds : toldAddress[i] \in Nat
  BY SMTT(30), <1>1 DEF Ids, Addrs
<1>2. /\ onionsMade.addrs + 1 \in Nat /\ onionsMade.addrs + 1 # 0
      /\ onionsMade.ids + 1 \in Nat /\ onionsMade.ids + 1 # 0
  BY <1>n
<1>3. \A i \in 1 .. MaxIds : toldAddress[i] # onionsMade.addrs + 1
  BY SMTT(30), <1>1, <1>n DEF OnionInv, OnionRange
<1>4. backup # None => backup.addr # onionsMade.addrs + 1 /\ backup.id # onionsMade.ids + 1
  BY SMTT(30), <1>1, <1>n DEF OnionInv, BackupOwned, OwnedBy
<1>5. CASE StartTor
  <2> DEFINE id == IF Restoring THEN state.id ELSE onionsMade.ids + 1
             addr == Bootstrap(IF HaveSealed THEN sealed.addr ELSE 0, KeystoreAfterDrop)
  <2>1. CASE Restoring
    <3>1. /\ OwnedBy(state.id, state.addr) /\ toldAddress[state.id] = state.addr
          /\ sealed = state \/ (sealed = None /\ arti = state.addr)
          /\ state.addr # 0 /\ state.id # 0
      BY <1>1, <1>n, <2>1 DEF OnionInv, StateOwned, OwnedBy
    <3>2. addr = state.addr /\ id = state.id
      BY <2>1, <3>1, <1>1 DEF Bootstrap, HaveSealed, KeystoreAfterDrop, None, Restoring
    <3>3. OnionUp(state.id, state.addr, HaveSealed, KeystoreAfterDrop)
      BY <1>5, <3>2 DEF StartTor, OnionUp, Starting
    <3>4. state.id \in Nat /\ state.addr \in Nat /\ HaveSealed \in BOOLEAN /\ KeystoreAfterDrop \in Addrs
      BY <1>1, <1>n DEF HaveSealed, KeystoreAfterDrop
    <3>5. KeystoreAfterDrop <= onionsMade.addrs
      BY <1>1, <1>n DEF KeystoreAfterDrop, OnionInv, OnionRange
    <3>6. \A i \in 1 .. MaxIds : i # state.id => toldAddress[i] # state.addr
      BY <3>1 DEF OwnedBy
    <3>7. backup # None /\ backup.id # state.id => state.addr # backup.addr
      <4>1. state.id \in 1 .. MaxIds
        BY <1>1, <1>n, <3>1 DEF OwnedBy, Ids
      <4> QED
        BY <3>1, <4>1 DEF OnionInv, BackupOwned, OwnedBy
    <3>8. /\ state = [id |-> state.id, addr |-> state.addr] /\ (sealed = state \/ KeystoreAfterDrop = arti)
          /\ HaveSealed => sealed = [id |-> state.id, addr |-> state.addr]
      BY <1>1, <1>n, <2>1, <3>1 DEF HaveSealed, KeystoreAfterDrop
    <3> QED
      BY <2>1, <3>1, <3>3, <3>4, <3>5, <3>6, <3>7, <3>8, OnionComesUp
  <2>2. CASE ~Restoring
    <3>1. KeystoreAfterDrop = 0 /\ HaveSealed = FALSE
      BY <2>2 DEF KeystoreAfterDrop, HaveSealed
    <3>2. addr = onionsMade.addrs + 1 /\ id = onionsMade.ids + 1
      BY <2>2, <3>1 DEF Bootstrap
    <3>3. OnionUp(onionsMade.ids + 1, onionsMade.addrs + 1, FALSE, 0)
      BY <1>5, <3>1, <3>2 DEF StartTor, OnionUp, Starting
    <3>4. 0 <= onionsMade.addrs
      BY <1>1, <1>n
    <3> QED
      <4> DEFINE i == onionsMade.ids + 1
                 a == onionsMade.addrs + 1
      <4>1. i \in Nat /\ a \in Nat /\ i # 0 /\ a # 0 /\ OnionUp(i, a, FALSE, 0) /\ 0 \in Addrs
        BY <1>2, <1>n, <3>3
      <4>2. \A j \in 1 .. MaxIds : j # i => toldAddress[j] # a
        BY <1>3
      <4>3. backup # None /\ backup.id # i => a # backup.addr
        BY <1>4
      <4> HIDE DEF i, a
      <4> QED
        BY <2>2, <3>4, <4>1, <4>2, <4>3, OnionComesUp
  <2> QED
    BY <2>1, <2>2
<1>6. ASSUME NEW disk \in Addrs, NEW addr \in Nat, ~Restoring, backup # None,
             OnionUp(backup.id, addr, FALSE, disk),
             disk = arti \/ disk = backup.addr,
             \/ addr = backup.addr
             \/ addr = onionsMade.addrs + 1
      PROVE  OnionInv'
  <2>1. backup.id \in Nat /\ backup.id # 0 /\ backup.addr # 0 /\ backup.addr <= onionsMade.addrs
    BY SMTT(30), <1>1, <1>n, <1>6 DEF OnionInv, BackupOwned, OwnedBy
  <2>2. \A i \in 1 .. MaxIds : i # backup.id => toldAddress[i] # addr
    BY <1>3, <1>6 DEF OnionInv, BackupOwned, OwnedBy
  <2>3. disk <= onionsMade.addrs
    BY <1>6, <2>1 DEF OnionInv, OnionRange
  <2>4. disk # 0 /\ means.restores \cap {"bare", "server"} # {} => disk = backup.addr
    BY <1>6 DEF OnionInv, KeystoreOwned
  <2> QED
    BY <1>2, <1>6, <2>1, <2>2, <2>3, <2>4, OnionComesUp
<1>7. ASSUME ~Restoring, arti # 0, means.restores \cap {"bare", "server"} # {}
      PROVE  arti = backup.addr
  BY <1>7 DEF OnionInv, KeystoreOwned
<1>8. CASE RestoreOnion
  <2>1. PICK kind \in means.restores \ {"server"} :
            LET disk == IF kind = "old" THEN backup.addr ELSE arti
                addr == Bootstrap(IF kind = "file" THEN backup.addr ELSE 0, disk) IN
            /\ run.pc = "off" /\ ~Restoring /\ backup # None
            /\ Counted(backup.id, addr) /\ arti' = disk
            /\ Starting(backup.id, addr, FALSE)
            /\ UNCHANGED <<state, sealed, toldAddress, backup, means>>
    BY <1>8 DEF RestoreOnion
  <2> DEFINE disk == IF kind = "old" THEN backup.addr ELSE arti
             addr == Bootstrap(IF kind = "file" THEN backup.addr ELSE 0, disk)
  <2>2. OnionUp(backup.id, addr, FALSE, disk) /\ ~Restoring /\ backup # None
    BY <2>1 DEF OnionUp, Starting
  <2>3. backup.addr # 0
    BY <1>1, <1>n, <2>2 DEF OnionInv, BackupOwned, OwnedBy
  <2>4. kind \in {"file", "old", "bare"}
    <3>1. means.restores \subseteq {"file", "old", "bare", "server"}
      BY DEF OnionInv, OnionRange
    <3> QED
      BY <3>1
  <2>5. addr = backup.addr \/ addr = onionsMade.addrs + 1
    BY <1>7, <2>2, <2>3, <2>4 DEF Bootstrap
  <2>6. disk \in Addrs /\ addr \in Nat /\ (disk = arti \/ disk = backup.addr)
    <3>1. addr \in Nat
      BY <1>n, <1>2, <2>5
    <3>2. disk \in Addrs /\ (disk = arti \/ disk = backup.addr)
      BY <1>1
    <3> QED
      BY <3>1, <3>2
  <2> HIDE DEF disk, addr
  <2> QED
    BY <1>6, <2>2, <2>5, <2>6
<1>9. CASE RestoreServerBackup
  <2> DEFINE addr == Bootstrap(0, arti)
  <2>1. OnionUp(backup.id, addr, FALSE, arti) /\ ~Restoring /\ backup # None
    BY <1>9 DEF RestoreServerBackup, OnionUp, Starting
  <2>2. addr = backup.addr \/ addr = onionsMade.addrs + 1
    BY <1>7, <1>9 DEF RestoreServerBackup, Bootstrap
  <2>3. addr \in Nat
    BY <1>1, <1>n, <1>2, <2>2
  <2> HIDE DEF addr
  <2> QED
    BY <1>1, <1>n, <1>6, <2>1, <2>2, <2>3
<1>t. OnionTypeOK' <=> /\ state' \in [id : Ids, addr : Addrs] /\ sealed' \in [id : Ids, addr : Addrs]
                        /\ backup' \in [id : Ids, addr : Addrs] /\ arti' \in Addrs
                        /\ run' \in [pc : {"off", "seal", "save", "on"}, id : Ids, addr : Addrs, saved : BOOLEAN]
                        /\ toldAddress' \in [1 .. MaxIds -> Addrs]
  BY DEF OnionTypeOK
<1>10. ASSUME UNCHANGED <<toldAddress, onionsMade>>
       PROVE  \A id, addr : OwnedBy(id, addr) <=> OwnedBy(id, addr)'
  BY <1>10 DEF OwnedBy
<1>11. CASE Seal
  <2>1. OwnedBy(run.id, run.addr) /\ (Restoring => state = [id |-> run.id, addr |-> run.addr])
    BY <1>11 DEF Seal, OnionInv, RunOwned
  <2>2. sealed' = [id |-> run.id, addr |-> run.addr]
    BY <1>11 DEF Seal, OnionInv, RunOwned
  <2>3. OnionTypeOK' /\ OnionRange'
    <3>1. OnionTypeOK'
      BY <1>1, <1>11, <1>t, <2>2 DEF Seal
    <3>2. OnionRange'
      BY <1>11 DEF Seal, OnionInv, OnionRange
    <3> QED
      BY <3>1, <3>2
  <2>4. StateOwned' /\ BackupOwned'
    BY <1>10, <1>11, <2>1, <2>2 DEF Seal, OnionInv, StateOwned, BackupOwned, Restoring
  <2>5. RunOwned'
    BY <1>1, <1>n, <1>10, <1>11, <2>1, <2>2 DEF Seal, OnionInv, RunOwned, Restoring
  <2>6. KeystoreOwned'
    BY <1>11 DEF Seal, OnionInv, KeystoreOwned, Restoring
  <2> QED
    BY <2>3, <2>4, <2>5, <2>6 DEF OnionInv
<1>12. CASE Start
  <2>1. /\ OwnedBy(run.id, run.addr) /\ sealed = [id |-> run.id, addr |-> run.addr]
        /\ backup # None /\ backup.id # run.id => run.addr # backup.addr
    BY <1>12 DEF Start, OnionInv, RunOwned
  <2>2. /\ state' = [id |-> run.id, addr |-> run.addr] /\ run' = [run EXCEPT !.pc = "on"]
        /\ toldAddress' = [toldAddress EXCEPT ![run.id] = run.addr]
        /\ UNCHANGED <<sealed, arti, backup, onionsMade, means>>
    BY <1>12 DEF Start
  <2>3. /\ run.id \in 1 .. MaxIds /\ run.id <= onionsMade.ids /\ run.addr \in Addrs \ {0} /\ run.addr <= onionsMade.addrs
        /\ \A i \in 1 .. MaxIds : i # run.id => toldAddress[i] # run.addr
    BY <1>1, <1>n, <2>1 DEF OwnedBy, Ids, Addrs
  <2>4. /\ toldAddress'[run.id] = run.addr
        /\ \A i \in 1 .. MaxIds : i # run.id => toldAddress'[i] = toldAddress[i]
    BY <1>1, <1>n, <2>2, <2>3
  <2>5. OnionTypeOK'
    BY <1>1, <1>n, <1>t, <2>2, <2>3
  <2>6. OnionRange'
    <3>1. ASSUME NEW i \in 1 .. MaxIds
          PROVE  /\ toldAddress'[i] <= onionsMade.addrs
                 /\ i > onionsMade.ids => toldAddress'[i] = 0
      <4>1. CASE i = run.id
        BY <4>1, <2>3, <2>4, <1>n
      <4>2. CASE i # run.id
        BY <4>2, <2>4 DEF OnionInv, OnionRange
      <4> QED
        BY <4>1, <4>2
    <3>2. ASSUME NEW i \in 1 .. MaxIds, NEW j \in 1 .. MaxIds, i # j, toldAddress'[i] # 0
          PROVE  toldAddress'[i] # toldAddress'[j]
      <4>1. CASE i = run.id
        BY <3>2, <4>1, <2>3, <2>4
      <4>2. CASE j = run.id
        BY <3>2, <4>2, <2>3, <2>4
      <4>3. CASE i # run.id /\ j # run.id
        BY <3>2, <4>3, <2>4 DEF OnionInv, OnionRange
      <4> QED
        BY <4>1, <4>2, <4>3
    <3> QED
      BY <2>2, <3>1, <3>2 DEF OnionInv, OnionRange
  <2>7. OwnedBy(run.id, run.addr)'
    BY <1>1, <1>n, <2>1, <2>2, <2>3, <2>4 DEF OwnedBy
  <2>8. StateOwned'
    BY <2>1, <2>2, <2>4, <2>7 DEF StateOwned
  <2>9. BackupOwned'
    BY <2>1, <2>2, <2>3, <2>4 DEF OnionInv, BackupOwned, OwnedBy
  <2>10. RunOwned'
    <3>1. /\ run'.id = run.id /\ run'.addr = run.addr /\ run'.pc = "on"
          /\ run'.id # 0
      BY <1>1, <2>2, <2>3
    <3> QED
      BY <2>1, <2>2, <2>7, <3>1 DEF RunOwned, Restoring, None
  <2>11. KeystoreOwned'
    BY <2>2, <2>3 DEF KeystoreOwned, Restoring, None
  <2> QED
    BY <2>5, <2>6, <2>8, <2>9, <2>10, <2>11 DEF OnionInv
<1>13. CASE ExportBackup
  <2>1. /\ OwnedBy(run.id, run.addr) /\ Restoring
        /\ backup' = [id |-> run.id, addr |-> run.addr]
        /\ UNCHANGED <<state, sealed, arti, run, toldAddress, onionsMade, means>>
    BY <1>13 DEF ExportBackup, OnionInv, RunOwned
  <2>2. OnionTypeOK' /\ OnionRange'
    BY <1>1, <1>n, <2>1 DEF OnionInv, OnionTypeOK, OnionRange
  <2>3. StateOwned' /\ BackupOwned' /\ KeystoreOwned'
    BY <1>10, <2>1 DEF OnionInv, StateOwned, BackupOwned, KeystoreOwned, Restoring
  <2>4. RunOwned'
    BY <1>10, <2>1 DEF OnionInv, RunOwned, Restoring
  <2> QED
    BY <2>2, <2>3, <2>4 DEF OnionInv
<1>14. CASE Stop
  <2>1. run' = Off /\ UNCHANGED <<state, sealed, arti, toldAddress, backup, onionsMade, means>>
    BY <1>14 DEF Stop
  <2>2. OnionTypeOK' /\ OnionRange'
    BY <1>1, <1>n, <2>1 DEF OnionInv, OnionTypeOK, OnionRange, Off, Ids, Addrs
  <2>3. StateOwned' /\ BackupOwned' /\ KeystoreOwned'
    BY <1>10, <2>1 DEF OnionInv, StateOwned, BackupOwned, KeystoreOwned, Restoring
  <2>4. RunOwned'
    BY <2>1 DEF RunOwned, Off
  <2> QED
    BY <2>2, <2>3, <2>4 DEF OnionInv
<1>15. CASE Wipe
  <2>1. PICK left \in means.leaves :
            /\ run.pc \in {"off", "on"} /\ Restoring
            /\ state' = None /\ run' = Off
            /\ sealed' = IF "sealed" \in left THEN sealed ELSE None
            /\ arti' = IF "arti" \in left THEN arti ELSE 0
            /\ UNCHANGED <<toldAddress, backup, onionsMade, means>>
    BY <1>15 DEF Wipe
  <2>2. sealed' \in [id : Ids, addr : Addrs] /\ arti' \in Addrs /\ arti' <= onionsMade.addrs
    BY <1>1, <1>n, <2>1 DEF None, Ids, Addrs, OnionInv, OnionRange
  <2>3. OnionTypeOK'
    BY <1>1, <1>n, <2>1, <2>2 DEF OnionInv, OnionTypeOK, Off, None, Ids, Addrs
  <2>4. OnionRange'
    BY <2>1, <2>2 DEF OnionInv, OnionRange
  <2>5. StateOwned' /\ RunOwned'
    BY <2>1 DEF StateOwned, RunOwned, Restoring, Off
  <2>6. BackupOwned'
    BY <1>10, <2>1 DEF OnionInv, BackupOwned
  <2>7. KeystoreOwned'
    BY <2>1 DEF CleanKeystore, KeystoreOwned, OnionInv, OnionRange
  <2> QED
    BY <2>3, <2>4, <2>5, <2>6, <2>7 DEF OnionInv
<1>16. CASE UNCHANGED okVars
  <2> USE <1>16 DEF okVars
  <2>1. OnionTypeOK' /\ OnionRange'
    BY DEF OnionInv, OnionTypeOK, OnionRange
  <2>2. StateOwned' /\ BackupOwned' /\ RunOwned' /\ KeystoreOwned'
    BY DEF OnionInv, StateOwned, BackupOwned, RunOwned, KeystoreOwned, Restoring, OwnedBy
  <2> QED
    BY <2>1, <2>2 DEF OnionInv
<1> QED
  BY <1>5, <1>8, <1>9, <1>11, <1>12, <1>13, <1>14, <1>15, <1>16 DEF OnionNext

LEMMA OnionInvHolds == OnionInv => OnionHolds
<1> SUFFICES ASSUME OnionInv PROVE OnionHolds
  OBVIOUS
<1>1. AddressIsKept
  BY DEF OnionInv, RunOwned, AddressIsKept
<1>2. NeverUnreadable
  BY DEF OnionInv, StateOwned, NeverUnreadable, Readable
<1>3. NoInheritedAddress
  BY DEF OnionInv, RunOwned, OwnedBy, NoInheritedAddress
<1> QED
  BY <1>1, <1>2, <1>3 DEF OnionHolds, OnionInv

\* Through any sequence of starts, kills, wipes, backups and restores, an
\* identity comes back on the address it recorded, never locks itself out, and
\* never comes up on the address of another (onion_key_for_start,
\* seal_onion_identity, drop_superseded_keystore).
THEOREM OnionIsKept == CleanKeystore => (OnionSpec => []OnionHolds)
<1> SUFFICES ASSUME CleanKeystore PROVE OnionSpec => []OnionHolds
  OBVIOUS
<1>1. OnionInv /\ [OnionNext]_okVars => OnionInv'
  BY OnionStep
<1> QED
  BY OnionStarts, <1>1, OnionInvHolds, PTL DEF OnionSpec

-----------------------------------------------------------------------------
(* The relay's streams.                                                    *)

Outcomes == Counters \cup {"none", "eof"}
Tasks == [pc : {"due", "accepting", "reading", "over"}, buf : 0 .. MaxLine, tokens : 0 .. Burst,
          lines : Nat, eof : BOOLEAN, outcome : Outcomes]
StrTypes ==
    /\ cap \in OpenCaps /\ active \in Nat /\ inFlight \in 0 .. LineCap
    /\ refusing \in Streams \cup {NoOne} /\ task \in [Streams -> Tasks]
    /\ stats \in [Counters \cup {"peak"} -> Nat] /\ counted \in [Counters -> Nat]
    /\ report \in [busy : BOOLEAN, open : Nat, done : Nat]
TaskSound(r) == (r.buf # 0 => r.pc = "reading") /\ (r.outcome = "none" <=> r.pc # "over")
Ended(c) == {s \in Streams : task[s].outcome = c}

\* The inductive invariant: only a stream that reads holds bytes, only one that
\* is over has an outcome, and the stream about to be refused has not started.
StrInv ==
    /\ StrTypes /\ \A s \in Streams : TaskSound(task[s])
    /\ refusing # NoOne => task[refusing].pc = "due"
    /\ Cardinality(Live) <= cap /\ SlotsAndBytesExact /\ CountedOnce

LEMMA StreamBounds ==
    /\ IsFiniteSet(Streams) /\ NoOne \notin Streams /\ OpenCaps \subseteq Nat /\ LineCap \in Nat
    /\ MaxLine \in Nat /\ Burst \in Nat /\ 0 \in 0 .. MaxLine
    /\ "peak" \notin Counters /\ "none" \notin Counters /\ "eof" \notin Counters
BY StreamsAssumption DEF Counters

LEMMA StreamSets ==
    ASSUME StrTypes
    PROVE  /\ IsFiniteSet(Live) /\ Cardinality(Live) \in Nat
           /\ \A c : IsFiniteSet(Ended(c)) /\ Cardinality(Ended(c)) \in Nat
           /\ IsFiniteSet(Streams) /\ Weighs(Streams, Shares) /\ Total(Streams, Shares) \in Nat
           /\ \A s \in Streams : /\ Shares[s] = task[s].buf /\ task[s].buf \in Nat
                                 /\ task[s].buf <= Total(Streams, Shares)
<1>1. Live \in SUBSET Streams /\ \A c : Ended(c) \in SUBSET Streams
  BY DEF Live, Ended
<1>2. /\ IsFiniteSet(Live) /\ Cardinality(Live) \in Nat
      /\ \A c : IsFiniteSet(Ended(c)) /\ Cardinality(Ended(c)) \in Nat
  BY <1>1, StreamBounds, FS_Subset, FS_CardinalityType
<1>3. \A s \in Streams : Shares[s] = task[s].buf /\ task[s].buf \in Nat
  BY StreamBounds DEF StrTypes, Tasks, Shares
<1>4. Weighs(Streams, Shares)
  BY <1>3 DEF Weighs
<1>5. Total(Streams, Shares) \in Nat /\ \A s \in Streams : Shares[s] <= Total(Streams, Shares)
  BY <1>4, StreamBounds, UnitsAreFinite, TotalOfOne
<1>6. QED BY <1>2, <1>3, <1>4, <1>5, StreamBounds

\* What a step of one task does to the bytes in flight.
LEMMA SharesOfOne ==
    ASSUME StrTypes, NEW s \in Streams, NEW r \in Tasks, task' = [task EXCEPT ![s] = r]
    PROVE  /\ Total(Streams, Shares)' = Total(Streams, Shares) - task[s].buf + r.buf
           /\ Total(Streams, Shares)' \in Nat
<1> DEFINE S == Streams \ {s}
<1>1. /\ IsFiniteSet(Streams) /\ Weighs(Streams, Shares) /\ Shares[s] = task[s].buf
      /\ task' \in [Streams -> Tasks]
  BY StreamSets DEF StrTypes
<1>2. /\ Total(Streams, Shares) = Total(S, Shares) + task[s].buf
      /\ Total(S, Shares) \in Nat /\ task[s].buf \in Nat
  BY <1>1, TotalRemove
<1>3. \A t \in Streams : Shares'[t] = task'[t].buf /\ Shares'[t] \in Nat
  BY <1>1, StreamBounds DEF Shares, Tasks
<1>4. /\ Total(Streams, Shares') = Total(S, Shares') + Shares'[s]
      /\ Total(S, Shares') \in Nat /\ Shares'[s] \in Nat
  <2>1. Weighs(Streams, Shares')
    BY <1>3 DEF Weighs
  <2>2. QED BY <1>1, <2>1, TotalRemove
<1>5. Total(S, Shares') = Total(S, Shares)
  <2>1. \A t \in S : Shares'[t] = Shares[t]
    BY <1>3 DEF Shares, StrTypes
  <2>2. QED BY <2>1, TotalSame
<1>6. Shares'[s] = r.buf
  BY <1>1, <1>3 DEF StrTypes
<1>7. Total(Streams, Shares)' = Total(Streams, Shares')
  BY DEF Total, Units
<1>8. QED BY <1>2, <1>4, <1>5, <1>6, <1>7

\* A step within a task that neither starts nor ends.
LEMMA TaskGoesOn ==
    ASSUME StrInv, NEW s \in Streams, NEW r \in Tasks, TaskSound(r),
           task' = [task EXCEPT ![s] = r], r.outcome = task[s].outcome,
           task[s].pc \in {"accepting", "reading"}, r.pc \in {"accepting", "reading"},
           inFlight' = inFlight - task[s].buf + r.buf, inFlight' <= LineCap,
           UNCHANGED <<cap, active, refusing, report, counted>>,
           stats' \in [Counters \cup {"peak"} -> Nat],
           \A c \in Counters \ {"accepted"} : stats'[c] = stats[c]
    PROVE  StrInv'
<1>1. /\ Live' = Live /\ \A c : Ended(c)' = Ended(c)
      /\ task' \in [Streams -> Tasks] /\ \A t \in Streams : TaskSound(task[t])'
  BY DEF StrInv, StrTypes, Live, Ended, TaskSound
<1>2. inFlight = Total(Streams, Shares) /\ active = Cardinality(Live) + IF refusing = NoOne THEN 0 ELSE 1
  BY DEF StrInv, SlotsAndBytesExact
<1>3. inFlight' = Total(Streams, Shares)' /\ inFlight' \in Nat
  BY <1>2, SharesOfOne DEF StrInv
<1>4. StrTypes'
  BY <1>1, <1>3, StreamBounds DEF StrInv, StrTypes
<1>5. SlotsAndBytesExact'
  BY <1>1, <1>2, <1>3 DEF SlotsAndBytesExact
<1>6. CountedOnce'
  BY <1>1 DEF StrInv, CountedOnce, Ended
<1>7. refusing' # NoOne => task'[refusing'].pc = "due"
  BY DEF StrInv, StrTypes
<1>8. QED BY <1>1, <1>4, <1>5, <1>6, <1>7 DEF StrInv

\* A task ends: its slot and its bytes are given back, and it is counted once.
LEMMA TaskEnds ==
    ASSUME StrInv, NEW s \in Live, NEW outcome \in (Counters \ {"accepted"}) \cup {"eof"},
           EndStream(s, outcome)
    PROVE  StrInv'
<1> DEFINE r == [task[s] EXCEPT !.pc = "over", !.buf = 0, !.outcome = outcome]
<1>1. s \in Streams /\ task[s] \in Tasks /\ task[s].pc # "over" /\ task[s].pc # "due" /\ task[s].outcome = "none"
  BY DEF Live, StrInv, StrTypes, TaskSound
<1>2. outcome \in Outcomes /\ outcome # "none"
  BY StreamBounds DEF Outcomes
<1>3. /\ r \in Tasks /\ r.pc = "over" /\ r.buf = 0 /\ r.outcome = outcome
      /\ task' = [task EXCEPT ![s] = r]
  BY <1>1, <1>2, StreamBounds DEF Tasks, EndStream
<1> HIDE DEF r
<1>4. /\ task' \in [Streams -> Tasks] /\ Live' = Live \ {s}
      /\ \A t \in Streams : TaskSound(task[t])'
  BY <1>1, <1>2, <1>3 DEF StrInv, StrTypes, Live, TaskSound
<1>5. \A c : Ended(c)' = IF c = outcome THEN Ended(c) \cup {s} ELSE Ended(c) \ {s}
  BY <1>1, <1>3 DEF Ended, StrInv, StrTypes
<1>6. /\ inFlight = Total(Streams, Shares) /\ active = Cardinality(Live) + IF refusing = NoOne THEN 0 ELSE 1
      /\ Cardinality(Live) \in Nat /\ IsFiniteSet(Live) /\ Cardinality(Live) <= cap /\ cap \in Nat
      /\ LineCap \in Nat /\ inFlight <= LineCap
  BY StreamSets, StreamBounds DEF StrInv, SlotsAndBytesExact, StrTypes
<1>7. Cardinality(Live') = Cardinality(Live) - 1 /\ Cardinality(Live) > 0
  BY <1>4, <1>6, FS_RemoveElement, FS_EmptySet
<1>8. inFlight' = Total(Streams, Shares)' /\ inFlight' \in Nat /\ inFlight' <= inFlight
  <2>1. task[s].buf \in Nat /\ inFlight' = inFlight - task[s].buf /\ inFlight \in Nat
    BY <1>1, StreamSets DEF EndStream, StrInv, StrTypes
  <2>2. /\ Total(Streams, Shares)' = Total(Streams, Shares) - task[s].buf + 0
        /\ Total(Streams, Shares)' \in Nat
    BY <1>1, <1>3, SharesOfOne DEF StrInv
  <2>3. QED BY <1>6, <2>1, <2>2
<1>9. cap' = cap /\ refusing' = refusing /\ report' = report /\ counted' = counted /\ active' = active - 1
      /\ stats' = IF outcome \in Counters THEN Bump(outcome) ELSE stats
  BY DEF EndStream
<1>10. stats' \in [Counters \cup {"peak"} -> Nat]
       /\ \A c \in Counters : stats'[c] = stats[c] + IF c = outcome THEN 1 ELSE 0
  BY <1>9, StreamBounds DEF Bump, StrInv, StrTypes
<1>11. SlotsAndBytesExact' /\ active' \in Nat /\ Cardinality(Live') <= cap'
  BY <1>6, <1>7, <1>8, <1>9 DEF SlotsAndBytesExact
<1>12. CountedOnce'
  <2> SUFFICES ASSUME NEW c \in Counters \ {"accepted"}
               PROVE  counted'[c] + stats'[c] = Cardinality(Ended(c)')
    BY DEF CountedOnce, Ended
  <2>1. /\ counted[c] + stats[c] = Cardinality(Ended(c)) /\ counted[c] \in Nat /\ stats[c] \in Nat
        /\ s \notin Ended(c) /\ IsFiniteSet(Ended(c)) /\ Cardinality(Ended(c)) \in Nat
    BY <1>1, StreamSets, StreamBounds DEF StrInv, StrTypes, CountedOnce, Ended
  <2>2. Cardinality(Ended(c) \cup {s}) = Cardinality(Ended(c)) + 1
    BY <2>1, FS_AddElement
  <2>3. Ended(c) \ {s} = Ended(c)
    BY <2>1
  <2>4. CASE c = outcome
    <3>1. Ended(c)' = Ended(c) \cup {s}
      BY <1>5, <2>4
    <3>2. counted'[c] = counted[c] /\ stats'[c] = stats[c] + 1
      BY <1>9, <1>10, <2>4
    <3>3. QED BY <2>1, <2>2, <3>1, <3>2
  <2>5. CASE c # outcome
    <3>1. Ended(c)' = Ended(c)
      BY <1>5, <2>3, <2>5
    <3>2. counted'[c] = counted[c] /\ stats'[c] = stats[c]
      BY <1>9, <1>10, <2>1, <2>5
    <3>3. QED BY <2>1, <3>1, <3>2
  <2>6. QED BY <2>4, <2>5
<1>13. refusing' # NoOne => task'[refusing'].pc = "due"
  BY <1>1, <1>3, <1>9 DEF StrInv, StrTypes
<1>14. StrTypes'
  BY <1>4, <1>6, <1>8, <1>9, <1>10, <1>11 DEF StrInv, StrTypes
<1>15. QED BY <1>4, <1>11, <1>12, <1>13, <1>14 DEF StrInv

LEMMA StreamStep ==
    ASSUME StrInv, [StrNext]_strVars
    PROVE  StrInv'
<1>1. /\ \A s \in Streams : task[s] \in Tasks /\ TaskSound(task[s])
      /\ inFlight \in Nat /\ inFlight <= LineCap /\ LineCap \in Nat
      /\ task \in [Streams -> Tasks] /\ stats \in [Counters \cup {"peak"} -> Nat]
      /\ counted \in [Counters -> Nat] /\ report \in [busy : BOOLEAN, open : Nat, done : Nat]
      /\ active \in Nat /\ cap \in Nat /\ cap \in OpenCaps /\ refusing \in Streams \cup {NoOne}
      /\ Cardinality(Live) <= cap /\ Cardinality(Live) \in Nat /\ IsFiniteSet(Live)
      /\ active = Cardinality(Live) + IF refusing = NoOne THEN 0 ELSE 1
      /\ inFlight = Total(Streams, Shares)
  BY StreamSets, StreamBounds DEF StrInv, StrTypes, SlotsAndBytesExact
<1>2. ASSUME NEW s \in Streams, AdmitStream(s) PROVE StrInv'
  <2>1. task[s].pc = "due" /\ refusing = NoOne /\ s # NoOne
    BY <1>2, StreamBounds DEF AdmitStream
  <2>2. CASE AtCapacity(active)
    <3>1. refusing' = s /\ active' = active + 1
          /\ UNCHANGED <<task, stats, cap, inFlight, report, counted>>
      BY <1>2, <2>2 DEF AdmitStream
    <3>2. Live' = Live /\ Shares' = Shares /\ \A c : Ended(c)' = Ended(c)
      BY <3>1 DEF Live, Shares, Ended
    <3>3. StrTypes' /\ SlotsAndBytesExact'
      BY <1>1, <2>1, <3>1, <3>2 DEF StrInv, StrTypes, SlotsAndBytesExact
    <3>4. CountedOnce'
      BY <3>1, <3>2 DEF StrInv, CountedOnce, Ended
    <3>5. QED BY <1>1, <2>1, <3>1, <3>2, <3>3, <3>4 DEF StrInv
  <2>3. CASE ~AtCapacity(active)
    <3> DEFINE r == [task[s] EXCEPT !.pc = "accepting"]
    <3>1. /\ task' = [task EXCEPT ![s] = r] /\ r \in Tasks /\ r.pc = "accepting"
          /\ r.buf = task[s].buf /\ r.outcome = task[s].outcome /\ TaskSound(r)
      BY <1>1, <1>2, <2>1, <2>3 DEF AdmitStream, Tasks, TaskSound
    <3>2. /\ active' = active + 1 /\ refusing' = NoOne /\ active < cap
          /\ UNCHANGED <<cap, inFlight, report, counted>>
          /\ stats' = [stats EXCEPT !.peak = IF active + 1 > @ THEN active + 1 ELSE @]
      BY <1>1, <1>2, <2>1, <2>3 DEF AdmitStream, AtCapacity
    <3> HIDE DEF r
    <3>3. /\ Live' = Live \cup {s} /\ s \notin Live /\ \A c : Ended(c)' = Ended(c)
          /\ task' \in [Streams -> Tasks] /\ \A t \in Streams : TaskSound(task[t])'
      BY <1>1, <2>1, <3>1 DEF Live, Ended, TaskSound
    <3>4. Cardinality(Live') = Cardinality(Live) + 1
      BY <1>1, <3>3, FS_AddElement
    <3>5. /\ stats' \in [Counters \cup {"peak"} -> Nat]
          /\ \A c \in Counters : stats'[c] = stats[c]
      BY <1>1, <3>2, StreamBounds
    <3>6. Total(Streams, Shares)' = Total(Streams, Shares)
      <4>1. StrTypes
        BY DEF StrInv
      <4>2. task[s].buf \in Nat /\ Total(Streams, Shares) \in Nat
        BY <4>1, StreamSets
      <4>3. Total(Streams, Shares)' = Total(Streams, Shares) - task[s].buf + r.buf
        BY <3>1, <4>1, SharesOfOne
      <4>4. QED BY <3>1, <4>2, <4>3
    <3>7. SlotsAndBytesExact' /\ StrTypes' /\ Cardinality(Live') <= cap'
      BY <1>1, <2>1, <3>2, <3>3, <3>4, <3>5, <3>6 DEF SlotsAndBytesExact, StrInv, StrTypes
    <3>8. CountedOnce'
      BY <3>2, <3>3, <3>5 DEF StrInv, CountedOnce, Ended
    <3>9. QED BY <3>2, <3>3, <3>7, <3>8 DEF StrInv
  <2>4. QED BY <2>2, <2>3
<1>3. ASSUME Refuse PROVE StrInv'
  <2> DEFINE s == refusing
             r == [task[s] EXCEPT !.pc = "over", !.outcome = "dropped_capacity"]
  <2>1. s \in Streams /\ task[s].pc = "due" /\ s # NoOne
    BY <1>1, <1>3 DEF StrInv, Refuse
  <2>2. /\ task' = [task EXCEPT ![s] = r] /\ r \in Tasks /\ r.pc = "over" /\ r.buf = task[s].buf
        /\ r.outcome = "dropped_capacity" /\ TaskSound(r) /\ task[s].outcome = "none"
    BY <1>1, <1>3, <2>1 DEF Refuse, Tasks, TaskSound, Outcomes, Counters
  <2>3. /\ active' = active - 1 /\ refusing' = NoOne /\ stats' = Bump("dropped_capacity")
        /\ UNCHANGED <<cap, inFlight, report, counted>>
    BY <1>3 DEF Refuse
  <2> HIDE DEF r
  <2>4. /\ Live' = Live /\ task' \in [Streams -> Tasks] /\ \A t \in Streams : TaskSound(task[t])'
        /\ \A c : c # "dropped_capacity" => Ended(c)' = Ended(c) \ {s}
        /\ Ended("dropped_capacity")' = Ended("dropped_capacity") \cup {s}
        /\ \A c : c # "none" => s \notin Ended(c)
    BY <1>1, <2>1, <2>2 DEF Live, Ended, TaskSound
  <2>5. /\ stats' \in [Counters \cup {"peak"} -> Nat]
        /\ \A c \in Counters : stats'[c] = IF c = "dropped_capacity" THEN stats[c] + 1 ELSE stats[c]
    BY <1>1, <2>3, StreamBounds DEF Bump, Counters
  <2>6. Total(Streams, Shares)' = Total(Streams, Shares)
    <3>1. StrTypes
      BY DEF StrInv
    <3>2. task[s].buf \in Nat /\ Total(Streams, Shares) \in Nat
      BY <2>1, <3>1, StreamSets
    <3>3. Total(Streams, Shares)' = Total(Streams, Shares) - task[s].buf + r.buf
      BY <2>1, <2>2, <3>1, SharesOfOne
    <3>4. QED BY <2>2, <3>2, <3>3
  <2>7. SlotsAndBytesExact' /\ StrTypes'
    BY <1>1, <2>1, <2>3, <2>4, <2>5, <2>6 DEF SlotsAndBytesExact, StrInv, StrTypes
  <2>8. CountedOnce'
    <3> SUFFICES ASSUME NEW c \in Counters \ {"accepted"}
                 PROVE  counted'[c] + stats'[c] = Cardinality(Ended(c)')
      BY DEF CountedOnce, Ended
    <3>0. /\ counted[c] + stats[c] = Cardinality(Ended(c)) /\ counted[c] \in Nat /\ stats[c] \in Nat
      BY <1>1 DEF StrInv, CountedOnce, Ended
    <3>1. s \notin Ended(c) /\ IsFiniteSet(Ended(c)) /\ Cardinality(Ended(c)) \in Nat
      <4>1. c # "none" /\ StrTypes
        BY StreamBounds DEF StrInv
      <4>2. QED BY <2>4, <4>1, StreamSets
    <3>2. Cardinality(Ended(c) \cup {s}) = Cardinality(Ended(c)) + 1
      BY <3>1, FS_AddElement
    <3>6. Ended(c) \ {s} = Ended(c)
      BY <3>1
    <3>3. CASE c = "dropped_capacity"
      <4>1. Ended(c)' = Ended(c) \cup {s}
        BY <2>4, <3>3
      <4>2. counted'[c] = counted[c] /\ stats'[c] = stats[c] + 1
        BY <2>3, <2>5, <3>3
      <4>3. QED BY <3>0, <3>1, <3>2, <4>1, <4>2
    <3>4. CASE c # "dropped_capacity"
      <4>1. Ended(c)' = Ended(c)
        BY <2>4, <3>4, <3>6
      <4>2. counted'[c] = counted[c] /\ stats'[c] = stats[c]
        BY <2>3, <2>5, <3>4
      <4>3. QED BY <3>0, <4>1, <4>2
    <3>5. QED BY <3>3, <3>4
  <2>9. QED BY <1>1, <2>3, <2>4, <2>7, <2>8 DEF StrInv
<1>4. ASSUME NEW s \in Streams, AcceptOk(s) PROVE StrInv'
  <2> DEFINE r == [task[s] EXCEPT !.pc = "reading"]
  <2>1. /\ task' = [task EXCEPT ![s] = r] /\ r \in Tasks /\ r.pc = "reading" /\ task[s].pc = "accepting"
        /\ r.buf = task[s].buf /\ r.outcome = task[s].outcome /\ TaskSound(r) /\ r.buf \in Nat
        /\ UNCHANGED <<cap, active, refusing, inFlight, report, counted>> /\ stats' = Bump("accepted")
    BY <1>1, <1>4, StreamBounds DEF AcceptOk, Tasks, TaskSound
  <2>2. /\ stats' \in [Counters \cup {"peak"} -> Nat]
        /\ \A c \in Counters \ {"accepted"} : stats'[c] = stats[c]
    BY <1>1, <2>1, StreamBounds DEF Bump, Counters
  <2> HIDE DEF r
  <2>3. inFlight' = inFlight - task[s].buf + r.buf /\ inFlight' <= LineCap
    BY <1>1, <2>1
  <2>4. QED BY <2>1, <2>2, <2>3, TaskGoesOn
<1>5. ASSUME NEW s \in Streams, task[s].pc \in {"accepting", "reading"},
             NEW outcome \in (Counters \ {"accepted"}) \cup {"eof"}, EndStream(s, outcome)
      PROVE  StrInv'
  BY <1>5, TaskEnds DEF Live
<1>6. "accept_failed" \in Counters \ {"accepted"} /\ "line_busy" \in Counters \ {"accepted"}
      /\ "line_too_long" \in Counters \ {"accepted"} /\ "rate_limited" \in Counters \ {"accepted"}
      /\ "timed_out" \in Counters \ {"accepted"} /\ "stream_errors" \in Counters \ {"accepted"}
  BY DEF Counters
<1>7. ASSUME NEW s \in Streams, AcceptFail(s) \/ CleanEof(s) \/ TimeOut(s) \/ StreamFails(s)
      PROVE  StrInv'
  <2>1. task[s].pc \in {"accepting", "reading"}
    BY <1>7 DEF AcceptFail, CleanEof, TimeOut, StreamFails, Reading
  <2>2. \E outcome \in (Counters \ {"accepted"}) \cup {"eof"} : EndStream(s, outcome)
    BY <1>6, <1>7 DEF AcceptFail, CleanEof, TimeOut, StreamFails
  <2>3. QED BY <1>5, <2>1, <2>2
<1>8. ASSUME NEW s \in Streams, ReadChunk(s) PROVE StrInv'
  <2>1. task[s].pc = "reading"
    BY <1>8 DEF ReadChunk, Reading
  <2>2. CASE EndStream(s, "line_busy") \/ EndStream(s, "line_too_long")
    BY <1>5, <1>6, <2>1, <2>2
  <2>3. CASE ~(EndStream(s, "line_busy") \/ EndStream(s, "line_too_long"))
    <3> DEFINE r == [task[s] EXCEPT !.buf = @ + 1]
    <3>1. /\ inFlight' = inFlight + 1 /\ task' = [task EXCEPT ![s] = r]
          /\ UNCHANGED <<cap, active, refusing, stats, report, counted>>
          /\ inFlight + 1 <= LineCap /\ ~(task[s].buf + 1 > MaxLine)
      BY <1>8, <2>3 DEF ReadChunk, GrowBudget
    <3>2. task[s].buf \in Nat /\ task[s].buf + 1 \in 0 .. MaxLine
      BY <1>1, <3>1, StreamBounds DEF Tasks
    <3>3. /\ r \in Tasks /\ r.buf = task[s].buf + 1 /\ r.pc = "reading"
          /\ r.outcome = task[s].outcome /\ TaskSound(r)
      BY <1>1, <2>1, <3>2 DEF Tasks, TaskSound
    <3> HIDE DEF r
    <3>4. inFlight' = inFlight - task[s].buf + r.buf /\ inFlight' <= LineCap
      BY <1>1, <3>1, <3>2, <3>3
    <3>5. QED BY <1>1, <2>1, <3>1, <3>3, <3>4, TaskGoesOn
  <2>4. QED BY <2>2, <2>3
<1>9. ASSUME NEW s \in Streams, NEW last \in BOOLEAN, TakeLine(s, last) PROVE StrInv'
  <2>1. task[s].pc = "reading"
    BY <1>9 DEF TakeLine, Reading
  <2>2. CASE task[s].tokens < 1
    BY <1>5, <1>6, <1>9, <2>1, <2>2 DEF TakeLine
  <2>3. CASE ~(task[s].tokens < 1)
    <3> DEFINE r == [task[s] EXCEPT !.buf = 0, !.tokens = @ - 1, !.lines = @ + 1, !.eof = last]
    <3>1. /\ inFlight' = inFlight - task[s].buf /\ task' = [task EXCEPT ![s] = r]
          /\ UNCHANGED <<cap, active, refusing, stats, report, counted>>
      BY <1>9, <2>3 DEF TakeLine
    <3>2. /\ task[s].buf \in Nat /\ task[s].buf <= inFlight
          /\ task[s].tokens - 1 \in 0 .. Burst /\ task[s].lines + 1 \in Nat
      <4>1. task[s].tokens \in 0 .. Burst /\ task[s].lines \in Nat
        BY <1>1 DEF Tasks
      <4>2. task[s].buf \in Nat /\ task[s].buf <= Total(Streams, Shares)
        BY StreamSets DEF StrInv
      <4>3. QED BY <1>1, <2>3, <4>1, <4>2, StreamBounds
    <3>3. /\ r \in Tasks /\ r.buf = 0 /\ r.pc = "reading"
          /\ r.outcome = task[s].outcome /\ TaskSound(r)
      BY <1>1, <2>1, <3>2, StreamBounds DEF Tasks, TaskSound
    <3> HIDE DEF r
    <3>4. inFlight' = inFlight - task[s].buf + r.buf /\ inFlight' <= LineCap
      BY <1>1, <3>1, <3>2, <3>3
    <3>5. QED BY <1>1, <2>1, <3>1, <3>3, <3>4, TaskGoesOn
  <2>4. QED BY <2>2, <2>3
<1>10. ASSUME NEW s \in Streams, Refill(s) PROVE StrInv'
  <2> DEFINE r == [task[s] EXCEPT !.tokens = @ + 1]
  <2>1. task[s].pc = "reading" /\ task[s].tokens + 1 \in 0 .. Burst /\ task[s].buf \in Nat
    BY <1>1, <1>10, StreamBounds DEF Refill, Tasks
  <2>2. /\ task' = [task EXCEPT ![s] = r] /\ r \in Tasks /\ r.pc = "reading"
        /\ r.buf = task[s].buf /\ r.outcome = task[s].outcome /\ TaskSound(r)
        /\ UNCHANGED <<cap, active, refusing, inFlight, stats, report, counted>>
    BY <1>1, <1>10, <2>1 DEF Refill, Tasks, TaskSound
  <2> HIDE DEF r
  <2>3. inFlight' = inFlight - task[s].buf + r.buf /\ inFlight' <= LineCap
    BY <1>1, <2>1, <2>2
  <2>4. QED BY <1>1, <2>1, <2>2, <2>3, TaskGoesOn
<1>11. ASSUME UNCHANGED <<cap, active, refusing, task, inFlight>>,
              stats' \in [Counters \cup {"peak"} -> Nat], counted' \in [Counters -> Nat],
              report' \in [busy : BOOLEAN, open : Nat, done : Nat],
              \A c \in Counters : counted'[c] + stats'[c] = counted[c] + stats[c]
       PROVE  StrInv'
  <2>1. Live' = Live /\ Shares' = Shares /\ \A c : Ended(c)' = Ended(c)
    BY <1>11 DEF Live, Shares, Ended
  <2>2. StrTypes' /\ SlotsAndBytesExact'
    BY <1>11, <2>1 DEF StrInv, StrTypes, SlotsAndBytesExact
  <2>3. CountedOnce'
    BY <1>11, <2>1 DEF StrInv, CountedOnce, Ended
  <2>4. QED BY <1>1, <1>11, <2>1, <2>2, <2>3 DEF StrInv
<1>12. ASSUME LoadLevel PROVE StrInv'
  <2>1. report' \in [busy : BOOLEAN, open : Nat, done : Nat]
    BY <1>1, <1>12 DEF LoadLevel
  <2>2. QED BY <1>1, <1>11, <1>12, <2>1 DEF LoadLevel
<1>13. ASSUME ReportLine PROVE StrInv'
  <2>1. /\ stats' \in [Counters \cup {"peak"} -> Nat] /\ counted' \in [Counters -> Nat]
        /\ \A c \in Counters : counted'[c] = counted[c] + stats[c] /\ stats'[c] = 0
        /\ \A c \in Counters : counted[c] \in Nat /\ stats[c] \in Nat
    BY <1>1, <1>13, StreamBounds DEF ReportLine, Swapped
  <2>2. report' \in [busy : BOOLEAN, open : Nat, done : Nat]
    BY <1>1, <1>13 DEF ReportLine
  <2>3. QED BY <1>11, <1>13, <2>1, <2>2 DEF ReportLine
<1>14. ASSUME UNCHANGED strVars PROVE StrInv'
  BY <1>1, <1>11, <1>14 DEF strVars
<1>15. QED
  BY <1>2, <1>3, <1>4, <1>7, <1>8, <1>9, <1>10, <1>12, <1>13, <1>14 DEF StrNext

\* The relay's door never leaks: the slots and the line budget are given back and
\* an outcome is counted once, on every way out of a stream's task, whatever the
\* reporter does meanwhile (main.rs, ConnGuard and LineBudget; stats.rs, take_line).
THEOREM StreamsAreKept == StrSpec => []StreamsHold
<1>1. ASSUME StrInit PROVE StrInv
  <2>1. StrTypes /\ \A s \in Streams : TaskSound(task[s])
    BY <1>1, StreamBounds DEF StrInit, StrTypes, Tasks, TaskSound, Outcomes
  <2>2. Live = {} /\ \A c \in Counters : Ended(c) = {}
    BY <1>1, StreamBounds DEF StrInit, Live, Ended
  <2>3. Total(Streams, Shares) = 0
    <3>1. Units(Streams, Shares) = {}
      BY <1>1 DEF StrInit, Units, Shares
    <3>2. QED BY <3>1, FS_EmptySet DEF Total
  <2>4. SlotsAndBytesExact /\ Cardinality(Live) <= cap
    BY <1>1, <2>2, <2>3, FS_EmptySet, StreamBounds DEF StrInit, SlotsAndBytesExact
  <2>5. CountedOnce
    <3>1. \A c \in Counters : counted[c] = 0 /\ stats[c] = 0
      BY <1>1 DEF StrInit
    <3>2. \A c \in Counters : counted[c] + stats[c] = Cardinality(Ended(c))
      BY <2>2, <3>1, FS_EmptySet
    <3>3. QED BY <3>2 DEF CountedOnce, Ended
  <2>6. QED BY <1>1, <2>1, <2>4, <2>5 DEF StrInv, StrInit
<1>2. StrInv => StreamsHold
  BY DEF StrInv, StrTypes, StreamsHold, StrTypeOK, Tasks
<1>3. QED
  BY <1>1, <1>2, StreamStep, PTL DEF StrSpec

-----------------------------------------------------------------------------
(* Pairing.                                                                *)

\* Nobody joins while a Hello between the two is on its way, and no former
\* contact is refused for its code.
OrderlyPairs == \A c \in PairCases : ~c.crossing /\ ~c.returning

FrameKinds == {"Hello", "Approved", "RelaySet", "CodeInUse", "Closed"}
Frames == [kind : FrameKinds, from : Peers, to : Peers, otk : {0} \cup Otks]
AccessNames == {PeerName(p) : p \in Peers} \cup {PassName(n) : n \in Otks}
AllowLists == SUBSET [name : AccessNames, key : Keys]
Presents == Keys \cup {NoKey}
RelaysOK ==
    /\ relayList \in [Peers -> RelaySets]
    /\ relaySetOut \in [Peers -> [Peers -> Announcements \cup {NoSet}]]
Invites == [by : Peers, unused : BOOLEAN, taken : BOOLEAN]
PairTypes ==
    /\ chatOf \in [Peers -> [Peers -> Chats \cup {NoChat}]]
    /\ allow \in [Peers -> AllowLists]
    /\ present \in [Peers -> [Peers -> Presents]]
    /\ pairNet \subseteq Frames
    /\ \E n \in 0 .. MaxInvites : invs \in [1 .. n -> Invites]
    /\ lastCode \in [Peers -> {0} \cup Otks]
    /\ consent \in [Peers -> SUBSET Peers]
    /\ RelaysOK
    /\ pairLeft \in PairCase /\ ~pairLeft.crossing /\ ~pairLeft.returning

Admits(s, p, k) == [name |-> PeerName(p), key |-> k] \in allow[s]
\* The two ends of a session: p published the invite of s's chat, or s did.
Joined(s, p) == invs[chatOf[s][p].session].by = p
Hosted(s, p) == invs[chatOf[s][p].session].by = s
HelloBetween(s, p) == \E f \in pairNet : f.kind = "Hello" /\ {f.from, f.to} = {s, p}

\* A Hello on its way is the only one between its two devices, and is of the
\* session its sender has, if it still has one.
HelloOK(f) ==
    /\ f.from # f.to /\ f.otk \in DOMAIN invs
    /\ invs[f.otk].by = f.to /\ invs[f.otk].taken /\ invs[f.otk].unused
    /\ Has(f.from, f.to) => chatOf[f.from][f.to].session = f.otk
    /\ \A g \in pairNet :
          g.kind = "Hello" /\ ({g.from, g.to} = {f.from, f.to} \/ g.otk = f.otk) => g = f
InvsOK == \A n \in DOMAIN invs : ~invs[n].taken => invs[n].unused
FramesOK == \A f \in pairNet : f.kind = "Hello" => HelloOK(f)

\* The end that joined admits the host and presents the pass, or its own key.
JoinedOK(s, p) ==
    LET c == chatOf[s][p] IN
    /\ c.authorized /\ Admits(s, p, Key("reply", c.session))
    /\ \/ present[s][p] = Key("own", c.session) /\ c.ownPending = NoKey
       \/ present[s][p] = Key("pass", c.session) /\ c.ownPending = Key("own", c.session)
\* The end that hosts admits and presents what the Hello brought, once its user
\* agreed, unless a RelaySet on the session took the key of an earlier join.
HostedOK(s, p) ==
    LET c == chatOf[s][p] IN
    /\ ~invs[c.session].unused
    /\ c.authorized => /\ Admits(s, p, Key("own", c.session))
                       /\ present[s][p] = Key("reply", c.session) \/ TookOldKey(s, p)
    /\ ~c.authorized => /\ c.keyPending = Key("own", c.session)
                        /\ c.passPending = Key("reply", c.session) /\ ~c.awaiting
\* The own key that waits was made for an invite of the peer.
OwnOK(s, p) ==
    LET k == chatOf[s][p].ownPending IN
    k # NoKey => k.kind = "own" /\ k.otk \in DOMAIN invs /\ invs[k.otk].by = p
ChatOK(s, p) ==
    LET c == chatOf[s][p] IN
    /\ s # p /\ c.session \in DOMAIN invs /\ invs[c.session].taken
    /\ Joined(s, p) \/ Hosted(s, p)
    /\ Joined(s, p) => JoinedOK(s, p)
    /\ Hosted(s, p) => HostedOK(s, p)
    /\ c.authorized => p \in consent[s]
    /\ c.verified # 0 => c.verified = c.session
    /\ OwnOK(s, p)
ChatsOK == \A s, p \in Peers : Has(s, p) => ChatOK(s, p)

\* Two ends with no Hello between them are of one session, and one of them at least
\* will know it may write.  Once the end that hosts records an announcement of this
\* session, the one that joined presents its own key, or will.
Told(p, s, n) == chatOf[p][s].session = n /\ chatOf[p][s].told.otk = n
PairOK(s, p) ==
    /\ ~HelloBetween(s, p) =>
          /\ chatOf[s][p].session = chatOf[p][s].session
          /\ chatOf[s][p].awaiting /\ chatOf[p][s].awaiting =>
                Frame("Approved", s, p, 0) \in pairNet \/ Frame("Approved", p, s, 0) \in pairNet
    /\ Joined(s, p) /\ Told(p, s, chatOf[s][p].session) =>
          \/ present[s][p] = Key("own", chatOf[s][p].session)
          \/ Frame("RelaySet", p, s, chatOf[s][p].session) \in pairNet
PairsOK == \A s, p \in Peers : Has(s, p) /\ Has(p, s) => PairOK(s, p)

\* What is admitted is a peer of a chat, or the pass of an own invite nobody used.
HasReason(s, e) ==
    \/ \E p \in Peers : e.name = PeerName(p) /\ Has(s, p)
    \/ \E n \in DOMAIN invs : e.name = PassName(n) /\ invs[n].unused /\ invs[n].by = s
AccessOK == \A s \in Peers : \A e \in allow[s] : HasReason(s, e)

PairInv ==
    PairTypes /\ InvsOK /\ FramesOK /\ ChatsOK /\ PairsOK /\ AccessOK /\ ContactsWithinCap

\* What a step on the chat of s with p leaves as it was.
OthersStay(s, p) ==
    /\ \A x, y \in Peers : x # s \/ y # p =>
          /\ chatOf'[x][y] = chatOf[x][y] /\ present'[x][y] = present[x][y]
          /\ y \in consent[x] => y \in consent'[x]
          /\ \A e \in allow[x] : e.name = PeerName(y) => e \in allow'[x]
    /\ \A n \in DOMAIN invs :
          /\ n \in DOMAIN invs' /\ invs'[n].by = invs[n].by
          /\ invs[n].taken => invs'[n].taken
          /\ invs'[n].unused => invs[n].unused

LEMMA ChatIsNotNone == \A c \in Chats : c # NoChat /\ c.session # 0
BY DEF Chats, NoChat, Otks

LEMMA NamesDiffer ==
    /\ \A p, q : PeerName(p) = PeerName(q) => p = q
    /\ \A p, n : PeerName(p) # PassName(n)
    /\ \A n, m : PassName(n) = PassName(m) => n = m
    /\ \A p, n : /\ PeerName(p)[1] = "peer" /\ PeerName(p)[2] = p
                 /\ PassName(n)[1] = "pass" /\ PassName(n)[2] = n
BY DEF PeerName, PassName

LEMMA KeyTypes ==
    ASSUME NEW n \in Otks
    PROVE  /\ Key("pass", n) \in Keys /\ Key("own", n) \in Keys /\ Key("reply", n) \in Keys
           /\ Key("pass", n) \in Presents /\ Key("own", n) \in Presents /\ Key("reply", n) \in Presents
           /\ Key("pass", n) # NoKey /\ Key("own", n) # NoKey /\ Key("reply", n) # NoKey
BY DEF Key, Keys, NoKey, Presents

\* authorize_client on one name.
LEMMA AuthorizedOnly ==
    ASSUME NEW entries \in AllowLists,
           NEW name \in AccessNames, NEW key \in Presents
    PROVE  /\ Authorized(entries, name, key) \in AllowLists
           /\ Revoked(entries, name) \in AllowLists
           /\ key # NoKey => [name |-> name, key |-> key] \in Authorized(entries, name, key)
           /\ \A e \in entries : e.name # name => e \in Authorized(entries, name, key)
           /\ \A e \in Authorized(entries, name, key) : e.name = name \/ e \in entries
           /\ \A e : e \in Revoked(entries, name) <=> e \in entries /\ e.name # name
BY DEF Authorized, Revoked, AllowLists, Presents

LEMMA ChatPut ==
    ASSUME PairTypes, NEW s \in Peers, NEW p \in Peers, NEW c \in Chats \cup {NoChat},
           PutChat(s, p, c)
    PROVE  /\ chatOf' \in [Peers -> [Peers -> Chats \cup {NoChat}]]
           /\ chatOf'[s][p] = c
           /\ \A x, y \in Peers : x # s \/ y # p => chatOf'[x][y] = chatOf[x][y]
BY DEF PutChat, PairTypes

LEMMA OthersKeepChats ==
    ASSUME PairInv, NEW s \in Peers, NEW p \in Peers, OthersStay(s, p),
           NEW x \in Peers, NEW y \in Peers, x # s \/ y # p, Has(x, y)'
    PROVE  ChatOK(x, y)'
<1>1. /\ chatOf'[x][y] = chatOf[x][y] /\ present'[x][y] = present[x][y]
      /\ y \in consent[x] => y \in consent'[x]
      /\ \A e \in allow[x] : e.name = PeerName(y) => e \in allow'[x]
  BY DEF OthersStay
<1>2. Has(x, y) /\ ChatOK(x, y)
  BY <1>1 DEF PairInv, ChatsOK, Has
<1> DEFINE n == chatOf[x][y].session
<1>3. n \in DOMAIN invs /\ invs[n].taken /\ x # y
  BY <1>2 DEF ChatOK
<1>4. /\ n \in DOMAIN invs' /\ invs'[n].by = invs[n].by /\ invs'[n].taken
      /\ invs'[n].unused => invs[n].unused
  BY <1>3 DEF OthersStay
<1>5. \A k : Admits(x, y, k) => Admits(x, y, k)'
  BY <1>1 DEF Admits
<1>6. (Joined(x, y)' <=> Joined(x, y)) /\ (Hosted(x, y)' <=> Hosted(x, y))
  BY <1>1, <1>4 DEF Joined, Hosted
<1>7. Joined(x, y)' => JoinedOK(x, y)'
  BY <1>1, <1>2, <1>5, <1>6 DEF ChatOK, JoinedOK
<1>8. Hosted(x, y)' => HostedOK(x, y)'
  BY <1>1, <1>2, <1>4, <1>5, <1>6 DEF ChatOK, HostedOK, TookOldKey
<1>9. OwnOK(x, y)'
  BY <1>1, <1>2 DEF ChatOK, OwnOK, OthersStay
<1>10. QED BY <1>1, <1>2, <1>3, <1>4, <1>6, <1>7, <1>8, <1>9 DEF ChatOK

LEMMA OthersKeepPairs ==
    ASSUME PairInv, NEW s \in Peers, NEW p \in Peers, OthersStay(s, p),
           \A f \in pairNet : {f.from, f.to} # {s, p} => f \in pairNet',
           NEW x \in Peers, NEW y \in Peers, {x, y} # {s, p}, Has(x, y)', Has(y, x)'
    PROVE  PairOK(x, y)'
<1>1. /\ chatOf'[x][y] = chatOf[x][y] /\ chatOf'[y][x] = chatOf[y][x]
      /\ present'[x][y] = present[x][y]
  BY DEF OthersStay
<1>2. Has(x, y) /\ Has(y, x) /\ PairOK(x, y) /\ ChatOK(x, y)
  BY <1>1 DEF PairInv, PairsOK, ChatsOK, Has
<1>3. HelloBetween(x, y) => HelloBetween(x, y)'
  BY DEF HelloBetween
<1>4. Joined(x, y)' <=> Joined(x, y)
  BY <1>1, <1>2 DEF Joined, ChatOK, OthersStay
<1>5. \A k, n : /\ Frame(k, x, y, n) \in pairNet => Frame(k, x, y, n) \in pairNet'
               /\ Frame(k, y, x, n) \in pairNet => Frame(k, y, x, n) \in pairNet'
  BY DEF Frame
<1>6. (~HelloBetween(x, y) =>
          /\ chatOf[x][y].session = chatOf[y][x].session
          /\ chatOf[x][y].awaiting /\ chatOf[y][x].awaiting =>
                Frame("Approved", x, y, 0) \in pairNet \/ Frame("Approved", y, x, 0) \in pairNet)'
  BY <1>1, <1>2, <1>3, <1>5 DEF PairOK, Frame
<1>7. (Joined(x, y) /\ Told(y, x, chatOf[x][y].session) =>
          \/ present[x][y] = Key("own", chatOf[x][y].session)
          \/ Frame("RelaySet", y, x, chatOf[x][y].session) \in pairNet)'
  BY <1>1, <1>2, <1>4, <1>5 DEF PairOK, Told, Frame, Key
<1>8. QED BY <1>6, <1>7 DEF PairOK

\* A step that adds no Hello and moves no chat to another session.
LEMMA CalmFrames ==
    ASSUME PairInv, PairTypes',
           \A n \in DOMAIN invs : n \in DOMAIN invs' /\ invs'[n] = invs[n],
           \A x, y \in Peers : Has(x, y)' => Has(x, y) /\ chatOf'[x][y].session = chatOf[x][y].session,
           \A f \in pairNet' : f.kind = "Hello" => f \in pairNet
    PROVE  FramesOK'
<1> SUFFICES ASSUME NEW f \in pairNet', f.kind = "Hello" PROVE HelloOK(f)'
  BY DEF FramesOK
<1>1. f.from \in Peers /\ f.to \in Peers
  BY DEF PairTypes, Frames
<1>2. f \in pairNet /\ HelloOK(f)
  BY DEF PairInv, FramesOK
<1>3. f.otk \in DOMAIN invs' /\ invs'[f.otk] = invs[f.otk]
  BY <1>2 DEF HelloOK
<1>4. Has(f.from, f.to)' => chatOf'[f.from][f.to].session = f.otk
  BY <1>1, <1>2 DEF HelloOK
<1>5. \A g \in pairNet' :
          g.kind = "Hello" /\ ({g.from, g.to} = {f.from, f.to} \/ g.otk = f.otk) => g = f
  BY <1>2 DEF HelloOK
<1>6. QED BY <1>2, <1>3, <1>4, <1>5 DEF HelloOK

\* A contact more, within the cap.
LEMMA OneMoreContact ==
    ASSUME NEW T, NEW U, NEW q, IsFiniteSet(T), Cardinality(T) <= MaxContacts, U \subseteq T \cup {q},
           q \in T \/ Cardinality(T) < MaxContacts
    PROVE  Cardinality(U) <= MaxContacts
<1>1. MaxContacts \in Nat /\ Cardinality(T) \in Nat
  BY PairingAssumption, FS_CardinalityType
<1>2. IsFiniteSet(T \cup {q}) /\ (q \in T => T \cup {q} = T)
      /\ Cardinality(T \cup {q}) \in Nat /\ Cardinality(T \cup {q}) <= Cardinality(T) + 1
  <2>1. IsFiniteSet(T \cup {q}) /\ Cardinality(T \cup {q}) = IF q \in T THEN Cardinality(T) ELSE Cardinality(T) + 1
    BY FS_AddElement
  <2>2. QED BY <1>1, <2>1
<1>3. Cardinality(T \cup {q}) <= MaxContacts
  <2>1. CASE q \in T
    <3>1. Cardinality(T \cup {q}) = Cardinality(T)
      BY <1>2, <2>1
    <3>2. QED BY <3>1
  <2>2. CASE Cardinality(T) < MaxContacts
    BY <1>1, <1>2, <2>2
  <2>3. QED BY <2>1, <2>2
<1>4. Cardinality(U) <= Cardinality(T \cup {q}) /\ Cardinality(U) \in Nat
  BY <1>2, FS_Subset, FS_CardinalityType
<1>5. QED BY <1>1, <1>2, <1>3, <1>4

LEMMA ContactsAreFinite ==
    ASSUME NEW s PROVE IsFiniteSet(OpenContacts(s))
<1>1. OpenContacts(s) \in SUBSET Peers /\ IsFiniteSet(Peers)
  BY PairingAssumption DEF OpenContacts
<1>2. QED BY <1>1, FS_Subset

\* A step that opens no chat but that of s with p, for which there is room.
LEMMA CapKept ==
    ASSUME PairInv, NEW s \in Peers, NEW p \in Peers,
           \A x, y \in Peers : Open(x, y)' => Open(x, y) \/ (x = s /\ y = p /\ CapAllows(s, p))
    PROVE  ContactsWithinCap'
<1> SUFFICES ASSUME NEW x \in Peers PROVE (Cardinality(OpenContacts(x)) <= MaxContacts)'
  BY DEF ContactsWithinCap
<1>1. Cardinality(OpenContacts(x)) <= MaxContacts /\ IsFiniteSet(OpenContacts(x))
  BY ContactsAreFinite DEF PairInv, ContactsWithinCap
<1> DEFINE U == {y \in Peers : Open(x, y)'}
<1>2. CASE x = s /\ CapAllows(s, p)
  <2>1. U \subseteq OpenContacts(x) \cup {p}
    BY DEF OpenContacts
  <2>2. p \in OpenContacts(x) \/ Cardinality(OpenContacts(x)) < MaxContacts
    BY <1>2 DEF CapAllows, OpenContacts
  <2>3. Cardinality(U) <= MaxContacts
    BY <1>1, <2>1, <2>2, OneMoreContact
  <2>4. QED BY <2>3 DEF OpenContacts
<1>3. CASE ~(x = s /\ CapAllows(s, p))
  <2>1. U \subseteq OpenContacts(x)
    BY <1>3 DEF OpenContacts
  <2>2. Cardinality(U) <= Cardinality(OpenContacts(x)) /\ Cardinality(U) \in Nat
        /\ Cardinality(OpenContacts(x)) \in Nat /\ MaxContacts \in Nat
    BY <1>1, <2>1, FS_Subset, FS_CardinalityType, PairingAssumption
  <2>3. Cardinality(U) <= MaxContacts
    BY <1>1, <2>2
  <2>4. QED BY <2>3 DEF OpenContacts
<1>4. QED BY <1>2, <1>3

\* The allow list of s alone changes.
LEMMA AccessKept ==
    ASSUME PairInv, NEW s \in Peers,
           \A x \in Peers : x # s => allow'[x] = allow[x],
           \A x, y \in Peers : x # s /\ Has(x, y) => Has(x, y)',
           \A n \in DOMAIN invs :
               n \in DOMAIN invs' /\ invs'[n].by = invs[n].by
               /\ (invs[n].by # s => invs'[n].unused = invs[n].unused),
           \A e \in allow'[s] : HasReason(s, e)'
    PROVE  AccessOK'
<1> SUFFICES ASSUME NEW x \in Peers, NEW e \in allow'[x] PROVE HasReason(x, e)'
  BY DEF AccessOK
<1>1. CASE x # s
  <2>1. HasReason(x, e)
    BY <1>1 DEF PairInv, AccessOK
  <2>2. CASE \E p \in Peers : e.name = PeerName(p) /\ Has(x, p)
    BY <1>1, <2>2 DEF HasReason
  <2>3. CASE \E n \in DOMAIN invs : e.name = PassName(n) /\ invs[n].unused /\ invs[n].by = x
    BY <1>1, <2>3 DEF HasReason
  <2>4. QED BY <2>1, <2>2, <2>3 DEF HasReason
<1>2. QED BY <1>1

LEMMA AllChatsKept ==
    ASSUME PairInv, NEW s \in Peers, NEW p \in Peers, OthersStay(s, p), Has(s, p)' => ChatOK(s, p)'
    PROVE  ChatsOK'
<1> SUFFICES ASSUME NEW x \in Peers, NEW y \in Peers, Has(x, y)' PROVE ChatOK(x, y)'
  BY DEF ChatsOK
<1>1. CASE x # s \/ y # p
  BY <1>1, OthersKeepChats
<1>2. QED BY <1>1

LEMMA AllPairsKept ==
    ASSUME PairInv, NEW s \in Peers, NEW p \in Peers, OthersStay(s, p),
           \A f \in pairNet : {f.from, f.to} # {s, p} => f \in pairNet',
           Has(s, p)' /\ Has(p, s)' => PairOK(s, p)' /\ PairOK(p, s)'
    PROVE  PairsOK'
<1> SUFFICES ASSUME NEW x \in Peers, NEW y \in Peers, Has(x, y)', Has(y, x)' PROVE PairOK(x, y)'
  BY DEF PairsOK
<1>1. CASE {x, y} # {s, p}
  BY <1>1, OthersKeepPairs
<1>2. CASE {x, y} = {s, p}
  <2>1. (x = s /\ y = p) \/ (x = p /\ y = s)
    BY <1>2
  <2>2. QED BY <2>1
<1>3. QED BY <1>1, <1>2

\* The counters of a case.
LEMMA LeftStays ==
    ASSUME PairTypes, \/ UNCHANGED pairLeft
                      \/ pairLeft.ends > 0 /\ pairLeft' = [pairLeft EXCEPT !.ends = @ - 1]
                      \/ pairLeft.verifies > 0 /\ pairLeft' = [pairLeft EXCEPT !.verifies = @ - 1]
                      \/ pairLeft.expiries > 0 /\ pairLeft' = [pairLeft EXCEPT !.expiries = @ - 1]
                      \/ pairLeft.edits > 0 /\ pairLeft' = [pairLeft EXCEPT !.edits = @ - 1]
                      \/ pairLeft.fails > 0 /\ pairLeft' = [pairLeft EXCEPT !.fails = @ - 1]
    PROVE  pairLeft' \in PairCase /\ ~pairLeft'.crossing /\ ~pairLeft'.returning
<1>1. pairLeft \in PairCase /\ ~pairLeft.crossing /\ ~pairLeft.returning
  BY DEF PairTypes
<1>2. /\ pairLeft' \in PairCase /\ pairLeft'.crossing = pairLeft.crossing
      /\ pairLeft'.returning = pairLeft.returning
  BY <1>1 DEF PairCase
<1>3. QED BY <1>1, <1>2

\* announce_relay_set_to.
LEMMA AnnounceTyped ==
    ASSUME RelaysOK, NEW s \in Peers, NEW p \in Peers, NEW c \in Chats \cup {NoChat}, AnnounceTo(s, p, c)
    PROVE  relaySetOut' \in [Peers -> [Peers -> Announcements \cup {NoSet}]]
<1>1. CASE Due(s, c)
  <2>1. c \in Chats
    BY <1>1 DEF Due
  <2>2. [set |-> relayList[s], otk |-> c.session] \in Announcements
    BY <2>1 DEF RelaysOK, Chats, Announcements
  <2>3. PICK v \in Announcements : v = [set |-> relayList[s], otk |-> c.session]
    BY <2>2
  <2>4. relaySetOut' = relaySetOut \/ relaySetOut' = [relaySetOut EXCEPT ![s][p] = v]
    BY <2>3 DEF AnnounceTo
  <2>5. QED BY <2>4 DEF RelaysOK
<1>2. CASE ~Due(s, c)
  BY <1>2 DEF AnnounceTo, RelaysOK
<1>3. QED BY <1>1, <1>2

\* A step that changes no chat's session or keys, loses no frame that carries
\* them, and records as told on the session what is on its way.
LEMMA TouchKeeps ==
    ASSUME PairInv, NEW s \in Peers, NEW p \in Peers, NEW d \in Chats \cup {NoChat},
           chatOf' \in [Peers -> [Peers -> Chats \cup {NoChat}]], chatOf'[s][p] = d,
           \A x, y \in Peers : x # s \/ y # p => chatOf'[x][y] = chatOf[x][y],
           d # NoChat =>
               LET c == chatOf[s][p] IN
               /\ Has(s, p) /\ d.session = c.session /\ d.authorized = c.authorized
               /\ d.ownPending = c.ownPending /\ d.keyPending = c.keyPending
               /\ d.passPending = c.passPending /\ (d.awaiting => c.awaiting)
               /\ (~d.closed => ~c.closed) /\ (d.verified # 0 => d.verified = d.session)
               /\ \/ d.told = c.told
                  \/ d.told.otk = d.session => Frame("RelaySet", s, p, d.session) \in pairNet',
           Has(s, p) => d # NoChat,
           UNCHANGED <<allow, present, invs, lastCode, consent>>,
           pairLeft' \in PairCase, ~pairLeft'.crossing, ~pairLeft'.returning, RelaysOK',
           \A f \in pairNet' : f \in pairNet \/ (f \in Frames /\ f.kind = "RelaySet"),
           \A f \in pairNet : f \notin pairNet' =>
               /\ f.from = p /\ f.to = s /\ f.kind # "Hello" /\ f.kind # "RelaySet"
               /\ f.kind = "Approved" /\ d # NoChat => ~d.awaiting
    PROVE  PairInv'
<1>1. PairTypes'
  BY DEF PairTypes, PairInv
<1>2. OthersStay(s, p)
  BY DEF OthersStay
<1>3. InvsOK'
  BY DEF PairInv, InvsOK
<1>4. \A x, y \in Peers : /\ Has(x, y)' <=> Has(x, y)
                          /\ Has(x, y) => chatOf'[x][y].session = chatOf[x][y].session
  BY DEF Has
<1>5. FramesOK'
  BY <1>1, <1>4, CalmFrames
<1>6. ASSUME Has(s, p)' PROVE ChatOK(s, p)'
  <2>1. d # NoChat /\ Has(s, p) /\ ChatOK(s, p)
    BY <1>6 DEF Has, PairInv, ChatsOK
  <2>2. \A k : Admits(s, p, k)' <=> Admits(s, p, k)
    BY DEF Admits
  <2>3. (Joined(s, p)' <=> Joined(s, p)) /\ (Hosted(s, p)' <=> Hosted(s, p))
    BY <2>1 DEF Joined, Hosted
  <2>4. Joined(s, p)' => JoinedOK(s, p)'
    BY <2>1, <2>2, <2>3 DEF ChatOK, JoinedOK
  <2>5. Hosted(s, p)' => HostedOK(s, p)'
    BY <2>1, <2>2, <2>3 DEF ChatOK, HostedOK, TookOldKey
  <2>6. OwnOK(s, p)'
    BY <2>1 DEF ChatOK, OwnOK
  <2>7. QED BY <2>1, <2>3, <2>4, <2>5, <2>6 DEF ChatOK
<1>7. ChatsOK'
  BY <1>2, <1>6, AllChatsKept
<1>8. ASSUME Has(s, p)', Has(p, s)' PROVE PairOK(s, p)' /\ PairOK(p, s)'
  <2>1. Has(s, p) /\ Has(p, s) /\ ChatOK(s, p) /\ PairOK(s, p) /\ PairOK(p, s) /\ d # NoChat
    BY <1>4, <1>8 DEF Has, PairInv, ChatsOK, PairsOK
  <2>2. s # p /\ chatOf'[p][s] = chatOf[p][s] /\ chatOf'[s][p] = d
    BY <2>1 DEF ChatOK
  <2>3. /\ HelloBetween(s, p)' <=> HelloBetween(s, p)
        /\ HelloBetween(p, s)' <=> HelloBetween(p, s)
    BY DEF HelloBetween
  <2>4. /\ d.awaiting /\ Frame("Approved", s, p, 0) \in pairNet => Frame("Approved", s, p, 0) \in pairNet'
        /\ d.awaiting /\ Frame("Approved", p, s, 0) \in pairNet => Frame("Approved", p, s, 0) \in pairNet'
        /\ \A n : Frame("RelaySet", s, p, n) \in pairNet => Frame("RelaySet", s, p, n) \in pairNet'
        /\ \A n : Frame("RelaySet", p, s, n) \in pairNet => Frame("RelaySet", p, s, n) \in pairNet'
    BY <2>1 DEF Frame
  <2>5. (Joined(s, p)' <=> Joined(s, p)) /\ (Joined(p, s)' <=> Joined(p, s))
    BY <2>1, <2>2 DEF Joined
  <2>6. /\ d.session = chatOf[s][p].session /\ d.authorized = chatOf[s][p].authorized
        /\ d.awaiting => chatOf[s][p].awaiting
    BY <2>1
  <2>7. PairOK(s, p)'
    <3>1. (~HelloBetween(s, p) =>
              /\ chatOf[s][p].session = chatOf[p][s].session
              /\ chatOf[s][p].awaiting /\ chatOf[p][s].awaiting =>
                    Frame("Approved", s, p, 0) \in pairNet \/ Frame("Approved", p, s, 0) \in pairNet)'
      BY <2>1, <2>2, <2>3, <2>4, <2>6 DEF PairOK, Frame
    <3>2. (Joined(s, p) /\ Told(p, s, chatOf[s][p].session) =>
              \/ present[s][p] = Key("own", chatOf[s][p].session)
              \/ Frame("RelaySet", p, s, chatOf[s][p].session) \in pairNet)'
      BY <2>1, <2>2, <2>4, <2>5, <2>6 DEF PairOK, Told, Frame, Key
    <3>3. QED BY <3>1, <3>2 DEF PairOK
  <2>8. PairOK(p, s)'
    <3>1. (~HelloBetween(p, s) =>
              /\ chatOf[p][s].session = chatOf[s][p].session
              /\ chatOf[p][s].awaiting /\ chatOf[s][p].awaiting =>
                    Frame("Approved", p, s, 0) \in pairNet \/ Frame("Approved", s, p, 0) \in pairNet)'
      BY <2>1, <2>2, <2>3, <2>4, <2>6 DEF PairOK, Frame
    <3>2. (Joined(p, s) /\ Told(s, p, chatOf[p][s].session) =>
              \/ present[p][s] = Key("own", chatOf[p][s].session)
              \/ Frame("RelaySet", s, p, chatOf[p][s].session) \in pairNet)'
      <4>1. CASE d.told = chatOf[s][p].told
        BY <2>1, <2>2, <2>4, <2>5, <2>6, <4>1 DEF PairOK, Told, Frame, Key
      <4>2. CASE d.told.otk = d.session => Frame("RelaySet", s, p, d.session) \in pairNet'
        BY <2>2, <4>2 DEF Told, Frame
      <4>3. QED BY <2>1, <4>1, <4>2
    <3>3. QED BY <3>1, <3>2 DEF PairOK
  <2>9. QED BY <2>7, <2>8
<1>9. PairsOK'
  BY <1>2, <1>8, AllPairsKept
<1>10. AccessOK'
  BY <1>4 DEF PairInv, AccessOK, HasReason
<1>11. ContactsWithinCap'
  <2>1. \A x, y \in Peers : Open(x, y)' => Open(x, y)
    BY <1>4 DEF Open, Has
  <2>2. QED BY <2>1, CapKept
<1>12. QED BY <1>1, <1>3, <1>5, <1>7, <1>9, <1>10, <1>11 DEF PairInv

LEMMA VerifyKeeps ==
    ASSUME PairInv, NEW s \in Peers, NEW p \in Peers, Verify(s, p) PROVE PairInv'
<1> DEFINE d == [chatOf[s][p] EXCEPT !.verified = chatOf[s][p].session]
<1>1. /\ Has(s, p) /\ PutChat(s, p, d) /\ PairTypes
      /\ UNCHANGED <<allow, present, pairNet, invs, lastCode, consent>>
      /\ pairLeft' \in PairCase /\ ~pairLeft'.crossing /\ ~pairLeft'.returning /\ RelaysOK'
  <2>1. PairTypes /\ RelaysOK
    BY DEF PairInv, PairTypes
  <2>2. RelaysOK'
    BY <2>1 DEF Verify, RelaysOK, relayVars
  <2>3. QED BY <2>1, <2>2, LeftStays DEF Verify
<1>2. chatOf[s][p] \in Chats
  BY <1>1 DEF Has, PairTypes
<1>3. /\ d \in Chats /\ d.session = chatOf[s][p].session /\ d.authorized = chatOf[s][p].authorized
      /\ d.ownPending = chatOf[s][p].ownPending /\ d.keyPending = chatOf[s][p].keyPending
      /\ d.passPending = chatOf[s][p].passPending /\ d.awaiting = chatOf[s][p].awaiting
      /\ d.closed = chatOf[s][p].closed /\ d.verified = d.session /\ d.told = chatOf[s][p].told
  BY <1>2 DEF Chats
<1>4. d # NoChat
  BY <1>3, ChatIsNotNone
<1> HIDE DEF d
<1>5. QED BY <1>1, <1>3, <1>4, ChatPut, TouchKeeps

\* Approved, CodeInUse and Closed.
LEMMA NoticeKeeps ==
    ASSUME PairInv, NEW f \in pairNet, RecvApproved(f) \/ RecvCodeInUse(f) \/ RecvClosed(f)
    PROVE  PairInv'
<1> DEFINE s == f.to
           p == f.from
           d == chatOf'[s][p]
           c == chatOf[s][p]
<1>1. PairTypes /\ f \in Frames /\ s \in Peers /\ p \in Peers /\ c \in Chats \cup {NoChat}
  BY DEF PairInv, PairTypes, Frames
<1>2. /\ UNCHANGED <<allow, present, invs, lastCode, consent, pairLeft>> /\ pairNet' = pairNet \ {f}
      /\ f.kind # "Hello" /\ f.kind # "RelaySet" /\ (f.kind = "Approved" => RecvApproved(f))
  BY DEF RecvApproved, RecvCodeInUse, RecvClosed
<1>3. pairLeft' \in PairCase /\ ~pairLeft'.crossing /\ ~pairLeft'.returning /\ RelaysOK'
  <2>1. RelaysOK
    BY <1>1 DEF PairTypes
  <2>2. ASSUME RecvApproved(f) PROVE RelaysOK'
    <3>1. relaySetOut' \in [Peers -> [Peers -> Announcements \cup {NoSet}]]
      <4>1. AnnounceTo(s, p, c)
        BY <2>2 DEF RecvApproved
      <4> HIDE DEF s, p, c
      <4>2. QED BY <1>1, <2>1, <4>1, AnnounceTyped
    <3>2. QED BY <2>1, <2>2, <3>1 DEF RelaysOK, RecvApproved
  <2>3. ASSUME RecvCodeInUse(f) \/ RecvClosed(f) PROVE RelaysOK'
    BY <2>1, <2>3 DEF RelaysOK, RecvCodeInUse, RecvClosed, relayVars
  <2>4. QED BY <1>1, <1>2, <2>2, <2>3 DEF PairTypes
<1>4. CASE UNCHANGED chatOf
  <2>1. c = NoChat \/ (c \in Chats /\ Has(s, p) /\ ChatOK(s, p))
    BY <1>1 DEF Has, PairInv, ChatsOK
  <2>2. f.kind = "Approved" /\ c # NoChat => ~c.awaiting
    BY <1>1, <1>2, <1>4, <2>1 DEF RecvApproved, PairTypes, Chats
  <2>3. chatOf' \in [Peers -> [Peers -> Chats \cup {NoChat}]] /\ d = c
    BY <1>1, <1>4 DEF PairTypes
  <2>4. c.verified # 0 /\ c # NoChat => c.verified = c.session
    BY <2>1 DEF ChatOK
  <2>5. Has(s, p) <=> c # NoChat
    BY DEF Has
  <2> HIDE DEF s, p
  <2>6. QED BY <1>1, <1>2, <1>3, <1>4, <2>2, <2>3, <2>4, <2>5, TouchKeeps DEF s, p
<1>5. CASE RecvApproved(f) /\ Has(s, p)
  <2>1. c \in Chats /\ ChatOK(s, p)
    BY <1>1, <1>5 DEF Has, PairInv, ChatsOK
  <2> DEFINE e == [c EXCEPT !.awaiting = FALSE]
  <2>2. PutChat(s, p, e)
    BY <1>1, <1>5 DEF RecvApproved, PutChat, PairTypes
  <2>3. /\ e \in Chats /\ e.session = c.session /\ e.authorized = c.authorized
        /\ e.ownPending = c.ownPending /\ e.keyPending = c.keyPending
        /\ e.passPending = c.passPending /\ e.awaiting = FALSE
        /\ e.closed = c.closed /\ e.verified = c.verified /\ e.told = c.told
    BY <2>1 DEF Chats
  <2>4. e # NoChat /\ (e.verified # 0 => e.verified = e.session)
    BY <2>1, <2>3, ChatIsNotNone DEF ChatOK
  <2> HIDE DEF e, s, p
  <2>5. /\ chatOf' \in [Peers -> [Peers -> Chats \cup {NoChat}]] /\ chatOf'[s][p] = e
        /\ \A x, y \in Peers : x # s \/ y # p => chatOf'[x][y] = chatOf[x][y]
    BY <1>1, <2>2, <2>3, ChatPut
  <2>6. QED BY <1>1, <1>2, <1>3, <1>5, <2>3, <2>4, <2>5, TouchKeeps DEF s, p
<1>6. CASE (RecvCodeInUse(f) \/ RecvClosed(f)) /\ Has(s, p) /\ chatOf' # chatOf
  <2>1. c \in Chats /\ ChatOK(s, p)
    BY <1>1, <1>6 DEF Has, PairInv, ChatsOK
  <2> DEFINE r == IF RecvClosed(f) THEN TRUE ELSE c.received
             e == [c EXCEPT !.closed = TRUE, !.received = r]
  <2>2. PutChat(s, p, e) /\ r \in BOOLEAN
    <3>1. CASE RecvClosed(f)
      BY <1>1, <1>6, <2>1, <3>1 DEF RecvClosed, PutChat, PairTypes
    <3>2. CASE ~RecvClosed(f)
      BY <1>1, <1>6, <2>1, <3>2 DEF RecvCodeInUse, PutChat, PairTypes, Chats
    <3>3. QED BY <3>1, <3>2
  <2> HIDE DEF r
  <2>3. /\ e \in Chats /\ e.session = c.session /\ e.authorized = c.authorized
        /\ e.ownPending = c.ownPending /\ e.keyPending = c.keyPending
        /\ e.passPending = c.passPending /\ e.awaiting = c.awaiting
        /\ e.closed = TRUE /\ e.verified = c.verified /\ e.told = c.told
    BY <2>1, <2>2 DEF Chats
  <2>4. e # NoChat /\ (e.verified # 0 => e.verified = e.session)
    BY <2>1, <2>3, ChatIsNotNone DEF ChatOK
  <2>5. f.kind # "Approved"
    BY <1>6 DEF RecvCodeInUse, RecvClosed
  <2> HIDE DEF e, s, p
  <2>6. /\ chatOf' \in [Peers -> [Peers -> Chats \cup {NoChat}]] /\ chatOf'[s][p] = e
        /\ \A x, y \in Peers : x # s \/ y # p => chatOf'[x][y] = chatOf[x][y]
    BY <1>1, <2>2, <2>3, ChatPut
  <2>7. QED BY <1>1, <1>2, <1>3, <1>6, <2>3, <2>4, <2>5, <2>6, TouchKeeps DEF s, p
<1>7. QED BY <1>4, <1>5, <1>6 DEF RecvApproved, RecvCodeInUse, RecvClosed, OpensFrame

\* The invites made so far.
LEMMA InviteCount ==
    ASSUME PairTypes
    PROVE  \E m \in 0 .. MaxInvites :
               invs \in [1 .. m -> Invites] /\ Cardinality(DOMAIN invs) = m /\ DOMAIN invs \subseteq Otks
<1>1. PICK m \in 0 .. MaxInvites : invs \in [1 .. m -> Invites]
  BY DEF PairTypes
<1>2. MaxInvites \in Nat /\ m \in Int /\ 1 \in Int /\ DOMAIN invs = 1 .. m
  BY <1>1, PairingAssumption
<1>3. Cardinality(1 .. m) = IF 1 > m THEN 0 ELSE m - 1 + 1
  BY <1>2, FS_Interval
<1>4. Cardinality(1 .. m) = m
  BY <1>1, <1>2, <1>3
<1>5. QED BY <1>1, <1>2, <1>4 DEF Otks

LEMMA InviteKeeps ==
    ASSUME PairInv, NEW s \in Peers, Invite(s) PROVE PairInv'
<1> DEFINE n == Cardinality(DOMAIN invs) + 1
<1>1. PairTypes
  BY DEF PairInv
<1>2. PICK m \in 0 .. MaxInvites : invs \in [1 .. m -> Invites] /\ Cardinality(DOMAIN invs) = m
  BY <1>1, InviteCount
<1>3. n = m + 1 /\ n \in Otks /\ n \in 1 .. MaxInvites /\ MaxInvites \in Nat /\ n \notin DOMAIN invs
  BY <1>2, PairingAssumption DEF Invite, Otks
<1>4. /\ invs' = [i \in 1 .. n |-> IF i = n THEN [by |-> s, unused |-> TRUE, taken |-> FALSE] ELSE invs[i]]
      /\ allow' = [allow EXCEPT ![s] = Authorized(@, PassName(n), Key("pass", n))]
      /\ lastCode' = [lastCode EXCEPT ![s] = n]
      /\ UNCHANGED <<chatOf, present, pairNet, consent, pairLeft, relayList, relaySetOut>>
  BY DEF Invite, relayVars
<1> HIDE DEF n
<1>5. /\ invs' \in [1 .. n -> Invites] /\ n \in DOMAIN invs'
      /\ invs'[n] = [by |-> s, unused |-> TRUE, taken |-> FALSE]
      /\ \A i \in DOMAIN invs : i \in DOMAIN invs' /\ invs'[i] = invs[i]
      /\ \A i \in DOMAIN invs' : i = n \/ i \in DOMAIN invs
  BY <1>2, <1>3, <1>4 DEF Invites
<1>6. PassName(n) \in AccessNames /\ Key("pass", n) \in Presents
  BY <1>3, KeyTypes DEF AccessNames
<1>7. allow[s] \in AllowLists /\ allow'[s] = Authorized(allow[s], PassName(n), Key("pass", n))
  BY <1>1, <1>4 DEF PairTypes
<1>8. /\ allow'[s] \in AllowLists
      /\ \A e \in allow[s] : e.name # PassName(n) => e \in allow'[s]
      /\ \A e \in allow'[s] : e.name = PassName(n) \/ e \in allow[s]
      /\ \A x \in Peers : x # s => allow'[x] = allow[x]
  <2>1. PICK k \in Presents, w \in AccessNames : k = Key("pass", n) /\ w = PassName(n)
    BY <1>6
  <2>2. /\ allow'[s] \in AllowLists
        /\ \A e \in allow[s] : e.name # w => e \in allow'[s]
        /\ \A e \in allow'[s] : e.name = w \/ e \in allow[s]
    <3>1. allow'[s] = Authorized(allow[s], w, k) /\ allow[s] \in AllowLists
      BY <1>7, <2>1
    <3>2. /\ Authorized(allow[s], w, k) \in AllowLists
          /\ \A e \in allow[s] : e.name # w => e \in Authorized(allow[s], w, k)
          /\ \A e \in Authorized(allow[s], w, k) : e.name = w \/ e \in allow[s]
      BY ONLY <3>1, k \in Presents, w \in AccessNames, AuthorizedOnly
    <3>3. QED BY <3>1, <3>2
  <2>3. \A x \in Peers : x # s => allow'[x] = allow[x]
    BY <1>1, <1>4 DEF PairTypes
  <2>4. QED BY <2>1, <2>2, <2>3
<1>9. PairTypes'
  <2>1. allow' \in [Peers -> AllowLists]
    BY <1>1, <1>4, <1>7, <1>8 DEF PairTypes
  <2>2. lastCode' \in [Peers -> {0} \cup Otks]
    BY <1>1, <1>3, <1>4 DEF PairTypes
  <2>3. n \in 0 .. MaxInvites
    BY <1>3
  <2>4. QED BY <1>1, <1>4, <1>5, <2>1, <2>2, <2>3 DEF PairTypes, RelaysOK
<1>10. OthersStay(s, s)
  <2>1. \A x \in Peers : \A y : \A e \in allow[x] : e.name = PeerName(y) => e \in allow'[x]
    BY <1>8, NamesDiffer
  <2>2. QED BY <1>4, <1>5, <2>1 DEF OthersStay
<1>11. InvsOK'
  BY <1>5 DEF InvsOK, PairInv
<1>12. FramesOK'
  <2>1. \A x, y \in Peers : Has(x, y)' => Has(x, y) /\ chatOf'[x][y].session = chatOf[x][y].session
    BY <1>4 DEF Has
  <2>2. QED BY <1>4, <1>5, <1>9, <2>1, CalmFrames
<1>13. ~Has(s, s)'
  BY <1>4 DEF Has, PairInv, ChatsOK, ChatOK
<1>14. ChatsOK' /\ PairsOK'
  BY <1>4, <1>10, <1>13, AllChatsKept, AllPairsKept
<1>15. AccessOK'
  <2>1. ASSUME NEW e \in allow'[s] PROVE HasReason(s, e)'
    <3>1. CASE e \in allow[s]
      <4>1. HasReason(s, e)
        BY <3>1 DEF PairInv, AccessOK
      <4>2. QED BY <1>4, <1>5, <4>1 DEF HasReason, Has
    <3>2. CASE e.name = PassName(n)
      BY <1>5, <3>2 DEF HasReason
    <3>3. QED BY <1>8, <3>1, <3>2
  <2>2. \A x, y \in Peers : x # s /\ Has(x, y) => Has(x, y)'
    BY <1>4 DEF Has
  <2>3. QED BY <1>5, <1>8, <2>1, <2>2, AccessKept
<1>16. ContactsWithinCap'
  BY <1>4 DEF ContactsWithinCap, OpenContacts, Open, Has, PairInv
<1>17. QED BY <1>9, <1>11, <1>12, <1>14, <1>15, <1>16 DEF PairInv

LEMMA ExpireKeeps ==
    ASSUME PairInv, NEW s \in Peers, ExpirePass(s) PROVE PairInv'
<1>1. PairTypes
  BY DEF PairInv
<1>2. PICK e \in allow[s] : e.name[1] = "pass" /\ allow' = [allow EXCEPT ![s] = @ \ {e}]
  BY DEF ExpirePass
<1>3. /\ UNCHANGED <<chatOf, present, pairNet, invs, lastCode, consent, relayList, relaySetOut>>
      /\ pairLeft' \in PairCase /\ ~pairLeft'.crossing /\ ~pairLeft'.returning
  BY <1>1, LeftStays DEF ExpirePass, relayVars
<1>4. /\ allow'[s] = allow[s] \ {e} /\ \A x \in Peers : x # s => allow'[x] = allow[x]
      /\ allow' \in [Peers -> AllowLists]
  BY <1>1, <1>2 DEF PairTypes, AllowLists
<1>5. PairTypes'
  BY <1>1, <1>3, <1>4 DEF PairTypes, RelaysOK
<1>6. OthersStay(s, s)
  <2>1. \A x, y \in Peers : \A g \in allow[x] : g.name = PeerName(y) => g \in allow'[x]
    BY <1>2, <1>4, NamesDiffer
  <2>2. QED BY <1>3, <2>1 DEF OthersStay
<1>7. InvsOK'
  BY <1>3 DEF InvsOK, PairInv
<1>8. FramesOK'
  <2>1. \A x, y \in Peers : Has(x, y)' => Has(x, y) /\ chatOf'[x][y].session = chatOf[x][y].session
    BY <1>3 DEF Has
  <2>2. QED BY <1>3, <1>5, <2>1, CalmFrames
<1>9. ~Has(s, s)'
  BY <1>3 DEF Has, PairInv, ChatsOK, ChatOK
<1>10. ChatsOK' /\ PairsOK'
  BY <1>3, <1>6, <1>9, AllChatsKept, AllPairsKept
<1>11. AccessOK'
  <2>1. \A x \in Peers : allow'[x] \subseteq allow[x]
    BY <1>4
  <2>2. QED BY <1>3, <2>1 DEF PairInv, AccessOK, HasReason, Has
<1>12. ContactsWithinCap'
  BY <1>3 DEF ContactsWithinCap, OpenContacts, Open, Has, PairInv
<1>13. QED BY <1>5, <1>7, <1>8, <1>10, <1>11, <1>12 DEF PairInv

LEMMA JoinKeeps ==
    ASSUME PairInv, NEW s \in Peers, NEW p \in Peers, Join(s, p) PROVE PairInv'
<1>1. PairTypes /\ ~pairLeft.crossing
  BY DEF PairInv, PairTypes
<1> DEFINE c == chatOf[s][p]
           Chat(n) == [session |-> n, authorized |-> TRUE, closed |-> FALSE, verified |-> 0,
                       awaiting |-> TRUE, received |-> FALSE,
                       code |-> IF Has(s, p) THEN c.code ELSE 0,
                       via |-> n, told |-> [set |-> relayList[s], otk |-> n],
                       ownPending |-> Key("own", n),
                       keyPending |-> IF Has(s, p) THEN c.keyPending ELSE NoKey,
                       passPending |-> IF Has(s, p) THEN c.passPending ELSE NoKey]
<1>2. PICK n \in DOMAIN invs :
        /\ s # p /\ invs[n].by = p /\ ~invs[n].taken /\ ~Crossing(s, p) /\ CapAllows(s, p)
        /\ PutChat(s, p, Chat(n))
        /\ present' = [present EXCEPT ![s][p] = Key("pass", n)]
        /\ allow' = [allow EXCEPT ![s] = Authorized(@, PeerName(p), Key("reply", n))]
        /\ pairNet' = pairNet \cup {Frame("Hello", s, p, n)}
        /\ invs' = [invs EXCEPT ![n].taken = TRUE]
        /\ consent' = [consent EXCEPT ![s] = @ \cup {p}]
  BY <1>1 DEF Join
<1> DEFINE d == Chat(n)
<1>3. n \in Otks /\ UNCHANGED <<lastCode, pairLeft, relayList, relaySetOut>>
  BY <1>1, InviteCount DEF Join, relayVars
<1>4. /\ d \in Chats /\ d.session = n /\ d.authorized = TRUE /\ d.verified = 0
      /\ d.ownPending = Key("own", n)
  <2>1. Has(s, p) => c \in Chats
    BY <1>1 DEF Has, PairTypes
  <2>2. /\ (IF Has(s, p) THEN c.code ELSE 0) \in {0} \cup Otks
        /\ (IF Has(s, p) THEN c.keyPending ELSE NoKey) \in Presents
        /\ (IF Has(s, p) THEN c.passPending ELSE NoKey) \in Presents
    BY <2>1 DEF Chats, Presents
  <2>3. [set |-> relayList[s], otk |-> n] \in Announcements
    BY <1>1, <1>3 DEF PairTypes, RelaysOK, Announcements
  <2>4. QED BY <1>3, <2>2, <2>3, KeyTypes DEF Chats, Presents
<1> HIDE DEF d, Chat
<1>5. /\ chatOf' \in [Peers -> [Peers -> Chats \cup {NoChat}]] /\ chatOf'[s][p] = d
      /\ \A x, y \in Peers : x # s \/ y # p => chatOf'[x][y] = chatOf[x][y]
  BY <1>1, <1>2, <1>4, ChatPut DEF d
<1>6. /\ Key("pass", n) \in Presents /\ Key("own", n) \in Presents /\ Key("reply", n) \in Presents
      /\ Key("reply", n) # NoKey
  BY <1>3, KeyTypes
<1>7. /\ present' \in [Peers -> [Peers -> Presents]] /\ present'[s][p] = Key("pass", n)
      /\ \A x, y \in Peers : x # s \/ y # p => present'[x][y] = present[x][y]
  <2>1. PICK k \in Presents : k = Key("pass", n)
    BY <1>6
  <2>2. present' = [present EXCEPT ![s][p] = k]
    BY <1>2, <2>1
  <2>3. QED BY <1>1, <2>1, <2>2 DEF PairTypes, Presents
<1>8. /\ invs' \in [DOMAIN invs -> Invites] /\ DOMAIN invs' = DOMAIN invs
      /\ invs'[n].taken /\ invs'[n].by = p /\ invs'[n].unused = invs[n].unused
      /\ \A i \in DOMAIN invs : i # n => invs'[i] = invs[i]
      /\ \A i \in DOMAIN invs : invs'[i].by = invs[i].by /\ invs'[i].unused = invs[i].unused
  <2>1. invs \in [DOMAIN invs -> Invites]
    BY <1>1 DEF PairTypes
  <2>2. QED BY <1>2, <2>1 DEF Invites
<1>9. allow[s] \in AllowLists /\ PeerName(p) \in AccessNames
      /\ allow'[s] = Authorized(allow[s], PeerName(p), Key("reply", n))
      /\ \A x \in Peers : x # s => allow'[x] = allow[x]
  BY <1>1, <1>2 DEF PairTypes, AccessNames
<1>10. /\ allow'[s] \in AllowLists
       /\ [name |-> PeerName(p), key |-> Key("reply", n)] \in allow'[s]
       /\ \A e \in allow[s] : e.name # PeerName(p) => e \in allow'[s]
       /\ \A e \in allow'[s] : e.name = PeerName(p) \/ e \in allow[s]
  BY <1>6, <1>9, AuthorizedOnly
<1>11. Frame("Hello", s, p, n) \in Frames
  BY <1>3 DEF Frame, Frames, FrameKinds
<1>12. PairTypes'
  <2>1. allow' \in [Peers -> AllowLists]
    BY <1>1, <1>2, <1>9, <1>10 DEF PairTypes
  <2>2. consent' \in [Peers -> SUBSET Peers]
    BY <1>1, <1>2 DEF PairTypes
  <2>3. \E m \in 0 .. MaxInvites : invs' \in [1 .. m -> Invites]
    BY <1>1, <1>8 DEF PairTypes
  <2>4. RelaysOK'
    BY <1>1, <1>3 DEF PairTypes, RelaysOK
  <2>5. QED BY <1>1, <1>2, <1>3, <1>5, <1>7, <1>11, <2>1, <2>2, <2>3, <2>4 DEF PairTypes
<1>13. /\ \A x \in Peers : consent[x] \subseteq consent'[x]
       /\ p \in consent'[s]
  BY <1>1, <1>2 DEF PairTypes
<1>14. OthersStay(s, p)
  <2>1. \A x, y \in Peers : x # s \/ y # p => \A e \in allow[x] : e.name = PeerName(y) => e \in allow'[x]
    BY <1>9, <1>10, NamesDiffer
  <2>2. \A i \in DOMAIN invs : invs[i].taken => invs'[i].taken
    BY <1>8
  <2>3. QED BY <1>5, <1>7, <1>8, <1>13, <2>1, <2>2 DEF OthersStay
<1>15. InvsOK'
  BY <1>8 DEF InvsOK, PairInv
<1>16. invs[n].unused
  BY <1>2 DEF InvsOK, PairInv
<1>17. FramesOK'
  <2> SUFFICES ASSUME NEW f \in pairNet', f.kind = "Hello" PROVE HelloOK(f)'
    BY DEF FramesOK
  <2> DEFINE h == Frame("Hello", s, p, n)
  <2>1. h.kind = "Hello" /\ h.from = s /\ h.to = p /\ h.otk = n
    BY DEF Frame
  <2> HIDE DEF h
  <2>2. pairNet' = pairNet \cup {h}
    BY <1>2 DEF h
  <2>3. ASSUME NEW g \in pairNet, g.kind = "Hello"
        PROVE  HelloOK(g) /\ g.otk # n /\ {g.from, g.to} # {s, p} /\ g.from \in Peers /\ g.to \in Peers
    <3>1. HelloOK(g)
      BY <2>3 DEF PairInv, FramesOK
    <3>2. {g.from, g.to} # {s, p}
      BY <1>2, <2>3 DEF Crossing
    <3>3. QED BY <1>1, <1>2, <3>1, <3>2 DEF HelloOK, PairTypes, Frames
  <2>4. ASSUME f \in pairNet, f.kind = "Hello" PROVE HelloOK(f)'
    <3>1. HelloOK(f) /\ f.otk # n /\ {f.from, f.to} # {s, p} /\ f.from \in Peers /\ f.to \in Peers
      BY <2>3, <2>4
    <3>2. f.otk \in DOMAIN invs /\ invs'[f.otk] = invs[f.otk]
      BY <1>8, <3>1 DEF HelloOK
    <3>3. Has(f.from, f.to)' => chatOf'[f.from][f.to].session = f.otk
      BY <1>5, <3>1 DEF HelloOK, Has
    <3>4. \A g \in pairNet' :
              g.kind = "Hello" /\ ({g.from, g.to} = {f.from, f.to} \/ g.otk = f.otk) => g = f
      BY <2>1, <2>2, <2>4, <3>1 DEF HelloOK
    <3>5. QED BY <1>8, <3>1, <3>2, <3>3, <3>4 DEF HelloOK
  <2>5. ASSUME f = h PROVE HelloOK(f)'
    <3>1. \A g \in pairNet' :
              g.kind = "Hello" /\ ({g.from, g.to} = {f.from, f.to} \/ g.otk = f.otk) => g = f
      BY <2>1, <2>2, <2>3, <2>5
    <3>2. QED BY ZenonT(30), <1>2, <1>4, <1>5, <1>8, <1>16, <2>1, <2>5, <3>1 DEF HelloOK
  <2>6. QED BY <2>2, <2>4, <2>5
<1>18. ChatOK(s, p)'
  <2>1. Joined(s, p)' /\ ~Hosted(s, p)'
    BY <1>2, <1>4, <1>5, <1>8 DEF Joined, Hosted
  <2>2. JoinedOK(s, p)'
    BY <1>4, <1>5, <1>7, <1>10 DEF JoinedOK, Admits, Key
  <2>3. OwnOK(s, p)'
    BY <1>2, <1>4, <1>5, <1>8 DEF OwnOK, Key
  <2>4. QED BY <1>2, <1>4, <1>5, <1>8, <1>13, <2>1, <2>2, <2>3 DEF ChatOK
<1>19. ChatsOK'
  BY <1>14, <1>18, AllChatsKept
<1>20. ASSUME Has(p, s)' PROVE PairOK(s, p)' /\ PairOK(p, s)'
  <2>1. HelloBetween(s, p)' /\ HelloBetween(p, s)'
    <3>1. Frame("Hello", s, p, n) \in pairNet' /\ Frame("Hello", s, p, n).kind = "Hello"
          /\ Frame("Hello", s, p, n).from = s /\ Frame("Hello", s, p, n).to = p
      BY <1>2 DEF Frame
    <3>2. QED BY <3>1 DEF HelloBetween
  <2>2. chatOf'[p][s] = chatOf[p][s] /\ Has(p, s)
    BY <1>2, <1>5, <1>20 DEF Has
  <2>3. invs[chatOf[p][s].session].taken
    BY <2>2 DEF PairInv, ChatsOK, ChatOK
  <2>4. chatOf'[p][s].session # chatOf'[s][p].session
    BY <1>2, <1>4, <1>5, <2>2, <2>3
  <2>5. QED BY <2>1, <2>4 DEF PairOK, Told
<1>21. PairsOK'
  <2>1. \A f \in pairNet : {f.from, f.to} # {s, p} => f \in pairNet'
    BY <1>2
  <2>2. QED BY <1>14, <1>20, <2>1, AllPairsKept
<1>22. Has(s, p)'
  BY <1>4, <1>5, ChatIsNotNone DEF Has
<1>23. \A x, y \in Peers : Has(x, y) => Has(x, y)'
  BY <1>5, <1>22 DEF Has
<1>24. AccessOK'
  <2>1. ASSUME NEW e \in allow'[s] PROVE HasReason(s, e)'
    <3>1. CASE e \in allow[s]
      <4>1. HasReason(s, e)
        BY <3>1 DEF PairInv, AccessOK
      <4>2. QED BY <1>8, <1>23, <4>1 DEF HasReason
    <3>2. CASE e.name = PeerName(p)
      BY <1>22, <3>2 DEF HasReason
    <3>3. QED BY <1>10, <3>1, <3>2
  <2>2. QED BY <1>8, <1>9, <1>23, <2>1, AccessKept
<1>25. ContactsWithinCap'
  <2>1. \A x, y \in Peers : Open(x, y)' => Open(x, y) \/ (x = s /\ y = p /\ CapAllows(s, p))
    BY <1>2, <1>5 DEF Open, Has
  <2>2. QED BY <2>1, CapKept
<1>26. QED BY <1>12, <1>15, <1>17, <1>19, <1>21, <1>24, <1>25 DEF PairInv

\* A Hello: the chat it leaves at the device that hosts the session.
LEMMA HelloChat ==
    ASSUME PairInv, NEW f \in pairNet, RecvHello(f)
    PROVE  LET s == f.to
               p == f.from
               d == AfterHello(s, p, f.otk)
           IN  /\ d \in Chats /\ d.session = f.otk /\ d.verified = 0
               /\ d.keyPending = Key("own", f.otk) /\ d.passPending = Key("reply", f.otk)
               /\ d.authorized => Open(s, p) /\ p \in consent[s]
               /\ ~d.authorized => ~d.awaiting
               /\ d.told = NoSet
               /\ d.ownPending = NoKey \/ (Has(s, p) /\ d.ownPending = chatOf[s][p].ownPending)
<1> DEFINE s == f.to
           p == f.from
           n == f.otk
           c == chatOf[s][p]
           d == AfterHello(s, p, n)
<1>1. PairTypes /\ HelloOK(f) /\ f.kind = "Hello" /\ s \in Peers /\ p \in Peers
  BY DEF RecvHello, PairInv, FramesOK, PairTypes, Frames
<1>2. n \in Otks /\ lastCode[s] \in {0} \cup Otks
  BY <1>1, InviteCount DEF HelloOK, PairTypes
<1>3. Key("own", n) \in Keys /\ Key("reply", n) \in Keys
  BY <1>2, KeyTypes
<1>4. CASE Has(s, p) /\ ~c.closed
  <2>1. c \in Chats /\ ChatOK(s, p)
    BY <1>1, <1>4 DEF Has, PairTypes, PairInv, ChatsOK
  <2>2. d = Rekeyed(c, n)
    BY <1>4 DEF AfterHello
  <2>3. /\ d \in Chats /\ d.session = n /\ d.verified = 0
        /\ d.keyPending = Key("own", n) /\ d.passPending = Key("reply", n)
        /\ d.authorized = c.authorized /\ d.awaiting = c.awaiting
        /\ d.told = NoSet /\ d.ownPending = c.ownPending
    BY <1>2, <1>3, <2>1, <2>2 DEF Rekeyed, Chats
  <2>4. ~c.authorized => ~c.awaiting
    BY <2>1 DEF ChatOK, JoinedOK, HostedOK
  <2>5. c.authorized => Open(s, p) /\ p \in consent[s]
    BY <1>4, <2>1 DEF Open, ChatOK
  <2> HIDE DEF d
  <2>6. QED BY <1>4, <2>3, <2>4, <2>5 DEF d
<1>5. CASE ~(Has(s, p) /\ ~c.closed)
  <2>1. d = Requested(s, n)
    BY <1>5, Zenon DEF AfterHello
  <2>2. /\ d \in Chats /\ d.session = n /\ d.verified = 0
        /\ d.keyPending = Key("own", n) /\ d.passPending = Key("reply", n)
        /\ d.authorized = FALSE /\ d.awaiting = FALSE /\ d.told = NoSet /\ d.ownPending = NoKey
    BY <1>2, <1>3, <2>1 DEF Requested, Chats
  <2> HIDE DEF d
  <2>3. QED BY <2>2 DEF d
<1>6. QED BY <1>4, <1>5

\* The keys after a Hello.
LEMMA HelloKeys ==
    ASSUME PairInv, NEW f \in pairNet, RecvHello(f)
    PROVE  LET s == f.to
               p == f.from
               d == AfterHello(s, p, f.otk)
           IN  /\ present' \in [Peers -> [Peers -> Presents]]
               /\ \A x, y \in Peers : x # s \/ y # p => present'[x][y] = present[x][y]
               /\ d.authorized => present'[s][p] = Key("reply", f.otk) /\ Admits(s, p, Key("own", f.otk))'
               /\ allow' \in [Peers -> AllowLists]
               /\ \A x \in Peers : x # s => allow'[x] = allow[x]
               /\ \A e \in allow[s] : e.name # PassName(f.otk) /\ e.name # PeerName(p) => e \in allow'[s]
               /\ \A e \in allow'[s] : /\ e.name # PassName(f.otk)
                                       /\ e.name = PeerName(p) \/ e \in allow[s]
<1> DEFINE s == f.to
           p == f.from
           n == f.otk
           d == AfterHello(s, p, n)
           spent == Revoked(allow[s], PassName(n))
<1>1. PairTypes /\ HelloOK(f) /\ s \in Peers /\ p \in Peers
  BY DEF RecvHello, PairInv, FramesOK, PairTypes, Frames
<1>2. n \in Otks
  BY <1>1, InviteCount DEF HelloOK
<1>3. Key("own", n) \in Keys /\ Key("reply", n) \in Keys /\ Key("own", n) # NoKey /\ Key("reply", n) # NoKey
  BY <1>2, KeyTypes
<1>4. d.keyPending = Key("own", n) /\ d.passPending = Key("reply", n)
  BY HelloChat
<1>5. /\ allow' = [allow EXCEPT ![s] = IF d.authorized THEN Authorized(spent, PeerName(p), d.keyPending) ELSE spent]
      /\ present' = IF d.authorized THEN [present EXCEPT ![s][p] = PresentedAfter(s, p, d)] ELSE present
  BY Zenon DEF RecvHello
<1> HIDE DEF d, spent
<1>6. PassName(n) \in AccessNames /\ PeerName(p) \in AccessNames
  BY <1>1, <1>2 DEF AccessNames
<1>7. allow[s] \in AllowLists
  BY <1>1 DEF PairTypes
<1>8. /\ spent \in AllowLists
      /\ \A e : e \in spent <=> e \in allow[s] /\ e.name # PassName(n)
  <2>1. NoKey \in Presents
    BY DEF Presents
  <2>2. QED BY <1>6, <1>7, <2>1, AuthorizedOnly DEF spent
<1>9. allow'[s] = (IF d.authorized THEN Authorized(spent, PeerName(p), Key("own", n)) ELSE spent)
      /\ \A x \in Peers : x # s => allow'[x] = allow[x]
  BY <1>1, <1>4, <1>5 DEF PairTypes
<1>10. PeerName(p) # PassName(n)
  BY NamesDiffer
<1>11. CASE d.authorized
  <2>1. allow'[s] = Authorized(spent, PeerName(p), Key("own", n))
    BY <1>9, <1>11
  <2>2. PICK k \in Presents : k = Key("own", n)
    BY <1>3 DEF Presents
  <2>3. /\ allow'[s] \in AllowLists
        /\ [name |-> PeerName(p), key |-> Key("own", n)] \in allow'[s]
        /\ \A e \in spent : e.name # PeerName(p) => e \in allow'[s]
        /\ \A e \in allow'[s] : e.name = PeerName(p) \/ e \in spent
    <3>1. allow'[s] = Authorized(spent, PeerName(p), k) /\ k # NoKey
      BY <1>3, <2>1, <2>2
    <3>2. QED BY <1>6, <1>8, <2>2, <3>1, AuthorizedOnly
  <2>4. allow' \in [Peers -> AllowLists]
    <3>1. \E z : allow' = [allow EXCEPT ![s] = z]
      BY <1>5
    <3>2. QED BY <1>1, <2>3, <3>1 DEF PairTypes
  <2>5. PresentedAfter(s, p, d) = Key("reply", n)
    BY <1>3, <1>4 DEF PresentedAfter
  <2>6. PICK r \in Presents : r = Key("reply", n) /\ present' = [present EXCEPT ![s][p] = r]
    BY <1>3, <1>5, <1>11, <2>5 DEF Presents
  <2>7. /\ present' \in [Peers -> [Peers -> Presents]] /\ present'[s][p] = Key("reply", n)
        /\ \A x, y \in Peers : x # s \/ y # p => present'[x][y] = present[x][y]
    BY <1>1, <2>6 DEF PairTypes, Presents
  <2>8. Admits(s, p, Key("own", n))'
    BY <2>3 DEF Admits, Key
  <2>9. \A e \in allow[s] : e.name # PassName(n) /\ e.name # PeerName(p) => e \in allow'[s]
    BY <1>8, <2>3
  <2>10. \A e \in allow'[s] : e.name # PassName(n) /\ (e.name = PeerName(p) \/ e \in allow[s])
    BY <1>8, <1>10, <2>3
  <2>11. QED BY <1>9, <2>4, <2>7, <2>8, <2>9, <2>10 DEF d
<1>12. CASE ~d.authorized
  <2>1. allow'[s] = spent /\ present' = present
    BY <1>5, <1>9, <1>12
  <2>2. allow' \in [Peers -> AllowLists]
    <3>1. \E z : allow' = [allow EXCEPT ![s] = z]
      BY <1>5
    <3>2. QED BY <1>1, <1>8, <2>1, <3>1 DEF PairTypes
  <2>3. QED BY <1>1, <1>8, <1>9, <1>12, <2>1, <2>2 DEF d, PairTypes
<1>13. QED BY <1>11, <1>12

LEMMA HelloKeeps ==
    ASSUME PairInv, NEW f \in pairNet, RecvHello(f) PROVE PairInv'
<1> DEFINE s == f.to
           p == f.from
           n == f.otk
           d == AfterHello(s, p, n)
           e == IF d.authorized THEN KeysApplied(d) ELSE d
           news == IF d.authorized THEN {Frame("Approved", s, p, 0)} ELSE {}
<1>1. /\ PairTypes /\ HelloOK(f) /\ s \in Peers /\ p \in Peers /\ f.kind = "Hello" /\ s # p
      /\ n \in DOMAIN invs /\ invs[n].by = s /\ invs[n].taken /\ invs[n].unused
  BY DEF RecvHello, PairInv, FramesOK, PairTypes, Frames, HelloOK
<1>2. n \in Otks
  BY <1>1, InviteCount
<1>3. /\ d \in Chats /\ d.session = n /\ d.verified = 0
      /\ d.keyPending = Key("own", n) /\ d.passPending = Key("reply", n)
      /\ d.authorized => Open(s, p) /\ p \in consent[s]
      /\ ~d.authorized => ~d.awaiting
      /\ d.told = NoSet
      /\ d.ownPending = NoKey \/ (Has(s, p) /\ d.ownPending = chatOf[s][p].ownPending)
  BY HelloChat
<1>4. /\ invs' = [invs EXCEPT ![n].unused = FALSE] /\ PutChat(s, p, e)
      /\ pairNet' = (pairNet \ {f}) \cup news /\ UNCHANGED <<lastCode, consent, relayList, pairLeft>>
      /\ AnnounceTo(s, p, d)
  BY Zenon DEF RecvHello
<1>5. /\ present' \in [Peers -> [Peers -> Presents]]
      /\ \A x, y \in Peers : x # s \/ y # p => present'[x][y] = present[x][y]
      /\ d.authorized => present'[s][p] = Key("reply", n) /\ Admits(s, p, Key("own", n))'
      /\ allow' \in [Peers -> AllowLists]
      /\ \A x \in Peers : x # s => allow'[x] = allow[x]
      /\ \A g \in allow[s] : g.name # PassName(n) /\ g.name # PeerName(p) => g \in allow'[s]
      /\ \A g \in allow'[s] : g.name # PassName(n) /\ (g.name = PeerName(p) \/ g \in allow[s])
  BY HelloKeys
<1> HIDE DEF d
<1>6. /\ e \in Chats /\ e.session = n /\ e.verified = 0 /\ e.authorized = d.authorized
      /\ e.awaiting = d.awaiting
      /\ ~d.authorized => e.keyPending = Key("own", n) /\ e.passPending = Key("reply", n)
      /\ e.closed = d.closed /\ e.told = d.told /\ e.ownPending = d.ownPending
  <2>1. CASE d.authorized
    <3>1. e = [d EXCEPT !.keyPending = NoKey, !.passPending = NoKey]
      BY <2>1 DEF KeysApplied
    <3>2. QED BY <1>3, <2>1, <3>1 DEF Chats
  <2>2. CASE ~d.authorized
    <3>1. e = d
      BY <2>2
    <3>2. QED BY <1>3, <2>2, <3>1
  <2>3. QED BY <2>1, <2>2
<1> HIDE DEF e
<1>7. /\ chatOf' \in [Peers -> [Peers -> Chats \cup {NoChat}]] /\ chatOf'[s][p] = e
      /\ \A x, y \in Peers : x # s \/ y # p => chatOf'[x][y] = chatOf[x][y]
  BY <1>1, <1>4, <1>6, ChatPut
<1>8. /\ invs' \in [DOMAIN invs -> Invites] /\ DOMAIN invs' = DOMAIN invs
      /\ ~invs'[n].unused /\ invs'[n].by = s /\ invs'[n].taken
      /\ \A i \in DOMAIN invs : i # n => invs'[i] = invs[i]
      /\ \A i \in DOMAIN invs : invs'[i].by = invs[i].by /\ invs'[i].taken = invs[i].taken
  <2>1. invs \in [DOMAIN invs -> Invites]
    BY <1>1 DEF PairTypes
  <2>2. QED BY <1>1, <1>4, <2>1 DEF Invites
<1>9. /\ news \subseteq Frames
      /\ \A g \in news : g.kind # "Hello" /\ g.from = s /\ g.to = p
  BY <1>1, <1>2 DEF Frame, Frames, FrameKinds
<1>10. PairTypes'
  <2>1. \E m \in 0 .. MaxInvites : invs' \in [1 .. m -> Invites]
    BY <1>1, <1>8 DEF PairTypes
  <2>2. pairNet' \subseteq Frames
    BY <1>1, <1>4, <1>9 DEF PairTypes
  <2>3. RelaysOK'
    <3>1. RelaysOK /\ d \in Chats \cup {NoChat}
      BY <1>1, <1>3 DEF PairTypes
    <3>2. relaySetOut' \in [Peers -> [Peers -> Announcements \cup {NoSet}]]
      BY <1>1, <1>4, <3>1, AnnounceTyped
    <3>3. QED BY <1>4, <3>1, <3>2 DEF RelaysOK
  <2>4. QED BY <1>1, <1>4, <1>5, <1>7, <2>1, <2>2, <2>3 DEF PairTypes
<1>11. OthersStay(s, p)
  <2>1. \A x, y \in Peers : x # s \/ y # p => \A g \in allow[x] : g.name = PeerName(y) => g \in allow'[x]
    <3> SUFFICES ASSUME NEW x \in Peers, NEW y \in Peers, x # s \/ y # p, NEW g \in allow[x],
                        g.name = PeerName(y)
                 PROVE  g \in allow'[x]
      OBVIOUS
    <3>1. CASE x # s
      BY <1>5, <3>1
    <3>2. CASE x = s
      <4>1. g.name # PassName(n) /\ g.name # PeerName(p)
        BY <3>2, NamesDiffer
      <4>2. QED BY <1>5, <3>2, <4>1
    <3>3. QED BY <3>1, <3>2
  <2>2. \A i \in DOMAIN invs : invs'[i].unused => invs[i].unused
    BY <1>1, <1>8
  <2>3. QED BY <1>4, <1>5, <1>7, <1>8, <2>1, <2>2 DEF OthersStay
<1>12. InvsOK'
  BY <1>8 DEF InvsOK, PairInv
<1>13. FramesOK'
  <2> SUFFICES ASSUME NEW g \in pairNet', g.kind = "Hello" PROVE HelloOK(g)'
    BY DEF FramesOK
  <2>1. g \in pairNet /\ g # f
    BY <1>4, <1>9
  <2>2. HelloOK(g) /\ g.from \in Peers /\ g.to \in Peers
    BY <1>1, <2>1 DEF PairInv, FramesOK, PairTypes, Frames
  <2>3. {g.from, g.to} # {s, p} /\ g.otk # n
    BY <1>1, <2>1 DEF HelloOK
  <2>4. g.otk \in DOMAIN invs /\ invs'[g.otk] = invs[g.otk]
    BY <1>8, <2>2, <2>3 DEF HelloOK
  <2>5. Has(g.from, g.to)' => chatOf'[g.from][g.to].session = g.otk
    BY <1>7, <2>2, <2>3 DEF HelloOK, Has
  <2>6. \A h \in pairNet' :
            h.kind = "Hello" /\ ({h.from, h.to} = {g.from, g.to} \/ h.otk = g.otk) => h = g
    BY <1>4, <1>9, <2>2 DEF HelloOK
  <2>7. QED BY <1>8, <2>2, <2>4, <2>5, <2>6 DEF HelloOK
<1>14. ~Joined(s, p)' /\ Hosted(s, p)'
  BY <1>1, <1>6, <1>7, <1>8 DEF Joined, Hosted
<1>15. ChatOK(s, p)'
  <2>1. HostedOK(s, p)'
    BY <1>3, <1>5, <1>6, <1>7, <1>8 DEF HostedOK, Admits, Key
  <2>2. OwnOK(s, p)'
    <3>1. Has(s, p) => OwnOK(s, p)
      BY <1>1 DEF PairInv, ChatsOK, ChatOK
    <3>2. QED BY <1>3, <1>6, <1>7, <1>8, <3>1 DEF OwnOK
  <2>3. QED BY <1>1, <1>3, <1>4, <1>6, <1>7, <1>8, <1>14, <2>1, <2>2 DEF ChatOK
<1>16. ChatsOK'
  BY <1>1, <1>11, <1>15, AllChatsKept
<1>17. ASSUME Has(p, s)' PROVE PairOK(s, p)' /\ PairOK(p, s)'
  <2>1. /\ chatOf'[p][s] = chatOf[p][s] /\ chatOf'[p][s].session = n /\ chatOf'[s][p].session = n
    BY <1>1, <1>6, <1>7, <1>17 DEF HelloOK, Has
  <2>2. chatOf'[s][p].awaiting \/ chatOf'[s][p].authorized => d.authorized
    BY <1>3, <1>6, <1>7
  <2>3. (d.authorized => Frame("Approved", s, p, 0) \in pairNet') /\ chatOf'[s][p].told.otk # n
    BY <1>2, <1>3, <1>4, <1>6, <1>7 DEF NoSet, Otks
  <2>4. PairOK(s, p)'
    BY <1>14, <2>1, <2>2, <2>3 DEF PairOK, Frame
  <2>5. PairOK(p, s)'
    <3>1. (~HelloBetween(p, s) =>
              /\ chatOf[p][s].session = chatOf[s][p].session
              /\ chatOf[p][s].awaiting /\ chatOf[s][p].awaiting =>
                    Frame("Approved", p, s, 0) \in pairNet \/ Frame("Approved", s, p, 0) \in pairNet)'
      BY <2>1, <2>2, <2>3 DEF Frame
    <3>2. (Joined(p, s) /\ Told(s, p, chatOf[p][s].session) =>
              \/ present[p][s] = Key("own", chatOf[p][s].session)
              \/ Frame("RelaySet", s, p, chatOf[p][s].session) \in pairNet)'
      BY <2>1, <2>3 DEF Told
    <3>3. QED BY <3>1, <3>2 DEF PairOK
  <2>6. QED BY <2>4, <2>5
<1>18. PairsOK'
  <2>1. \A g \in pairNet : {g.from, g.to} # {s, p} => g \in pairNet'
    BY <1>4
  <2>2. QED BY <1>1, <1>11, <1>17, <2>1, AllPairsKept
<1>19. Has(s, p)'
  BY <1>6, <1>7, ChatIsNotNone DEF Has
<1>20. \A x, y \in Peers : Has(x, y) => Has(x, y)'
  BY <1>7, <1>19 DEF Has
<1>21. AccessOK'
  <2>1. ASSUME NEW g \in allow'[s] PROVE HasReason(s, g)'
    <3>1. CASE g.name = PeerName(p)
      BY <1>1, <1>19, <3>1 DEF HasReason
    <3>2. CASE g.name # PeerName(p)
      <4>1. g \in allow[s] /\ g.name # PassName(n)
        BY <1>5, <3>2
      <4>2. HasReason(s, g)
        BY <1>1, <4>1 DEF PairInv, AccessOK
      <4>3. QED BY <1>1, <1>8, <1>20, <4>1, <4>2 DEF HasReason
    <3>3. QED BY <3>1, <3>2
  <2>2. \A i \in DOMAIN invs : invs[i].by # s => invs'[i].unused = invs[i].unused
    BY <1>1, <1>8
  <2>3. QED BY <1>1, <1>5, <1>8, <1>20, <2>1, <2>2, AccessKept
<1>22. ContactsWithinCap'
  <2>1. \A x, y \in Peers : Open(x, y)' => Open(x, y)
    <3>1. Open(s, p)' => Open(s, p)
      BY <1>3, <1>6, <1>7 DEF Open
    <3>2. QED BY <1>7, <3>1 DEF Open, Has
  <2>2. QED BY <1>1, <2>1, CapKept
<1>23. QED BY <1>10, <1>12, <1>13, <1>16, <1>18, <1>21, <1>22 DEF PairInv

\* A step that forgets the chat of s with p and what s admits of p.
LEMMA GoneKeeps ==
    ASSUME PairInv, NEW s \in Peers, NEW p \in Peers, PutChat(s, p, NoChat),
           allow' \in [Peers -> AllowLists],
           \A x \in Peers : x # s => allow'[x] = allow[x],
           \A e : e \in allow'[s] <=> e \in allow[s] /\ e.name # PeerName(p),
           present' \in [Peers -> [Peers -> Presents]],
           \A x, y \in Peers : x # s \/ y # p => present'[x][y] = present[x][y],
           consent' \in [Peers -> SUBSET Peers],
           \A x, y \in Peers : (x # s \/ y # p) /\ y \in consent[x] => y \in consent'[x],
           UNCHANGED <<invs, lastCode>>,
           pairLeft' \in PairCase, ~pairLeft'.crossing, ~pairLeft'.returning, RelaysOK',
           pairNet \subseteq pairNet', pairNet' \subseteq Frames,
           \A f \in pairNet' : f \in pairNet \/ (f.kind # "Hello" /\ f.kind # "RelaySet")
    PROVE  PairInv'
<1>1. /\ chatOf' \in [Peers -> [Peers -> Chats \cup {NoChat}]] /\ chatOf'[s][p] = NoChat
      /\ \A x, y \in Peers : x # s \/ y # p => chatOf'[x][y] = chatOf[x][y]
  <2>1. PairTypes /\ NoChat \in Chats \cup {NoChat}
    BY DEF PairInv
  <2>2. QED BY <2>1, ChatPut
<1>2. PairTypes'
  BY <1>1 DEF PairInv, PairTypes
<1>3. OthersStay(s, p)
  <2>1. \A x, y \in Peers : x # s \/ y # p => \A e \in allow[x] : e.name = PeerName(y) => e \in allow'[x]
    <3> SUFFICES ASSUME NEW x \in Peers, NEW y \in Peers, x # s \/ y # p, NEW e \in allow[x],
                        e.name = PeerName(y)
                 PROVE  e \in allow'[x]
      OBVIOUS
    <3>1. x = s => e.name # PeerName(p)
      BY NamesDiffer
    <3>2. QED BY <3>1
  <2>2. QED BY <1>1, <2>1 DEF OthersStay
<1>4. InvsOK'
  BY DEF PairInv, InvsOK
<1>5. /\ ~Has(s, p)'
      /\ \A x, y \in Peers : Has(x, y)' => Has(x, y) /\ chatOf'[x][y].session = chatOf[x][y].session
      /\ \A x, y \in Peers : Has(x, y) /\ (x # s \/ y # p) => Has(x, y)'
  BY <1>1 DEF Has
<1>6. FramesOK'
  BY <1>2, <1>5, CalmFrames
<1>7. ChatsOK' /\ PairsOK'
  BY <1>3, <1>5, AllChatsKept, AllPairsKept
<1>8. AccessOK'
  <2>1. ASSUME NEW e \in allow'[s] PROVE HasReason(s, e)'
    <3>1. e \in allow[s] /\ e.name # PeerName(p) /\ HasReason(s, e)
      BY DEF PairInv, AccessOK
    <3>2. QED BY <1>5, <3>1 DEF HasReason
  <2>2. QED BY <1>5, <2>1, AccessKept
<1>9. ContactsWithinCap'
  <2>1. \A x, y \in Peers : Open(x, y)' => Open(x, y)
    BY <1>1, <1>5 DEF Open, Has
  <2>2. QED BY <2>1, CapKept
<1>10. QED BY <1>2, <1>4, <1>6, <1>7, <1>8, <1>9 DEF PairInv

LEMMA ForgetKeeps ==
    ASSUME PairInv, NEW s \in Peers, NEW p \in Peers, Decline(s, p) \/ Delete(s, p)
    PROVE  PairInv'
<1>1. PairTypes
  BY DEF PairInv
<1>2. /\ PutChat(s, p, NoChat) /\ UNCHANGED <<invs, lastCode>>
      /\ allow' = [allow EXCEPT ![s] = Revoked(@, PeerName(p))]
      /\ present' = [present EXCEPT ![s][p] = NoKey]
      /\ consent' = [consent EXCEPT ![s] = @ \ {p}]
  BY DEF Decline, Delete, Forgotten
<1>3. pairLeft' \in PairCase /\ ~pairLeft'.crossing /\ ~pairLeft'.returning /\ RelaysOK'
  <2>1. RelaysOK'
    BY <1>1 DEF Decline, Delete, PairTypes, RelaysOK, relayVars
  <2>2. QED BY <1>1, <2>1, LeftStays DEF Decline, Delete
<1>4. /\ allow' \in [Peers -> AllowLists] /\ \A x \in Peers : x # s => allow'[x] = allow[x]
      /\ \A e : e \in allow'[s] <=> e \in allow[s] /\ e.name # PeerName(p)
  BY <1>1, <1>2 DEF PairTypes, AllowLists, Revoked
<1>5. /\ present' \in [Peers -> [Peers -> Presents]]
      /\ \A x, y \in Peers : x # s \/ y # p => present'[x][y] = present[x][y]
  BY <1>1, <1>2 DEF PairTypes, Presents
<1>6. /\ consent' \in [Peers -> SUBSET Peers]
      /\ \A x, y \in Peers : (x # s \/ y # p) /\ y \in consent[x] => y \in consent'[x]
  BY <1>1, <1>2 DEF PairTypes
<1>7. /\ pairNet \subseteq pairNet' /\ pairNet' \subseteq Frames
      /\ \A f \in pairNet' : f \in pairNet \/ (f.kind # "Hello" /\ f.kind # "RelaySet")
  <2>1. CASE Decline(s, p)
    BY <1>1, <2>1 DEF Decline, PairTypes
  <2>2. CASE Delete(s, p)
    <3>1. chatOf[s][p] \in Chats
      BY <1>1, <2>2 DEF Delete, Has, PairTypes
    <3>2. chatOf[s][p].session \in Otks
      BY <3>1 DEF Chats
    <3>3. /\ Frame("Closed", s, p, chatOf[s][p].session) \in Frames
          /\ Frame("Closed", s, p, chatOf[s][p].session).kind = "Closed"
      BY <3>2 DEF Frame, Frames, FrameKinds
    <3>4. pairNet' = pairNet \cup {Frame("Closed", s, p, chatOf[s][p].session)}
      BY <2>2 DEF Delete
    <3>5. QED BY <1>1, <3>3, <3>4 DEF PairTypes
  <2>3. QED BY <2>1, <2>2
<1>8. QED BY <1>2, <1>3, <1>4, <1>5, <1>6, <1>7, GoneKeeps

\* A request refused for the code it echoes.
LEMMA RefuseKeeps ==
    ASSUME PairInv, NEW s \in Peers, NEW p \in Peers, Accept(s, p), CodeUsed(s, p)
    PROVE  PairInv'
<1>1. PairTypes /\ ~pairLeft.returning
  BY DEF PairInv, PairTypes
<1>2. /\ PutChat(s, p, NoChat) /\ UNCHANGED <<allow, present, consent, invs, lastCode, relayList, relaySetOut, pairLeft>>
      /\ pairNet' = pairNet \cup {Frame("CodeInUse", s, p, 0)} /\ ~Returning(s, p)
  BY <1>1 DEF Accept
<1>3. /\ Frame("CodeInUse", s, p, 0) \in Frames /\ Frame("CodeInUse", s, p, 0).kind = "CodeInUse"
  BY DEF Frame, Frames, FrameKinds
<1>4. \A e : e \in allow'[s] <=> e \in allow[s] /\ e.name # PeerName(p)
  BY <1>2 DEF Returning
<1>5. pairLeft' \in PairCase /\ ~pairLeft'.crossing /\ ~pairLeft'.returning /\ RelaysOK'
  BY <1>1, <1>2 DEF PairTypes, RelaysOK
<1>6. /\ allow' \in [Peers -> AllowLists] /\ present' \in [Peers -> [Peers -> Presents]]
      /\ consent' \in [Peers -> SUBSET Peers] /\ pairNet' \subseteq Frames
  BY <1>1, <1>2, <1>3 DEF PairTypes
<1>7. QED BY <1>2, <1>3, <1>4, <1>5, <1>6, GoneKeeps

\* A request that becomes a contact: what it leaves of keys.
LEMMA WelcomeKeys ==
    ASSUME PairInv, NEW s \in Peers, NEW p \in Peers, Accept(s, p), ~CodeUsed(s, p)
    PROVE  LET n == chatOf[s][p].session IN
           /\ Has(s, p) /\ chatOf[s][p] \in Chats /\ ChatOK(s, p) /\ Hosted(s, p) /\ HostedOK(s, p)
           /\ ~chatOf[s][p].awaiting
           /\ allow' \in [Peers -> AllowLists] /\ \A x \in Peers : x # s => allow'[x] = allow[x]
           /\ [name |-> PeerName(p), key |-> Key("own", n)] \in allow'[s]
           /\ \A e \in allow[s] : e.name # PeerName(p) => e \in allow'[s]
           /\ \A e \in allow'[s] : e.name = PeerName(p) \/ e \in allow[s]
           /\ present' \in [Peers -> [Peers -> Presents]] /\ present'[s][p] = Key("reply", n)
           /\ \A x, y \in Peers : x # s \/ y # p => present'[x][y] = present[x][y]
<1> DEFINE c == chatOf[s][p]
           n == c.session
<1>1. PairTypes /\ Has(s, p) /\ ~c.authorized
  BY DEF PairInv, Accept
<1>2. c \in Chats /\ ChatOK(s, p)
  BY <1>1 DEF Has, PairTypes, PairInv, ChatsOK
<1>3. /\ Hosted(s, p) /\ HostedOK(s, p) /\ ~c.awaiting
      /\ c.keyPending = Key("own", n) /\ c.passPending = Key("reply", n)
  BY <1>1, <1>2 DEF ChatOK, JoinedOK, HostedOK
<1>4. n \in Otks
  BY <1>2 DEF Chats
<1>5. PICK own \in Presents, reply \in Presents :
        own = Key("own", n) /\ reply = Key("reply", n) /\ own # NoKey /\ reply # NoKey
  BY <1>4, KeyTypes
<1>6. PICK w \in AccessNames : w = PeerName(p)
  BY DEF AccessNames
<1>7. allow[s] \in AllowLists
  BY <1>1 DEF PairTypes
<1>8. /\ allow' = [allow EXCEPT ![s] = Authorized(allow[s], w, own)]
      /\ present' = [present EXCEPT ![s][p] = reply]
  <2>1. AllowedAfter(s, p, c) = Authorized(allow[s], w, own) /\ PresentedAfter(s, p, c) = reply
    BY <1>3, <1>5, <1>6 DEF AllowedAfter, PresentedAfter
  <2>2. /\ allow' = [allow EXCEPT ![s] = AllowedAfter(s, p, c)]
        /\ present' = [present EXCEPT ![s][p] = PresentedAfter(s, p, c)]
    BY DEF Accept
  <2>3. QED BY <2>1, <2>2
<1>9. /\ Authorized(allow[s], w, own) \in AllowLists
      /\ own # NoKey => [name |-> w, key |-> own] \in Authorized(allow[s], w, own)
      /\ \A e \in allow[s] : e.name # w => e \in Authorized(allow[s], w, own)
      /\ \A e \in Authorized(allow[s], w, own) : e.name = w \/ e \in allow[s]
  BY ONLY <1>7, own \in Presents, w \in AccessNames, AuthorizedOnly
<1>10. /\ allow' \in [Peers -> AllowLists] /\ allow'[s] = Authorized(allow[s], w, own)
       /\ \A x \in Peers : x # s => allow'[x] = allow[x]
  BY <1>1, <1>8, <1>9 DEF PairTypes
<1>11. /\ present' \in [Peers -> [Peers -> Presents]] /\ present'[s][p] = reply
       /\ \A x, y \in Peers : x # s \/ y # p => present'[x][y] = present[x][y]
  BY <1>1, <1>5, <1>8 DEF PairTypes
<1>12. [name |-> PeerName(p), key |-> Key("own", n)] \in allow'[s]
  BY <1>5, <1>6, <1>9, <1>10
<1>13. QED BY <1>1, <1>2, <1>3, <1>5, <1>6, <1>9, <1>10, <1>11, <1>12

LEMMA WelcomeKeeps ==
    ASSUME PairInv, NEW s \in Peers, NEW p \in Peers, Accept(s, p), ~CodeUsed(s, p)
    PROVE  PairInv'
<1> DEFINE c == chatOf[s][p]
           n == c.session
           d == KeysApplied([c EXCEPT !.authorized = TRUE])
           news == {Frame("Approved", s, p, 0)}
<1>1. PairTypes /\ CapAllows(s, p)
  BY DEF PairInv, Accept
<1>2. /\ Has(s, p) /\ c \in Chats /\ ChatOK(s, p) /\ Hosted(s, p) /\ HostedOK(s, p) /\ ~c.awaiting
      /\ allow' \in [Peers -> AllowLists] /\ \A x \in Peers : x # s => allow'[x] = allow[x]
      /\ [name |-> PeerName(p), key |-> Key("own", n)] \in allow'[s]
      /\ \A e \in allow[s] : e.name # PeerName(p) => e \in allow'[s]
      /\ \A e \in allow'[s] : e.name = PeerName(p) \/ e \in allow[s]
      /\ present' \in [Peers -> [Peers -> Presents]] /\ present'[s][p] = Key("reply", n)
      /\ \A x, y \in Peers : x # s \/ y # p => present'[x][y] = present[x][y]
  BY WelcomeKeys
<1>3. /\ PutChat(s, p, d) /\ pairNet' = pairNet \cup news
      /\ consent' = [consent EXCEPT ![s] = @ \cup {p}] /\ UNCHANGED <<invs, lastCode, relayList, pairLeft>>
      /\ AnnounceTo(s, p, [c EXCEPT !.authorized = TRUE])
  BY DEF Accept
<1>4. n \in DOMAIN invs /\ invs[n].taken /\ invs[n].by = s /\ s # p /\ n \in Otks
  BY <1>2 DEF ChatOK, Hosted, Chats
<1>5. /\ d \in Chats /\ d.session = n /\ d.authorized = TRUE /\ d.awaiting = FALSE
      /\ d.verified = c.verified /\ d.told = c.told /\ d.ownPending = c.ownPending
  <2>1. d = [c EXCEPT !.authorized = TRUE, !.keyPending = NoKey, !.passPending = NoKey]
    BY <1>2 DEF KeysApplied, Chats
  <2>2. QED BY <1>2, <2>1 DEF Chats
<1> HIDE DEF d
<1>6. /\ chatOf' \in [Peers -> [Peers -> Chats \cup {NoChat}]] /\ chatOf'[s][p] = d
      /\ \A x, y \in Peers : x # s \/ y # p => chatOf'[x][y] = chatOf[x][y]
  BY <1>1, <1>3, <1>5, ChatPut
<1>7. /\ news \subseteq Frames
      /\ \A f \in news : f.kind # "Hello" /\ f.from = s /\ f.to = p
  BY <1>4 DEF Frame, Frames, FrameKinds
<1>8. /\ consent' \in [Peers -> SUBSET Peers] /\ p \in consent'[s]
      /\ \A x, y \in Peers : y \in consent[x] => y \in consent'[x]
  BY <1>1, <1>3 DEF PairTypes
<1>9. PairTypes'
  <2>1. RelaysOK /\ [c EXCEPT !.authorized = TRUE] \in Chats \cup {NoChat}
    BY <1>1, <1>2 DEF PairTypes, Chats
  <2>2. relaySetOut' \in [Peers -> [Peers -> Announcements \cup {NoSet}]]
    BY <1>3, <2>1, AnnounceTyped
  <2>3. RelaysOK'
    BY <1>3, <2>1, <2>2 DEF RelaysOK
  <2>4. QED BY <1>1, <1>2, <1>3, <1>6, <1>7, <1>8, <2>3 DEF PairTypes
<1>10. OthersStay(s, p)
  <2>1. \A x, y \in Peers : x # s \/ y # p => \A e \in allow[x] : e.name = PeerName(y) => e \in allow'[x]
    <3> SUFFICES ASSUME NEW x \in Peers, NEW y \in Peers, x # s \/ y # p, NEW e \in allow[x],
                        e.name = PeerName(y)
                 PROVE  e \in allow'[x]
      OBVIOUS
    <3>1. x = s => e.name # PeerName(p)
      BY NamesDiffer
    <3>2. QED BY <1>2, <3>1
  <2>2. QED BY <1>2, <1>3, <1>6, <1>8, <2>1 DEF OthersStay
<1>11. InvsOK'
  BY <1>3 DEF PairInv, InvsOK
<1>12. /\ Has(s, p)' /\ \A x, y \in Peers : Has(x, y)' <=> Has(x, y)
       /\ \A x, y \in Peers : Has(x, y)' => chatOf'[x][y].session = chatOf[x][y].session
  BY <1>2, <1>5, <1>6, ChatIsNotNone DEF Has
<1>13. FramesOK'
  <2>1. \A f \in pairNet' : f.kind = "Hello" => f \in pairNet
    BY <1>3, <1>7
  <2>2. QED BY <1>3, <1>9, <1>12, <2>1, CalmFrames
<1>14. Hosted(s, p)' /\ ~Joined(s, p)'
  BY <1>3, <1>4, <1>5, <1>6 DEF Joined, Hosted
<1>15. ChatOK(s, p)'
  <2>1. HostedOK(s, p)'
    BY <1>2, <1>3, <1>5, <1>6 DEF HostedOK, Admits, Key
  <2>2. OwnOK(s, p)'
    BY <1>2, <1>3, <1>5, <1>6 DEF ChatOK, OwnOK
  <2>3. QED BY <1>2, <1>3, <1>4, <1>5, <1>6, <1>8, <1>14, <2>1, <2>2 DEF ChatOK
<1>16. ChatsOK'
  BY <1>10, <1>15, AllChatsKept
<1>17. ASSUME Has(p, s)' PROVE PairOK(s, p)' /\ PairOK(p, s)'
  <2>1. Has(p, s) /\ PairOK(s, p) /\ chatOf'[p][s] = chatOf[p][s] /\ PairOK(p, s)
    BY <1>2, <1>4, <1>6, <1>12, <1>17 DEF PairInv, PairsOK
  <2>2. (HelloBetween(s, p)' <=> HelloBetween(s, p)) /\ (HelloBetween(p, s)' <=> HelloBetween(p, s))
    BY <1>3, <1>7 DEF HelloBetween
  <2>3. /\ \A m : Frame("RelaySet", s, p, m) \in pairNet => Frame("RelaySet", s, p, m) \in pairNet'
        /\ chatOf'[s][p].session = n /\ ~chatOf'[s][p].awaiting /\ chatOf'[s][p].told = c.told
        /\ present'[p][s] = present[p][s] /\ (Joined(p, s)' <=> Joined(p, s))
    BY <1>2, <1>3, <1>4, <1>5, <1>6, <2>1 DEF Joined
  <2>4. PairOK(s, p)'
    BY <1>14, <2>1, <2>2, <2>3 DEF PairOK
  <2>5. PairOK(p, s)'
    <3>1. (~HelloBetween(p, s) =>
              /\ chatOf[p][s].session = chatOf[s][p].session
              /\ chatOf[p][s].awaiting /\ chatOf[s][p].awaiting =>
                    Frame("Approved", p, s, 0) \in pairNet \/ Frame("Approved", s, p, 0) \in pairNet)'
      BY <2>1, <2>2, <2>3 DEF PairOK
    <3>2. (Joined(p, s) /\ Told(s, p, chatOf[p][s].session) =>
              \/ present[p][s] = Key("own", chatOf[p][s].session)
              \/ Frame("RelaySet", s, p, chatOf[p][s].session) \in pairNet)'
      BY <2>1, <2>3 DEF PairOK, Told, Frame, Key
    <3>3. QED BY <3>1, <3>2 DEF PairOK
  <2>6. QED BY <2>4, <2>5
<1>18. PairsOK'
  BY <1>3, <1>10, <1>17, AllPairsKept
<1>19. AccessOK'
  <2>1. ASSUME NEW e \in allow'[s] PROVE HasReason(s, e)'
    <3>1. CASE e.name = PeerName(p)
      BY <1>12, <3>1 DEF HasReason
    <3>2. CASE e \in allow[s]
      <4>1. HasReason(s, e)
        BY <3>2 DEF PairInv, AccessOK
      <4>2. QED BY <1>3, <1>12, <4>1 DEF HasReason
    <3>3. QED BY <1>2, <3>1, <3>2
  <2>2. QED BY <1>2, <1>3, <1>12, <2>1, AccessKept
<1>20. ContactsWithinCap'
  <2>1. \A x, y \in Peers : Open(x, y)' => Open(x, y) \/ (x = s /\ y = p /\ CapAllows(s, p))
    BY <1>1, <1>6 DEF Open, Has
  <2>2. QED BY <2>1, CapKept
<1>21. QED BY <1>9, <1>11, <1>13, <1>16, <1>18, <1>19, <1>20 DEF PairInv

LEMMA AcceptKeeps ==
    ASSUME PairInv, NEW s \in Peers, NEW p \in Peers, Accept(s, p) PROVE PairInv'
BY RefuseKeeps, WelcomeKeeps

\* A RelaySet takes the own key that waits: at the end that joined the session it is
\* the session's, at the end that hosts it that of an earlier join.
LEMMA RelaySetKeeps ==
    ASSUME PairInv, NEW f \in pairNet, RecvRelaySet(f) PROVE PairInv'
<1> DEFINE s == f.to
           p == f.from
           c == chatOf[s][p]
           d == chatOf'[s][p]
           opens == Has(s, p) /\ c.session = f.otk /\ c.authorized
<1>1. /\ PairTypes /\ f.kind = "RelaySet" /\ f \in Frames /\ s \in Peers /\ p \in Peers
      /\ pairNet' = pairNet \ {f} /\ UNCHANGED <<allow, invs, lastCode, consent, pairLeft, relayList, relaySetOut>>
  BY DEF RecvRelaySet, PairInv, PairTypes, Frames, relayVars
<1>2. Has(s, p) => c \in Chats /\ ChatOK(s, p)
  BY <1>1 DEF Has, PairTypes, PairInv, ChatsOK
<1>4. CASE ~opens
  <2>1. chatOf' = chatOf /\ present' = present
    BY <1>1, <1>4 DEF RecvRelaySet, OpensFrame
  <2>2. PairTypes'
    BY <1>1, <2>1 DEF PairTypes, RelaysOK
  <2>3. OthersStay(s, p)
    BY <1>1, <2>1 DEF OthersStay
  <2>4. \A x, y \in Peers : Has(x, y)' <=> Has(x, y)
    BY <2>1 DEF Has
  <2>5. InvsOK' /\ AccessOK' /\ ContactsWithinCap'
    BY <1>1, <2>1, <2>4
       DEF PairInv, InvsOK, AccessOK, HasReason, ContactsWithinCap, OpenContacts, Open, Has
  <2>6. FramesOK'
    BY <1>1, <2>1, <2>2, <2>4, CalmFrames
  <2>7. ASSUME Has(s, p) PROVE ChatOK(s, p)'
    <3>1. /\ Joined(s, p)' <=> Joined(s, p)
          /\ Hosted(s, p)' <=> Hosted(s, p)
          /\ \A k : Admits(s, p, k)' <=> Admits(s, p, k)
      BY <1>1, <2>1 DEF Joined, Hosted, Admits
    <3>2. JoinedOK(s, p) => JoinedOK(s, p)'
      BY <1>1, <2>1, <3>1 DEF JoinedOK
    <3>3. HostedOK(s, p) => HostedOK(s, p)'
      BY <1>1, <2>1, <3>1 DEF HostedOK, TookOldKey
    <3>4. OwnOK(s, p)'
      BY <1>1, <1>2, <2>1, <2>7 DEF ChatOK, OwnOK
    <3>5. QED BY <1>1, <1>2, <2>1, <2>7, <3>1, <3>2, <3>3, <3>4 DEF ChatOK
  <2>8. ChatsOK'
    BY <1>1, <2>3, <2>4, <2>7, AllChatsKept
  <2>9. ASSUME Has(s, p), Has(p, s) PROVE PairOK(s, p)' /\ PairOK(p, s)'
    <3>1. c.session # f.otk \/ ~Joined(s, p)
      BY <1>1, <1>2, <1>4, <2>9 DEF PairInv, PairsOK, ChatOK, JoinedOK
    <3>2. PairOK(s, p) /\ PairOK(p, s)
      BY <1>1, <2>9 DEF PairInv, PairsOK
    <3>3. /\ (HelloBetween(s, p)' <=> HelloBetween(s, p)) /\ (HelloBetween(p, s)' <=> HelloBetween(p, s))
          /\ (Joined(s, p)' <=> Joined(s, p)) /\ (Joined(p, s)' <=> Joined(p, s))
      BY <1>1, <2>1 DEF HelloBetween, Joined
    <3>4. /\ \A x, y \in Peers : Frame("Approved", x, y, 0) \in pairNet => Frame("Approved", x, y, 0) \in pairNet'
          /\ \A n : Frame("RelaySet", s, p, n) \in pairNet => Frame("RelaySet", s, p, n) \in pairNet'
          /\ \A n : Frame("RelaySet", p, s, n) \in pairNet /\ n # f.otk => Frame("RelaySet", p, s, n) \in pairNet'
      <4>1. s # p
        BY <1>2, <2>9 DEF ChatOK
      <4>2. QED BY <1>1, <4>1 DEF Frame
    <3>5. PairOK(s, p)'
      <4>1. (~HelloBetween(s, p) =>
                /\ chatOf[s][p].session = chatOf[p][s].session
                /\ chatOf[s][p].awaiting /\ chatOf[p][s].awaiting =>
                      Frame("Approved", s, p, 0) \in pairNet \/ Frame("Approved", p, s, 0) \in pairNet)'
        BY <1>1, <2>1, <3>2, <3>3, <3>4 DEF PairOK, Frame
      <4>2. (Joined(s, p) /\ Told(p, s, chatOf[s][p].session) =>
                \/ present[s][p] = Key("own", chatOf[s][p].session)
                \/ Frame("RelaySet", p, s, chatOf[s][p].session) \in pairNet)'
        BY <1>1, <2>1, <3>1, <3>2, <3>3, <3>4 DEF PairOK, Told, Frame, Key
      <4>3. QED BY <4>1, <4>2 DEF PairOK
    <3>6. PairOK(p, s)'
      <4>1. (~HelloBetween(p, s) =>
                /\ chatOf[p][s].session = chatOf[s][p].session
                /\ chatOf[p][s].awaiting /\ chatOf[s][p].awaiting =>
                      Frame("Approved", p, s, 0) \in pairNet \/ Frame("Approved", s, p, 0) \in pairNet)'
        BY <1>1, <2>1, <3>2, <3>3, <3>4 DEF PairOK, Frame
      <4>2. (Joined(p, s) /\ Told(s, p, chatOf[p][s].session) =>
                \/ present[p][s] = Key("own", chatOf[p][s].session)
                \/ Frame("RelaySet", s, p, chatOf[p][s].session) \in pairNet)'
        BY <1>1, <2>1, <3>2, <3>3, <3>4 DEF PairOK, Told, Frame, Key
      <4>3. QED BY <4>1, <4>2 DEF PairOK
    <3>7. QED BY <3>5, <3>6
  <2>10. PairsOK'
    BY <1>1, <2>3, <2>4, <2>9, AllPairsKept
  <2>11. QED BY <2>2, <2>5, <2>6, <2>8, <2>10 DEF PairInv
<1>5. CASE opens
  <2> DEFINE e == [c EXCEPT !.ownPending = NoKey, !.received = TRUE]
             n == c.session
  <2>1. PutChat(s, p, e) /\ (present' = IF c.ownPending = NoKey THEN present
                                        ELSE [present EXCEPT ![s][p] = c.ownPending])
    BY <1>5 DEF RecvRelaySet, OpensFrame
  <2>2. c \in Chats /\ ChatOK(s, p) /\ c.authorized /\ Has(s, p) /\ s # p
    BY <1>2, <1>5 DEF ChatOK
  <2>3. /\ e \in Chats /\ e.session = n /\ e.authorized = c.authorized /\ e.ownPending = NoKey
        /\ e.awaiting = c.awaiting /\ e.closed = c.closed /\ e.verified = c.verified
        /\ e.told = c.told
    BY <2>2 DEF Chats
  <2> HIDE DEF e
  <2>4. /\ chatOf' \in [Peers -> [Peers -> Chats \cup {NoChat}]] /\ chatOf'[s][p] = e
        /\ \A x, y \in Peers : x # s \/ y # p => chatOf'[x][y] = chatOf[x][y]
    BY <1>1, <2>1, <2>3, ChatPut
  <2>5. /\ present' \in [Peers -> [Peers -> Presents]]
        /\ present'[s][p] = IF c.ownPending = NoKey THEN present[s][p] ELSE c.ownPending
        /\ \A x, y \in Peers : x # s \/ y # p => present'[x][y] = present[x][y]
    <3>1. CASE c.ownPending = NoKey
      BY <1>1, <2>1, <3>1 DEF PairTypes
    <3>2. CASE c.ownPending # NoKey
      <4>1. PICK k \in Presents : k = c.ownPending
        BY <2>2 DEF Chats, Presents
      <4>2. present' = [present EXCEPT ![s][p] = k]
        BY <2>1, <3>2, <4>1
      <4>3. QED BY <1>1, <3>2, <4>1, <4>2 DEF PairTypes
    <3>3. QED BY <3>1, <3>2
  <2>6. PairTypes'
    BY <1>1, <2>4, <2>5 DEF PairTypes, RelaysOK
  <2>7. OthersStay(s, p)
    BY <1>1, <2>4, <2>5 DEF OthersStay
  <2>8. /\ Has(s, p)' /\ \A x, y \in Peers : Has(x, y)' <=> Has(x, y)
        /\ \A x, y \in Peers : Has(x, y)' => chatOf'[x][y].session = chatOf[x][y].session
    BY <2>2, <2>3, <2>4, ChatIsNotNone DEF Has
  <2>9. InvsOK' /\ AccessOK'
    BY <1>1, <2>8 DEF PairInv, InvsOK, AccessOK, HasReason
  <2>10. FramesOK'
    BY <1>1, <2>6, <2>8, CalmFrames
  <2>11. (Joined(s, p)' <=> Joined(s, p)) /\ (Hosted(s, p)' <=> Hosted(s, p))
    BY <1>1, <2>3, <2>4 DEF Joined, Hosted
  <2>12. Joined(s, p) => JoinedOK(s, p) /\ present'[s][p] = Key("own", n)
    BY <2>2, <2>5, KeyTypes DEF ChatOK, JoinedOK, Chats
  <2>13. ChatOK(s, p)'
    <3>1. Joined(s, p)' => JoinedOK(s, p)'
      BY <1>1, <2>3, <2>4, <2>11, <2>12 DEF JoinedOK, Admits, Key
    <3>2. ASSUME Hosted(s, p) PROVE HostedOK(s, p)'
      <4>1. HostedOK(s, p) /\ invs[n].by = s
        BY <2>2, <3>2 DEF ChatOK, Hosted
      <4>2. c.ownPending # NoKey => c.ownPending.kind = "own" /\ c.ownPending.otk # n
        BY <2>2, <4>1 DEF ChatOK, OwnOK
      <4>3. present'[s][p] = Key("reply", n) \/ TookOldKey(s, p)'
        <5>1. CASE c.ownPending = NoKey
          BY <2>2, <2>3, <2>4, <2>5, <4>1, <5>1 DEF HostedOK, TookOldKey
        <5>2. CASE c.ownPending # NoKey
          BY <2>3, <2>4, <2>5, <4>2, <5>2 DEF TookOldKey
        <5>3. QED BY <5>1, <5>2
      <4>4. QED BY <1>1, <2>2, <2>3, <2>4, <4>1, <4>3 DEF HostedOK, Admits, Key
    <3>3. OwnOK(s, p)'
      BY <2>3, <2>4 DEF OwnOK
    <3>4. QED BY <1>1, <2>2, <2>3, <2>4, <2>11, <3>1, <3>2, <3>3 DEF ChatOK
  <2>14. ChatsOK'
    BY <1>1, <2>7, <2>13, AllChatsKept
  <2>15. ASSUME Has(p, s)' PROVE PairOK(s, p)' /\ PairOK(p, s)'
    <3>1. /\ Has(p, s) /\ PairOK(s, p) /\ chatOf'[p][s] = chatOf[p][s] /\ PairOK(p, s)
          /\ present'[p][s] = present[p][s] /\ (Joined(p, s)' <=> Joined(p, s))
      BY <1>1, <2>2, <2>4, <2>5, <2>8, <2>15 DEF PairInv, PairsOK, Joined
    <3>2. /\ (HelloBetween(s, p)' <=> HelloBetween(s, p)) /\ (HelloBetween(p, s)' <=> HelloBetween(p, s))
          /\ \A x, y \in Peers : Frame("Approved", x, y, 0) \in pairNet => Frame("Approved", x, y, 0) \in pairNet'
          /\ \A m : Frame("RelaySet", s, p, m) \in pairNet => Frame("RelaySet", s, p, m) \in pairNet'
      BY <1>1, <2>2 DEF HelloBetween, Frame
    <3>3. PairOK(s, p)'
      <4>1. (~HelloBetween(s, p) =>
                /\ chatOf[s][p].session = chatOf[p][s].session
                /\ chatOf[s][p].awaiting /\ chatOf[p][s].awaiting =>
                      Frame("Approved", s, p, 0) \in pairNet \/ Frame("Approved", p, s, 0) \in pairNet)'
        BY <1>1, <2>3, <2>4, <3>1, <3>2 DEF PairOK, Frame
      <4>2. (Joined(s, p) => present[s][p] = Key("own", chatOf[s][p].session))'
        BY <2>3, <2>4, <2>11, <2>12 DEF Key
      <4>3. QED BY <4>1, <4>2 DEF PairOK
    <3>4. PairOK(p, s)'
      <4>1. (~HelloBetween(p, s) =>
                /\ chatOf[p][s].session = chatOf[s][p].session
                /\ chatOf[p][s].awaiting /\ chatOf[s][p].awaiting =>
                      Frame("Approved", p, s, 0) \in pairNet \/ Frame("Approved", s, p, 0) \in pairNet)'
        BY <1>1, <2>3, <2>4, <3>1, <3>2 DEF PairOK, Frame
      <4>2. (Joined(p, s) /\ Told(s, p, chatOf[p][s].session) =>
                \/ present[p][s] = Key("own", chatOf[p][s].session)
                \/ Frame("RelaySet", s, p, chatOf[p][s].session) \in pairNet)'
        BY <2>3, <2>4, <3>1, <3>2 DEF PairOK, Told, Frame, Key
      <4>3. QED BY <4>1, <4>2 DEF PairOK
    <3>5. QED BY <3>3, <3>4
  <2>16. PairsOK'
    BY <1>1, <2>7, <2>15, AllPairsKept
  <2>17. ContactsWithinCap'
    <3>1. \A x, y \in Peers : Open(x, y)' => Open(x, y)
      BY <1>1, <2>3, <2>4, <2>8 DEF Open
    <3>2. QED BY <1>1, <3>1, CapKept
  <2>18. QED BY <2>6, <2>9, <2>10, <2>14, <2>16, <2>17 DEF PairInv
<1>6. QED BY <1>4, <1>5

\* A chat that a step leaves as it is.
LEMMA ChatUntouched ==
    ASSUME PairInv, NEW s \in Peers, NEW p \in Peers, Has(s, p)
    PROVE  chatOf[s][p] \in Chats /\ (chatOf[s][p].verified # 0 => chatOf[s][p].verified = chatOf[s][p].session)
BY DEF PairInv, PairTypes, ChatsOK, ChatOK, Has

\* set_relay_list, and the start of an announcement.
LEMMA RelayListKeeps ==
    ASSUME PairInv, NEW s \in Peers, NEW p \in Peers, EditList(s) \/ AnnounceRelaySet(s, p) PROVE PairInv'
<1> DEFINE d == chatOf[s][p]
<1>1. PairTypes /\ RelaysOK /\ d \in Chats \cup {NoChat} /\ (Has(s, p) <=> d # NoChat)
  BY DEF PairInv, PairTypes, Has
<1>2. UNCHANGED <<chatOf, allow, present, pairNet, invs, lastCode, consent>>
  BY DEF EditList, AnnounceRelaySet
<1>3. pairLeft' \in PairCase /\ ~pairLeft'.crossing /\ ~pairLeft'.returning
  BY <1>1, LeftStays DEF EditList, AnnounceRelaySet
<1>4. RelaysOK'
  <2>1. CASE EditList(s)
    BY <1>1, <2>1 DEF EditList, RelaysOK, RelaySets
  <2>2. CASE AnnounceRelaySet(s, p)
    <3>1. relaySetOut' \in [Peers -> [Peers -> Announcements \cup {NoSet}]]
      BY <1>1, <2>2, AnnounceTyped DEF AnnounceRelaySet
    <3>2. QED BY <1>1, <2>2, <3>1 DEF AnnounceRelaySet, RelaysOK
  <2>3. QED BY <2>1, <2>2
<1>5. chatOf' \in [Peers -> [Peers -> Chats \cup {NoChat}]] /\ chatOf'[s][p] = d
  BY <1>1, <1>2 DEF PairTypes
<1>6. d # NoChat /\ d.verified # 0 => d.verified = d.session
  BY <1>1, ChatUntouched
<1> HIDE DEF d
<1>7. QED BY <1>1, <1>2, <1>3, <1>4, <1>5, <1>6, TouchKeeps DEF d

\* What was announced is on its way, and recorded as told if the round says so.
LEMMA AnnouncedKeeps ==
    ASSUME PairInv, NEW s \in Peers, NEW p \in Peers, AnnounceLands(s, p) \/ AnnounceFails(s, p)
    PROVE  PairInv'
<1> DEFINE c == chatOf[s][p]
           a == relaySetOut[s][p]
           d == chatOf'[s][p]
           sent == Frame("RelaySet", s, p, a.otk)
<1>1. /\ PairTypes /\ RelaysOK /\ c \in Chats \cup {NoChat} /\ (Has(s, p) <=> c # NoChat)
      /\ a \in Announcements
  BY DEF PairInv, PairTypes, Has, RelaysOK, AnnounceLands, AnnounceFails
<1>2. UNCHANGED <<allow, present, invs, lastCode, consent>>
  BY DEF AnnounceLands, AnnounceFails
<1>3. pairLeft' \in PairCase /\ ~pairLeft'.crossing /\ ~pairLeft'.returning
  BY <1>1, LeftStays DEF AnnounceLands, AnnounceFails
<1>4. RelaysOK'
  BY <1>1 DEF AnnounceLands, AnnounceFails, RelaysOK
<1>5. sent \in Frames /\ sent.kind = "RelaySet"
  BY <1>1 DEF Frame, Frames, FrameKinds, Announcements
<1>6. pairNet' = pairNet \/ pairNet' = pairNet \cup {sent}
  BY DEF AnnounceLands, AnnounceFails
<1>7. /\ \A g \in pairNet' : g \in pairNet \/ (g \in Frames /\ g.kind = "RelaySet")
      /\ pairNet \subseteq pairNet'
  BY <1>5, <1>6
<1>8. CASE AnnounceLands(s, p) /\ Has(s, p)
  <2>1. c \in Chats /\ (c.verified # 0 => c.verified = c.session)
    BY <1>8, ChatUntouched
  <2> DEFINE e == [c EXCEPT !.told = a]
  <2>2. PutChat(s, p, e)
    BY <1>1, <1>8 DEF AnnounceLands, PutChat, PairTypes
  <2>3. /\ e \in Chats /\ e.session = c.session /\ e.authorized = c.authorized
        /\ e.ownPending = c.ownPending /\ e.keyPending = c.keyPending
        /\ e.passPending = c.passPending /\ e.awaiting = c.awaiting
        /\ e.closed = c.closed /\ e.verified = c.verified /\ e.told = a
    BY <1>1, <2>1 DEF Chats
  <2>4. e # NoChat
    BY <2>3, ChatIsNotNone
  <2>5. e.told.otk = e.session => Frame("RelaySet", s, p, e.session) \in pairNet'
    BY <1>8, <2>3 DEF AnnounceLands
  <2> HIDE DEF e, sent, a
  <2>6. /\ chatOf' \in [Peers -> [Peers -> Chats \cup {NoChat}]] /\ chatOf'[s][p] = e
        /\ \A x, y \in Peers : x # s \/ y # p => chatOf'[x][y] = chatOf[x][y]
    BY <1>1, <2>2, <2>3, ChatPut
  <2>7. QED BY <1>2, <1>3, <1>4, <1>7, <1>8, <2>1, <2>3, <2>4, <2>5, <2>6, TouchKeeps
<1>9. CASE ~(AnnounceLands(s, p) /\ Has(s, p))
  <2>1. chatOf' = chatOf /\ d = c
    BY <1>9 DEF AnnounceLands, AnnounceFails
  <2>2. c # NoChat /\ c.verified # 0 => c.verified = c.session
    BY <1>1, ChatUntouched
  <2>3. chatOf' \in [Peers -> [Peers -> Chats \cup {NoChat}]]
    BY <1>1, <2>1 DEF PairTypes
  <2> HIDE DEF sent, a
  <2>4. QED BY <1>1, <1>2, <1>3, <1>4, <1>7, <2>1, <2>2, <2>3, TouchKeeps
<1>10. QED BY <1>8, <1>9

LEMMA PairStarts ==
    ASSUME OrderlyPairs, PairInit PROVE PairInv
<1>1. \A s, p \in Peers : ~Has(s, p) /\ ~Open(s, p)
  BY DEF PairInit, Has, Open
<1>2. PairTypes
  <2>1. pairLeft \in PairCase /\ ~pairLeft.crossing /\ ~pairLeft.returning
    BY PairingAssumption DEF PairInit, OrderlyPairs
  <2>2. 0 \in 0 .. MaxInvites /\ invs \in [1 .. 0 -> Invites]
    BY PairingAssumption DEF PairInit
  <2>3. /\ chatOf \in [Peers -> [Peers -> Chats \cup {NoChat}]] /\ present \in [Peers -> [Peers -> Presents]]
        /\ allow \in [Peers -> AllowLists]
    BY DEF PairInit, Presents, AllowLists
  <2>4. RelaysOK
    BY DEF PairInit, RelaysOK, RelaySets
  <2>5. QED BY <2>1, <2>2, <2>3, <2>4 DEF PairInit, PairTypes
<1>3. InvsOK /\ FramesOK /\ AccessOK
  BY DEF PairInit, InvsOK, FramesOK, AccessOK
<1>4. ChatsOK /\ PairsOK
  BY <1>1 DEF ChatsOK, PairsOK
<1>5. ContactsWithinCap
  <2> SUFFICES ASSUME NEW s \in Peers PROVE Cardinality(OpenContacts(s)) <= MaxContacts
    BY DEF ContactsWithinCap
  <2>1. OpenContacts(s) = {}
    BY <1>1 DEF OpenContacts
  <2>2. QED BY <2>1, FS_EmptySet, PairingAssumption
<1>6. QED BY <1>2, <1>3, <1>4, <1>5 DEF PairInv

LEMMA PairInvHolds ==
    ASSUME PairInv PROVE PairingHolds
<1>1. PairTypes /\ ContactsWithinCap
  BY DEF PairInv
<1>2. PairTypeOK
  BY <1>1 DEF PairTypes, PairTypeOK, RelaysOK, AllowLists, Presents
<1>3. OpenByConsent
  BY DEF OpenByConsent, Open, PairInv, ChatsOK, ChatOK
<1>4. NoLingeringAccess
  <2> SUFFICES ASSUME NEW s \in Peers, NEW e \in allow[s]
               PROVE  IF e.name[1] = "peer" THEN Has(s, e.name[2]) ELSE invs[e.name[2]].unused
    BY DEF NoLingeringAccess
  <2>1. HasReason(s, e)
    BY DEF PairInv, AccessOK
  <2>2. CASE \E p \in Peers : e.name = PeerName(p) /\ Has(s, p)
    BY <2>2, NamesDiffer
  <2>3. CASE \E n \in DOMAIN invs : e.name = PassName(n) /\ invs[n].unused /\ invs[n].by = s
    BY <2>3, NamesDiffer
  <2>4. QED BY <2>1, <2>2, <2>3 DEF HasReason
<1>5. QuietPairsTalk
  <2> SUFFICES ASSUME Quiet, NEW s \in Peers, NEW p \in Peers, BothOpen(s, p)
               PROVE  /\ chatOf[s][p].session = chatOf[p][s].session
                      /\ ~(chatOf[s][p].awaiting /\ chatOf[p][s].awaiting)
                      /\ Reaches(s, p) \/ LeftOnPass(s, p) \/ TookOldKey(s, p)
    BY DEF QuietPairsTalk
  <2>1. /\ ChatOK(s, p) /\ ChatOK(p, s) /\ PairOK(s, p)
        /\ chatOf[s][p].authorized /\ chatOf[p][s].authorized
    BY DEF BothOpen, Open, PairInv, ChatsOK, PairsOK
  <2>2. ~HelloBetween(s, p) /\ \A k, n : Frame(k, s, p, n) \notin pairNet /\ Frame(k, p, s, n) \notin pairNet
    BY DEF HelloBetween, Quiet
  <2>3. /\ chatOf[s][p].session = chatOf[p][s].session
        /\ ~(chatOf[s][p].awaiting /\ chatOf[p][s].awaiting)
    BY <2>1, <2>2 DEF PairOK
  <2>4. CASE Joined(s, p)
    <3>1. Hosted(p, s)
      BY <2>3, <2>4 DEF Joined, Hosted
    <3>2. Admits(p, s, Key("own", chatOf[p][s].session))
      BY <2>1, <3>1 DEF ChatOK, HostedOK
    <3>3. CASE Told(p, s, chatOf[s][p].session)
      <4>1. present[s][p] = Key("own", chatOf[s][p].session)
        BY <2>1, <2>2, <2>4, <3>3 DEF PairOK
      <4>2. QED BY <2>3, <3>2, <4>1 DEF Admits, Reaches
    <3>4. CASE ~Told(p, s, chatOf[s][p].session)
      <4>1. chatOf[p][s].told.otk # chatOf[p][s].session
        BY <2>3, <3>4 DEF Told
      <4>2. \/ present[s][p] = Key("own", chatOf[s][p].session)
            \/ present[s][p] = Key("pass", chatOf[s][p].session)
        BY <2>1, <2>4 DEF ChatOK, JoinedOK
      <4>3. CASE present[s][p] = Key("own", chatOf[s][p].session)
        BY <2>3, <3>2, <4>3 DEF Admits, Reaches
      <4>4. CASE present[s][p] = Key("pass", chatOf[s][p].session)
        <5>1. present[s][p].kind = "pass"
          BY <4>4 DEF Key
        <5>2. LeftOnPass(s, p)
          BY <4>1, <5>1, Zenon DEF LeftOnPass
        <5>3. QED BY <2>1, <2>2, <2>3, <5>2
      <4>5. QED BY <4>2, <4>3, <4>4
    <3>5. QED BY <3>3, <3>4
  <2>5. CASE Hosted(s, p)
    <3>1. present[s][p] = Key("reply", chatOf[s][p].session) \/ TookOldKey(s, p)
      BY <2>1, <2>5 DEF ChatOK, HostedOK
    <3>2. Joined(p, s)
      BY <2>3, <2>5 DEF Joined, Hosted
    <3>3. Admits(p, s, Key("reply", chatOf[p][s].session))
      BY <2>1, <3>2 DEF ChatOK, JoinedOK
    <3>4. QED BY <2>3, <3>1, <3>3 DEF Admits, Reaches
  <2>6. QED BY <2>1, <2>3, <2>4, <2>5 DEF ChatOK
<1>6. QED BY <1>1, <1>2, <1>3, <1>4, <1>5 DEF PairingHolds

\* A chat is open only by its user's consent and within the cap of contacts, what is
\* admitted to a device follows its chats, and two devices that both show an open
\* chat share its session once it is quiet, and reach each other unless an earlier
\* announcement or an earlier join's key stood in the way (connect_with_invite, the
\* Hello and RelaySet handlers, announce_relay_set_to, authorize, delete_chat).
THEOREM PairsAreKept == OrderlyPairs => (PairSpec => []PairingHolds)
<1> SUFFICES ASSUME OrderlyPairs PROVE PairSpec => []PairingHolds
  OBVIOUS
<1>1. PairInit => PairInv
  BY PairStarts
<1>2. PairInv /\ [PairNext]_pairVars => PairInv'
  <2> SUFFICES ASSUME PairInv, [PairNext]_pairVars PROVE PairInv'
    OBVIOUS
  <2>1. CASE UNCHANGED pairVars
    <3>1. PairTypes' /\ InvsOK'
      BY <2>1 DEF pairVars, PairInv, PairTypes, RelaysOK, InvsOK
    <3>2. FramesOK'
      BY <2>1 DEF pairVars, PairInv, FramesOK, HelloOK, Has
    <3>3. ChatsOK'
      <4> SUFFICES ASSUME NEW s \in Peers, NEW p \in Peers, Has(s, p)' PROVE ChatOK(s, p)'
        BY DEF ChatsOK
      <4>1. Has(s, p) /\ ChatOK(s, p)
        BY <2>1 DEF pairVars, Has, PairInv, ChatsOK
      <4>2. /\ Joined(s, p)' <=> Joined(s, p)
            /\ Hosted(s, p)' <=> Hosted(s, p)
        BY <2>1 DEF pairVars, Joined, Hosted
      <4>3. JoinedOK(s, p) => JoinedOK(s, p)'
        BY <2>1 DEF pairVars, JoinedOK, Admits, Key
      <4>4. HostedOK(s, p) => HostedOK(s, p)'
        BY <2>1 DEF pairVars, HostedOK, TookOldKey, Admits, Key
      <4>5. OwnOK(s, p) => OwnOK(s, p)'
        BY <2>1 DEF pairVars, OwnOK
      <4>6. QED BY <2>1, <4>1, <4>2, <4>3, <4>4, <4>5 DEF pairVars, ChatOK
    <3>4. PairsOK'
      BY <2>1 DEF pairVars, PairInv, PairsOK, PairOK, Told, HelloBetween, Joined, Has, Key, Frame
    <3>5. AccessOK'
      BY <2>1 DEF pairVars, PairInv, AccessOK, HasReason, Has
    <3>6. ContactsWithinCap'
      BY <2>1 DEF pairVars, PairInv, ContactsWithinCap, OpenContacts, Open, Has
    <3>7. QED BY <3>1, <3>2, <3>3, <3>4, <3>5, <3>6 DEF PairInv
  <2>2. CASE PairNext
    BY <2>2, InviteKeeps, ExpireKeeps, JoinKeeps, AcceptKeeps, ForgetKeeps, VerifyKeeps,
       HelloKeeps, NoticeKeeps, RelaySetKeeps, RelayListKeeps, AnnouncedKeeps DEF PairNext
  <2>3. QED BY <2>1, <2>2
<1>3. PairInv => PairingHolds
  BY PairInvHolds
<1>4. QED BY <1>1, <1>2, <1>3, PTL DEF PairSpec
===============================================================================
