------------------------------ MODULE AppLock ------------------------------
(***************************************************************************)
(* The app lock: the store key wrapped under a secret in the lock file, or *)
(* kept in the platform keystore; the duress secret that wipes; and the    *)
(* count of wrong secrets that makes the next one wait.  Each step is one  *)
(* write of one file, so a kill can fall between any two of them.          *)
(***************************************************************************)
EXTENDS Naturals, Sequences, FiniteSetsExt, Tally

CONSTANTS
    Secrets,      \* what may be typed; "decoy" and "none" are no secrets
    Normal,       \* the secret the user locks the store with
    Tier,         \* wrong secrets in a row before the wait grows
    LockWaits,        \* the waits, one per tier
    MaxLockClock, MaxWrong, MaxKills, MaxBack,   \* bounds
    DisableKill   \* whether a kill may fall between the two steps of a disable

ASSUME AppLockAssumption ==
    /\ Normal \in Secrets /\ {"decoy", "none"} \cap Secrets = {}
    /\ Tier \in Nat \ {0} /\ LockWaits \in Seq(Nat) /\ LockWaits # <<>>
    /\ LockWaits[1] = 0      \* the first tier of wait_after
    /\ {MaxLockClock, MaxWrong, MaxKills, MaxBack} \subseteq Nat /\ DisableKill \in BOOLEAN

VARIABLES
    lockFile,   \* the secret that opens each slot, and the sealed armed flag
    attempts,   \* the attempts file: wrong secrets in a row, and when the last was
    keystore,   \* whether the platform keystore holds the store key
    ram,        \* whether the running app holds it
    step,       \* the operation under way: "idle", "enable", "disable", "wipe", "wiped"
    lockClock,      \* the device's clock
    guess,      \* wrong secrets since the last right one, and the time they took
    lockLeft    \* kills and clock changes left
lockVars == <<lockFile, attempts, keystore, ram, step, lockClock, guess, lockLeft>>

NoLock == [normal |-> "none", duress |-> "none", armed |-> FALSE]
Fresh(s) == [normal |-> s, duress |-> "decoy", armed |-> FALSE]
NoAttempts == [failures |-> 0, last |-> 0]
LockTypeOK ==
    /\ lockFile.normal \in Secrets \cup {"none"} /\ lockFile.duress \in Secrets \cup {"none", "decoy"}
    /\ attempts.failures \in 0 .. MaxWrong /\ lockClock \in 0 .. MaxLockClock + MaxBack
    /\ step \in {"idle", "enable", "disable", "wipe", "wiped"}

LockInit ==
    /\ lockFile = NoLock /\ attempts = NoAttempts /\ keystore = TRUE /\ ram = TRUE
    /\ step = "idle" /\ lockClock = MaxBack
    /\ guess = [wrong |-> 0, took |-> 0] /\ lockLeft = [kills |-> MaxKills, back |-> MaxBack]

IsLocked == lockFile # NoLock

\* wait_after
WaitAfter(failures) == LockWaits[Min({failures \div Tier + 1, Len(LockWaits)})]

\* Mutant: a clock set back counts as time that went by.
SinceEither == IF lockClock < attempts.last THEN attempts.last - lockClock ELSE lockClock - attempts.last

\* Time since the last failure; a clock set back counts as none.
Since == IF lockClock < attempts.last THEN 0 ELSE lockClock - attempts.last

\* wait_secs
WaitSecs ==
    LET wait == WaitAfter(attempts.failures) IN IF Since >= wait THEN 0 ELSE wait - Since

NoteFailure ==
    /\ attempts.failures < MaxWrong
    /\ attempts' = [failures |-> attempts.failures + 1, last |-> lockClock]
    /\ guess' = [guess EXCEPT !.wrong = @ + 1]
\* A right secret removes the attempts file.
NoteSuccess == attempts' = NoAttempts /\ guess' = [wrong |-> 0, took |-> 0]

----------------------------------------------------------------------------
\* unlock_store_key at the lock screen.
Unlock(s) ==
    /\ IsLocked /\ ~ram /\ step = "idle" /\ WaitSecs = 0
    /\ \/ s = lockFile.normal /\ NoteSuccess /\ ram' = TRUE /\ UNCHANGED step
       \/ s = lockFile.duress /\ NoteSuccess /\ step' = "wipe" /\ UNCHANGED ram
       \/ s \notin {lockFile.normal, lockFile.duress} /\ NoteFailure /\ UNCHANGED <<ram, step>>
    /\ UNCHANGED <<lockFile, keystore, lockClock, lockLeft>>

\* store_secret_is_correct in the settings: the same attempt, and a duress
\* secret wipes nothing.
IsNormalSecret(s) ==
    /\ IsLocked /\ ram /\ step = "idle" /\ WaitSecs = 0
    /\ IF s \in {lockFile.normal, lockFile.duress} THEN NoteSuccess ELSE NoteFailure
    /\ UNCHANGED <<lockFile, keystore, ram, step, lockClock, lockLeft>>

\* set_duress, whose self-check is an unlock: while a wait runs it fails and
\* the previous lock is put back.  A wrong passphrase is refused here and in
\* clear_duress without being counted or made to wait: the app's settings ask
\* is_normal_secret first, and a call that skips that is left out.
SetDuress(d) ==
    /\ IsLocked /\ ram /\ step = "idle" /\ d # lockFile.normal /\ WaitSecs = 0
    /\ lockFile' = [lockFile EXCEPT !.duress = d, !.armed = TRUE]
    /\ NoteSuccess
    /\ UNCHANGED <<keystore, ram, step, lockClock, lockLeft>>

\* clear_duress
ClearDuress ==
    /\ IsLocked /\ ram /\ step = "idle"
    /\ lockFile' = Fresh(lockFile.normal)
    /\ UNCHANGED <<attempts, keystore, ram, step, lockClock, guess, lockLeft>>

\* Mutant: a lock file that could not be written goes unnoticed.
SetPassphraseUnwritten ==
    /\ ~IsLocked /\ keystore /\ step = "idle"
    /\ step' = "enable"
    /\ UNCHANGED <<lockFile, attempts, keystore, ram, lockClock, guess, lockLeft>>

\* set_store_passphrase, and then the caller deletes its keystore copy.
SetPassphrase ==
    /\ ~IsLocked /\ keystore /\ step = "idle"
    /\ lockFile' = Fresh(Normal) /\ step' = "enable"
    /\ UNCHANGED <<attempts, keystore, ram, lockClock, guess, lockLeft>>
DeleteKeystoreCopy ==
    /\ step = "enable"
    /\ keystore' = FALSE /\ ram' = TRUE /\ step' = "idle"
    /\ UNCHANGED <<lockFile, attempts, lockClock, guess, lockLeft>>

\* clear_store_passphrase, and then the caller restores its keystore copy.
ClearPassphrase ==
    /\ IsLocked /\ ram /\ step = "idle" /\ WaitSecs = 0
    /\ lockFile' = NoLock /\ step' = "disable" /\ NoteSuccess
    /\ UNCHANGED <<keystore, ram, lockClock, lockLeft>>
RestoreKeystoreCopy ==
    /\ step = "disable"
    /\ keystore' = TRUE /\ step' = "idle"
    /\ UNCHANGED <<lockFile, attempts, ram, lockClock, guess, lockLeft>>

\* lockStore: the app is put away and forgets the key.
LockStore ==
    /\ IsLocked /\ ram /\ step = "idle"
    /\ ram' = FALSE
    /\ UNCHANGED <<lockFile, attempts, keystore, step, lockClock, guess, lockLeft>>

\* The duress wipe: destroy_store_lock first, then the store.
DestroyLock ==
    /\ step = "wipe"
    /\ lockFile' = NoLock /\ keystore' = FALSE /\ step' = "wiped"
    /\ UNCHANGED <<attempts, ram, lockClock, guess, lockLeft>>

\* Mutant: the count of wrong secrets lives and dies with the app.
KillForgets ==
    /\ lockLeft.kills > 0 /\ step \in {"idle", "enable"} \cup (IF DisableKill THEN {"disable"} ELSE {})
    /\ ram' = (keystore /\ ~IsLocked) /\ step' = "idle" /\ attempts' = NoAttempts
    /\ lockLeft' = [lockLeft EXCEPT !.kills = @ - 1]
    /\ UNCHANGED <<lockFile, keystore, lockClock, guess>>

\* The app is killed and started again: without a lock the key comes out of
\* the keystore.
Kill ==
    /\ lockLeft.kills > 0 /\ step \in {"idle", "enable"} \cup (IF DisableKill THEN {"disable"} ELSE {})
    /\ ram' = (keystore /\ ~IsLocked) /\ step' = "idle"
    /\ lockLeft' = [lockLeft EXCEPT !.kills = @ - 1]
    /\ UNCHANGED <<lockFile, attempts, keystore, lockClock, guess>>

Tick ==
    /\ lockClock < MaxLockClock + MaxBack
    /\ lockClock' = lockClock + 1
    /\ guess' = [guess EXCEPT !.took = IF guess.wrong = 0 THEN 0 ELSE @ + 1]
    /\ UNCHANGED <<lockFile, attempts, keystore, ram, step, lockLeft>>
SetClockBack ==
    /\ lockLeft.back > 0 /\ lockClock > 0
    /\ lockClock' \in 0 .. lockClock - 1
    /\ lockLeft' = [lockLeft EXCEPT !.back = @ - 1]
    /\ UNCHANGED <<lockFile, attempts, keystore, ram, step, guess>>

LockNext ==
    \/ \E s \in Secrets : Unlock(s) \/ IsNormalSecret(s) \/ SetDuress(s)
    \/ ClearDuress \/ SetPassphrase \/ DeleteKeystoreCopy \/ ClearPassphrase
    \/ RestoreKeystoreCopy \/ LockStore \/ DestroyLock \/ Kill \/ Tick \/ SetClockBack
LockSpec == LockInit /\ [][LockNext]_lockVars

----------------------------------------------------------------------------
\* The store can always be opened again until it is wiped: its key is in the
\* keystore, wrapped in the lock file under a secret the user chose, or in
\* the hands of the operation that moves it between the two.
StoreKeyReachable ==
    step \in {"wipe", "wiped"} \/ keystore \/ lockFile.normal = Normal
        \/ (step \in {"enable", "disable"} /\ ram)

\* The least time n wrong secrets in a row take: the waits before each of them.
WaitBefore == [k \in Nat \ {0} |-> WaitAfter(k - 1)]
Pace(n) == Total(1 .. n, WaitBefore)

\* Wrong secrets are paced: n of them in a row take at least the waits in
\* between, across kills of the app, a clock set back, the settings screen
\* and the duress self-check (storage/lock.rs, unlock and wait_secs).
GuessesArePaced == guess.took >= Pace(guess.wrong)

\* The lock neither loses the key of the store (StoreKeyReachable) nor lets a
\* secret be guessed faster than its waits (GuessesArePaced).
LockHolds == LockTypeOK /\ StoreKeyReachable /\ GuessesArePaced

\* Behind it: the attempts file counts every wrong secret of this series, and
\* the time that file will admit to (Since) went by on top of the waits; the key
\* is in the keystore, or wrapped under the user's secret, whenever no operation
\* is moving it.
LockInv ==
    /\ lockFile \in [normal : {"none", Normal}, duress : Secrets \cup {"none", "decoy"},
                     armed : BOOLEAN]
    /\ IsLocked => lockFile.normal = Normal
    /\ attempts \in [failures : 0 .. MaxWrong, last : Nat]
    /\ lockClock \in 0 .. MaxLockClock + MaxBack
    /\ step \in {"idle", "enable", "disable", "wipe", "wiped"}
    /\ guess \in [wrong : Nat, took : Nat] /\ lockLeft \in [kills : Nat, back : Nat]
    /\ guess.wrong = attempts.failures
    /\ guess.wrong > 0 => guess.took >= Pace(guess.wrong) + Since
    /\ step = "idle" => keystore \/ lockFile.normal = Normal
    /\ step = "enable" => lockFile.normal = Normal
    /\ step = "disable" => ram
=============================================================================
