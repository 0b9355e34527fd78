----------------------------- MODULE OnionKey ------------------------------
(***************************************************************************)
(* Which onion address a core comes up on: the identity sealed beside the  *)
(* state file, arti's on-disk keystore that older versions left, and the   *)
(* one a backup carries.  Every start writes several files, and the app    *)
(* can be killed between any two of them.  An address is named by the      *)
(* order arti generated it in, an identity by the order it was set up in.  *)
(***************************************************************************)
EXTENDS Naturals

CONSTANTS
    MaxIds,         \* identities ever set up
    MaxAddr,        \* addresses ever generated
    MaxOnionStarts,      \* starts of the app
    OnionCases      \* restores a behaviour may use, and what its wipes may leave behind

ASSUME OnionKeyAssumption ==
    /\ {MaxIds, MaxAddr, MaxOnionStarts} \subseteq Nat
    /\ MaxIds >= 2 /\ MaxAddr >= 2      \* OnionInit may start with two of each
    /\ \A c \in OnionCases : c.restores \subseteq {"file", "old", "bare", "server"}
                              /\ \A w \in c.leaves : w \subseteq {"sealed", "arti"}

VARIABLES
    state,   \* the state file: the identity and the address it recorded, or none
    sealed,  \* onion-key.sealed: the address, and the identity whose store key seals it
    arti,    \* arti's on-disk keystore: the address in it, or 0
    run,     \* the start under way, or the running core
    toldAddress,    \* what each identity's contacts hold as its address; 0 before any
    backup,  \* a backup of an identity: the address it carries, or 0
    onionsMade,    \* identities and addresses made, starts done
    means    \* the case
okVars == <<state, sealed, arti, run, toldAddress, backup, onionsMade, means>>

Ids == 0 .. MaxIds
Addrs == 0 .. MaxAddr
None == [id |-> 0, addr |-> 0]
Off == [pc |-> "off", id |-> 0, addr |-> 0, saved |-> FALSE]

OnionTypeOK ==
    /\ {state, sealed, backup} \subseteq [id : Ids, addr : Addrs] /\ arti \in Addrs
    /\ run \in [pc : {"off", "seal", "save", "on"}, id : Ids, addr : Addrs, saved : BOOLEAN]
    /\ toldAddress \in [1 .. MaxIds -> Addrs]

\* A first install, or one from before the sealed key whose identity 1 is in
\* arti's keystore; and perhaps a backup of identity 2, from another device.
OnionInit ==
    /\ run = Off /\ sealed = None /\ means \in OnionCases
    /\ \E old, elsewhere \in BOOLEAN :
          LET one == [id |-> 1, addr |-> 1]
              two == [id |-> 2, addr |-> 2] IN
          /\ state = (IF old THEN one ELSE None) /\ arti = (IF old THEN 1 ELSE 0)
          /\ backup = (IF elsewhere THEN two ELSE None)
          /\ toldAddress = [i \in 1 .. MaxIds |-> IF (i = 1 /\ old) \/ (i = 2 /\ elsewhere) THEN i ELSE 0]
          /\ onionsMade = LET n == IF elsewhere THEN 2 ELSE IF old THEN 1 ELSE 0 IN
                    [ids |-> n, addrs |-> n, starts |-> 0]

Restoring == state # None
\* onion_key_for_start: only an identity being restored has one; a key that
\* does not unseal under its store key fails the start.
Readable == Restoring /\ sealed # None => sealed.id = state.id
HaveSealed == Restoring /\ sealed # None

\* Mutant: whatever is in arti's keystore may speak for us.
KeepKeystore == arti

\* drop_superseded_keystore
KeystoreAfterDrop == IF Restoring /\ ~HaveSealed THEN arti ELSE 0

\* TorTransport::bootstrap: the key it is given, else arti's own keystore,
\* else a new one.
Bootstrap(saved, disk) ==
    IF saved # 0 THEN saved ELSE IF disk # 0 THEN disk ELSE onionsMade.addrs + 1
Starting(id, addr, saved) == run' = [pc |-> "seal", id |-> id, addr |-> addr, saved |-> saved]
Counted(id, addr) ==
    /\ addr <= MaxAddr /\ id <= MaxIds /\ onionsMade.starts < MaxOnionStarts
    /\ onionsMade' = [ids |-> IF id > onionsMade.ids THEN id ELSE onionsMade.ids,
                addrs |-> IF addr > onionsMade.addrs THEN addr ELSE onionsMade.addrs, starts |-> onionsMade.starts + 1]

----------------------------------------------------------------------------
\* new_tor up to the bootstrap, for the identity of the state file or a new one.
StartTor ==
    LET id == IF Restoring THEN state.id ELSE onionsMade.ids + 1
        addr == Bootstrap(IF HaveSealed THEN sealed.addr ELSE 0, KeystoreAfterDrop) IN
    /\ run.pc = "off" /\ Readable
    /\ Counted(id, addr) /\ arti' = KeystoreAfterDrop
    /\ Starting(id, addr, HaveSealed)
    /\ UNCHANGED <<state, sealed, toldAddress, backup, means>>

\* restore_backup_tor over a wiped install: the identity the backup carries,
\* the keystore files of an old one, or neither.
RestoreOnion ==
    \E kind \in means.restores \ {"server"} :
        LET disk == IF kind = "old" THEN backup.addr ELSE arti
            addr == Bootstrap(IF kind = "file" THEN backup.addr ELSE 0, disk) IN
        /\ run.pc = "off" /\ ~Restoring /\ backup # None
        /\ Counted(backup.id, addr) /\ arti' = disk
        /\ Starting(backup.id, addr, FALSE)
        /\ UNCHANGED <<state, sealed, toldAddress, backup, means>>

\* restore_server_backup_tor: the backup can only be fetched once Tor is up.
RestoreServerBackup ==
    LET addr == Bootstrap(0, arti) IN
    /\ "server" \in means.restores
    /\ run.pc = "off" /\ ~Restoring /\ backup # None
    /\ Counted(backup.id, addr)
    /\ Starting(backup.id, addr, FALSE)
    /\ UNCHANGED <<state, sealed, arti, toldAddress, backup, means>>

\* Mutant: a start that read no sealed key writes none.
SealOnlyFirst ==
    /\ run.pc = "seal"
    /\ sealed' = IF run.saved \/ arti # 0 THEN sealed ELSE [id |-> run.id, addr |-> run.addr]
    /\ run' = [run EXCEPT !.pc = "save"]
    /\ UNCHANGED <<state, arti, toldAddress, backup, onionsMade, means>>

\* Mutant: the identity is left to arti's keystore, which is in memory.
SealNever ==
    /\ run.pc = "seal"
    /\ run' = [run EXCEPT !.pc = "save"]
    /\ UNCHANGED <<state, sealed, arti, toldAddress, backup, onionsMade, means>>

\* seal_onion_identity, after any bootstrap that did not start from a sealed key.
Seal ==
    /\ run.pc = "seal"
    /\ sealed' = IF run.saved THEN sealed ELSE [id |-> run.id, addr |-> run.addr]
    /\ run' = [run EXCEPT !.pc = "save"]
    /\ UNCHANGED <<state, arti, toldAddress, backup, onionsMade, means>>

\* announce_address_if_changed, and the save in start: contacts hear of an
\* address that differs from the recorded one.
Start ==
    /\ run.pc = "save"
    /\ state' = [id |-> run.id, addr |-> run.addr]
    /\ toldAddress' = [toldAddress EXCEPT ![run.id] = run.addr]
    /\ run' = [run EXCEPT !.pc = "on"]
    /\ UNCHANGED <<sealed, arti, backup, onionsMade, means>>

\* export_backup: a file that carries the running identity.
ExportBackup ==
    /\ run.pc = "on" /\ backup # [id |-> run.id, addr |-> run.addr]
    /\ backup' = [id |-> run.id, addr |-> run.addr]
    /\ UNCHANGED <<state, sealed, arti, run, toldAddress, onionsMade, means>>

\* The app is killed, at any step.
Stop ==
    /\ run.pc # "off"
    /\ run' = Off
    /\ UNCHANGED <<state, sealed, arti, toldAddress, backup, onionsMade, means>>

\* A logout, a duress wipe, or a new identity from the load-error screen:
\* the state file goes, the rest may not.
Wipe ==
    \E left \in means.leaves :
        /\ run.pc \in {"off", "on"} /\ Restoring
        /\ state' = None /\ run' = Off
        /\ sealed' = IF "sealed" \in left THEN sealed ELSE None
        /\ arti' = IF "arti" \in left THEN arti ELSE 0
        /\ UNCHANGED <<toldAddress, backup, onionsMade, means>>

OnionNext ==
    \/ StartTor \/ RestoreOnion \/ RestoreServerBackup \/ Seal \/ Start
    \/ ExportBackup \/ Stop \/ Wipe
OnionSpec == OnionInit /\ [][OnionNext]_okVars

----------------------------------------------------------------------------
\* An identity that is loaded from its state file comes up on the address it
\* recorded, whenever the app was killed before (onion_key_for_start: "would
\* let the caller start with a fresh identity and silently change our
\* address, stranding every contact").
AddressIsKept == Restoring /\ run.pc \in {"seal", "save"} => run.addr = state.addr

\* The app never locks itself out: the sealed key on disk opens under the
\* store key of the identity in the state file.
NeverUnreadable == Readable

\* No identity comes up on the address of another: a leftover keystore or a
\* stale sealed key of an abandoned identity is never adopted.
NoInheritedAddress ==
    run.pc # "off" => \A i \in 1 .. MaxIds : i # run.id => toldAddress[i] # run.addr

\* AddressIsKept, NeverUnreadable and NoInheritedAddress: an identity keeps its own
\* onion address and no other takes it.
OnionHolds == OnionTypeOK /\ AddressIsKept /\ NeverUnreadable /\ NoInheritedAddress

----------------------------------------------------------------------------
\* The invariant OnionHolds rests on.  What was made bounds what can be named,
\* and no two identities were told of one address.
OnionRange ==
    /\ onionsMade \in [ids : Ids, addrs : Addrs, starts : Nat] /\ means \in OnionCases
    /\ arti <= onionsMade.addrs
    /\ \A i \in 1 .. MaxIds : /\ toldAddress[i] <= onionsMade.addrs
                              /\ i > onionsMade.ids => toldAddress[i] = 0
                              /\ \A j \in 1 .. MaxIds : i # j /\ toldAddress[i] # 0 => toldAddress[i] # toldAddress[j]

\* Nobody but identity id was told of addr.
OwnedBy(id, addr) ==
    /\ id \in 1 .. onionsMade.ids /\ addr \in 1 .. onionsMade.addrs
    /\ \A i \in 1 .. MaxIds : i # id => toldAddress[i] # addr

\* A saved identity can come up again: its key is sealed, or still arti's.
StateOwned ==
    Restoring => /\ OwnedBy(state.id, state.addr) /\ toldAddress[state.id] = state.addr
                 /\ sealed = state \/ (sealed = None /\ arti = state.addr)
BackupOwned == backup # None => OwnedBy(backup.id, backup.addr)
RunOwned ==
    run.pc # "off" =>
        /\ OwnedBy(run.id, run.addr)
        /\ backup # None /\ backup.id # run.id => run.addr # backup.addr
        /\ Restoring => state = [id |-> run.id, addr |-> run.addr]
        /\ run.pc = "on" => Restoring
        /\ run.pc = "save" \/ (run.pc = "seal" /\ run.saved) => sealed = [id |-> run.id, addr |-> run.addr]

\* A keystore that a restore without a key would adopt holds the address of
\* that very backup.
KeystoreOwned ==
    ~Restoring /\ arti # 0 /\ means.restores \cap {"bare", "server"} # {} => arti = backup.addr

OnionInv == OnionTypeOK /\ OnionRange /\ StateOwned /\ BackupOwned /\ RunOwned /\ KeystoreOwned
=============================================================================
