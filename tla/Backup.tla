------------------------------- MODULE Backup -------------------------------
(***************************************************************************)
(* Backups (core/src/node/backup.rs, the backup calls of core/src/api.rs): *)
(* a file export, a scoped export of one chat merged back later, and the   *)
(* opt-in copy on the relay that is taken, restored and put back if the    *)
(* restore fails.  One identity, one device at a time: the phone may be    *)
(* lost and another restored from what was exported.                       *)
(***************************************************************************)
EXTENDS Naturals, FiniteSets

CONSTANTS
    BackupContacts,  \* contacts of the identity
    BackupTexts,           \* messages without an attachment
    Pictures,        \* messages with one
    ContactCap,      \* mailbox::MAX_CONTACTS
    MaxSession,      \* bound on a session's position
    MaxSwitches,     \* bound on nearby switches
    MaxLosses,       \* bound on lost phones
    MaxMade,         \* bound on the backups made
    BackupFaults     \* what may fail: "post", "damaged", "repost"; and
                     \* "late" for nearby switches made after an export

ASSUME BackupAssumption ==
    /\ ContactCap \in Nat /\ MaxSession \in Nat /\ MaxSwitches \in Nat /\ MaxLosses \in Nat /\ MaxMade \in Nat
    /\ BackupFaults \subseteq {"post", "damaged", "repost", "late"}

VARIABLES
    dev,       \* the running device: identity, chats, sealed attachments; off when lost
    disk,      \* its state file
    prepared,  \* the export waiting to be written
    exports,   \* the export files the user kept
    serverSlot,      \* the relay's copy
    fetched,   \* the copy a restore has taken off the relay
    view,      \* per contact: what it last heard about nearby
    unsent,    \* ghost: messages unsent in a chat
    losses,
    switches,
    bkMade
backupVars == <<dev, disk, prepared, exports, serverSlot, fetched, view, unsent, losses, switches, bkMade>>

Msgs == BackupTexts \cup Pictures
NoBlob == [is |-> "none"]

\* PersistedChat, the part a backup and a merge tell apart.
NewChat == [session |-> 0, history |-> {}, tombs |-> {}, open |-> TRUE, near |-> FALSE, seq |-> 0, told |-> 0,
            backed |-> FALSE]
HasChat(d) == DOMAIN d.chats
Put(d, c, chat) == [d EXCEPT !.chats = [x \in HasChat(d) \cup {c} |-> IF x = c THEN chat ELSE d.chats[x]]]
OpenChats(d) == Cardinality({c \in HasChat(d) : d.chats[c].open})

BackupInit ==
    /\ dev = [on |-> TRUE, chats |-> [c \in {} |-> NewChat], files |-> {}]
    /\ disk = dev
    /\ prepared = NoBlob /\ exports = {} /\ serverSlot = NoBlob /\ fetched = NoBlob
    /\ view = [c \in BackupContacts |-> [on |-> FALSE, seq |-> 0]]
    /\ unsent = [c \in BackupContacts |-> {}]
    /\ losses = 0 /\ switches = 0 /\ bkMade = 0

---------------------------------------------------------------------------
(* The phone in use: every call saves.                                     *)

Saves(d) == dev' = d /\ disk' = d

\* A contact is paired for the first time, within the cap (check_contact_cap).
AddContact(c) ==
    /\ dev.on /\ c \notin HasChat(dev) /\ OpenChats(dev) < ContactCap
    /\ view[c] = [on |-> FALSE, seq |-> 0]
    /\ \A b \in exports \cup ({prepared, serverSlot, fetched} \ {NoBlob}) : c \notin DOMAIN b.chats
    /\ Saves(Put(dev, c, NewChat))
    /\ UNCHANGED <<prepared, exports, serverSlot, fetched, view, unsent, losses, switches, bkMade>>

Exchange(c, m) ==
    /\ dev.on /\ c \in HasChat(dev) /\ dev.chats[c].session < MaxSession
    /\ m \notin dev.chats[c].history \cup dev.chats[c].tombs
    /\ Saves([Put(dev, c, [dev.chats[c] EXCEPT !.session = @ + 1, !.history = @ \cup {m}])
                EXCEPT !.files = @ \cup ({m} \cap Pictures)])
    /\ UNCHANGED <<prepared, exports, serverSlot, fetched, view, unsent, losses, switches, bkMade>>

\* An unsend of a text that may have been read leaves a tombstone with its id.
Unsend(c, m) ==
    /\ dev.on /\ c \in HasChat(dev) /\ m \in dev.chats[c].history /\ m \in BackupTexts
    /\ Saves([Put(dev, c, [dev.chats[c] EXCEPT !.history = @ \ {m}, !.tombs = @ \cup {m}])
                EXCEPT !.files = @ \ {m}])
    /\ unsent' = [unsent EXCEPT ![c] = @ \cup {m}]
    /\ UNCHANGED <<prepared, exports, serverSlot, fetched, view, losses, switches, bkMade>>

\* A burn, a timer, or an unsend recalled in time removes the entry whole.
Vanish(c, m) ==
    /\ dev.on /\ c \in HasChat(dev) /\ m \in dev.chats[c].history
    /\ Saves([Put(dev, c, [dev.chats[c] EXCEPT !.history = @ \ {m}]) EXCEPT !.files = @ \ {m}])
    /\ UNCHANGED <<prepared, exports, serverSlot, fetched, view, unsent, losses, switches, bkMade>>

DeleteChat(c) ==
    /\ dev.on /\ c \in HasChat(dev)
    /\ Saves([dev EXCEPT !.chats = [x \in HasChat(dev) \ {c} |-> dev.chats[x]],
                         !.files = @ \ dev.chats[c].history])
    /\ unsent' = [unsent EXCEPT ![c] = {}]
    /\ UNCHANGED <<prepared, exports, serverSlot, fetched, view, losses, switches, bkMade>>

\* set_nearby: the sequence a contact orders the switches by.
SwitchNearby(c) ==
    /\ dev.on /\ c \in HasChat(dev) /\ switches < MaxSwitches
    /\ "late" \in BackupFaults \/ (exports = {} /\ serverSlot = NoBlob /\ prepared = NoBlob)
    /\ switches' = switches + 1
    /\ Saves(Put(dev, c, [dev.chats[c] EXCEPT !.near = ~@, !.seq = @ + 1]))
    /\ UNCHANGED <<prepared, exports, serverSlot, fetched, view, unsent, losses, bkMade>>

\* announce_nearby delivered: the contact keeps the higher sequence.
TellNearby(c) ==
    /\ dev.on /\ c \in HasChat(dev) /\ dev.chats[c].told # dev.chats[c].seq
    /\ view' = IF dev.chats[c].seq > view[c].seq
               THEN [view EXCEPT ![c] = [on |-> dev.chats[c].near, seq |-> dev.chats[c].seq]]
               ELSE view
    /\ Saves(Put(dev, c, [dev.chats[c] EXCEPT !.told = @ + (dev.chats[c].seq - dev.chats[c].told)]))
    /\ UNCHANGED <<prepared, exports, serverSlot, fetched, unsent, losses, switches, bkMade>>

---------------------------------------------------------------------------
(* Exports.                                                                *)

MarkBacked(d, S) == [d EXCEPT !.chats = [c \in HasChat(d) |-> [d.chats[c] EXCEPT !.backed = @ \/ c \in S]]]

\* A device export turns nearby off under a fresh sequence.
NearbyOff(chat) == IF chat.near THEN [chat EXCEPT !.near = FALSE, !.seq = @ + 1] ELSE chat

\* A Lite export holds no messages: their history is stripped.
Stripped(chat, full) == IF full THEN chat ELSE [chat EXCEPT !.history = {}, !.tombs = {}]

\* backup_with_mode (every chat) and backup_chat (one).
DeviceExport(full) ==
    [is |-> "device", chats |-> [c \in HasChat(dev) |-> Stripped(NearbyOff(dev.chats[c]), full)],
     files |-> IF full THEN dev.files ELSE {}]
ChatExport(c, full) ==
    [is |-> "chat", chats |-> [x \in {c} |-> Stripped(dev.chats[c], full)],
     files |-> IF full THEN dev.files \cap dev.chats[c].history ELSE {}]

CreateBackup(full) ==
    /\ dev.on /\ bkMade < MaxMade /\ bkMade' = bkMade + 1
    /\ prepared' = DeviceExport(full)
    /\ Saves(MarkBacked(dev, HasChat(dev)))
    /\ UNCHANGED <<exports, serverSlot, fetched, view, unsent, losses, switches>>

CreateChatBackup(c, full) ==
    /\ dev.on /\ c \in HasChat(dev) /\ bkMade < MaxMade /\ bkMade' = bkMade + 1
    /\ prepared' = ChatExport(c, full)
    /\ Saves(MarkBacked(dev, {c}))
    /\ UNCHANGED <<exports, serverSlot, fetched, view, unsent, losses, switches>>

\* save_backup: a failed write keeps what was prepared.
SaveBackup ==
    /\ dev.on /\ prepared # NoBlob
    /\ exports' = exports \cup {prepared}
    /\ prepared' = NoBlob
    /\ UNCHANGED <<dev, disk, serverSlot, fetched, view, unsent, losses, switches, bkMade>>

\* create_server_backup: posted off the lock; the chats are marked once it is.
\* A fresh random password makes a fresh handle, so an earlier copy is not found
\* again: the last one posted is the one the user holds a password for.
CreateServerBackup(full) ==
    /\ dev.on /\ bkMade < MaxMade /\ bkMade' = bkMade + 1
    /\ \/ serverSlot' = DeviceExport(full) /\ Saves(MarkBacked(dev, HasChat(dev)))
       \/ "post" \in BackupFaults /\ UNCHANGED <<serverSlot, dev, disk>>
    /\ UNCHANGED <<prepared, exports, fetched, view, unsent, losses, switches>>

---------------------------------------------------------------------------
(* Merging a scoped export into the live identity.                         *)

\* Mutant: the export's session replaces the live one.
FoldedWhole(d, b, c) ==
    [b.chats[c] EXCEPT !.history = (@ \cup d.chats[c].history) \ d.chats[c].tombs, !.tombs = d.chats[c].tombs]

\* An existing chat keeps its session and gains the messages whose ids it lacks.
Folded(d, b, c) ==
    [d.chats[c] EXCEPT !.history = @ \cup (b.chats[c].history \ d.chats[c].tombs),
                       !.tombs = @ \cup (b.chats[c].tombs \ d.chats[c].history)]

\* The chats C of the export, inserted or folded into the live ones.
Merged(d, b, C) ==
    [d EXCEPT !.chats = [c \in HasChat(d) \cup C |->
        IF c \notin C THEN d.chats[c] ELSE IF c \in HasChat(d) THEN Folded(d, b, c) ELSE b.chats[c]]]
NewOpen(d, b, C) == {c \in C \ HasChat(d) : b.chats[c].open}

\* merge_from_backup: the chats of the export one after the other, in an order of
\* its own, then the attachments it carries and the save. A chat that would be
\* one open contact too many ends it there: the chats before it stay in memory.
MergeBackup(b) ==
    /\ dev.on /\ b \in exports
    /\ \E C \in SUBSET DOMAIN b.chats :
          /\ NewOpen(dev, b, C) # {} => OpenChats(dev) + Cardinality(NewOpen(dev, b, C)) <= ContactCap
          /\ \/ C = DOMAIN b.chats /\ Saves([Merged(dev, b, C) EXCEPT !.files = @ \cup b.files])
             \/ /\ OpenChats(dev) + Cardinality(NewOpen(dev, b, C)) >= ContactCap
                /\ NewOpen(dev, b, DOMAIN b.chats \ C) # {}
                /\ dev' = Merged(dev, b, C) /\ UNCHANGED disk
    /\ UNCHANGED <<prepared, exports, serverSlot, fetched, view, unsent, losses, switches, bkMade>>

---------------------------------------------------------------------------
(* Losing the phone and restoring another.                                 *)

LosePhone ==
    /\ dev.on /\ losses < MaxLosses
    /\ losses' = losses + 1
    /\ dev' = [on |-> FALSE, chats |-> [c \in {} |-> NewChat], files |-> {}]
    /\ disk' = dev' /\ prepared' = NoBlob
    /\ unsent' = [c \in BackupContacts |-> {}]
    /\ UNCHANGED <<exports, serverSlot, fetched, view, switches, bkMade>>

Restored(b) == [on |-> TRUE, chats |-> b.chats, files |-> b.files]

\* restore_backup_tor: decrypt, bootstrap, rebuild; `start` saves under the
\* device's own key.
RestoreFile(b) ==
    /\ ~dev.on /\ fetched = NoBlob /\ b \in exports /\ b.is = "device"
    /\ Saves(Restored(b))
    /\ UNCHANGED <<prepared, exports, serverSlot, fetched, view, unsent, losses, switches, bkMade>>

\* restore_from_server: the relay's copy is taken.
TakeServerBackup ==
    /\ ~dev.on /\ serverSlot # NoBlob /\ fetched = NoBlob
    /\ fetched' = serverSlot /\ serverSlot' = NoBlob
    /\ UNCHANGED <<dev, disk, prepared, exports, view, unsent, losses, switches, bkMade>>

RestoreFetched ==
    /\ ~dev.on /\ fetched # NoBlob
    /\ Saves(Restored(fetched))
    /\ fetched' = NoBlob
    /\ UNCHANGED <<prepared, exports, serverSlot, view, unsent, losses, switches, bkMade>>

\* Mutant: a failed restore leaves it at that.
NotPutBack == NoBlob

\* A restore that fails puts the copy back; the result of that is ignored.
PutBack == fetched

RestoreFails ==
    /\ ~dev.on /\ fetched # NoBlob /\ "damaged" \in BackupFaults
    /\ \/ serverSlot' = PutBack
       \/ "repost" \in BackupFaults /\ serverSlot' = NoBlob
    /\ fetched' = NoBlob
    /\ UNCHANGED <<dev, disk, prepared, exports, view, unsent, losses, switches, bkMade>>

BackupNext ==
    \/ \E c \in BackupContacts : \/ AddContact(c)
                                 \/ \E m \in Msgs : Exchange(c, m) \/ Unsend(c, m) \/ Vanish(c, m)
                                 \/ DeleteChat(c) \/ SwitchNearby(c) \/ TellNearby(c)
                                 \/ \E full \in BOOLEAN : CreateChatBackup(c, full)
    \/ \E full \in BOOLEAN : CreateBackup(full) \/ CreateServerBackup(full)
    \/ SaveBackup \/ LosePhone
    \/ \E b \in exports : MergeBackup(b) \/ RestoreFile(b)
    \/ TakeServerBackup \/ RestoreFetched \/ RestoreFails

BackupSpec == BackupInit /\ [][BackupNext]_backupVars

---------------------------------------------------------------------------

\* What a device and an export hold.
BackupTypeOK ==
    /\ HasChat(dev) \subseteq BackupContacts /\ dev.files \subseteq Pictures
    /\ \A c \in HasChat(dev) : dev.chats[c].session \in 0..MaxSession

\* "without disturbing our identity or an active session": a step that keeps a
\* chat never moves its session back and never takes a tombstone from it
\* (merge_from_backup, `Some(chat)` arm).
MergeOnlyAdds ==
    [][dev.on /\ dev'.on =>
         \A c \in HasChat(dev) \cap HasChat(dev') :
            /\ dev'.chats[c].session >= dev.chats[c].session
            /\ dev.chats[c].tombs \subseteq dev'.chats[c].tombs]_backupVars

\* A message unsent in a chat does not come back with an older export of it.
UnsentStaysUnsent == \A c \in HasChat(dev) : dev.chats[c].history \cap unsent[c] = {}

\* "a failed attempt would destroy the only server backup": a taken copy is
\* restored, put back, or still in hand (restore_from_server).
ServerCopyKept ==
    [][fetched # NoBlob /\ fetched' = NoBlob => serverSlot' = fetched \/ dev'.on]_backupVars

\* "the bumped sequence tells the contact so": once a device's nearby setting is
\* told, the contact does not still take it for on when it is off
\* (backup_with_mode, Frame::Nearby).
NearbyOffIsHeard ==
    \A c \in HasChat(dev) : dev.on /\ dev.chats[c].told = dev.chats[c].seq /\ ~dev.chats[c].near => ~view[c].on

\* MergeOnlyAdds, ServerCopyKept, UnsentStaysUnsent and NearbyOffIsHeard: a backup adds
\* to a device and takes nothing from it, and is itself never lost by a failed attempt.
BackupHolds ==
    /\ [](BackupTypeOK /\ UnsentStaysUnsent /\ NearbyOffIsHeard)
    /\ MergeOnlyAdds /\ ServerCopyKept
=============================================================================
