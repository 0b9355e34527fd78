------------------------------ MODULE Epochs ------------------------------
(***************************************************************************)
(* Which mailboxes a device empties: the relays it polls and the days      *)
(* whose handles it polls (node/mailbox.rs, node/messaging.rs, node.rs).   *)
(*                                                                         *)
(* A contact posts to the relays it was told of, under the handle of the   *)
(* day its own clock shows.  The device drains every relay it polls in     *)
(* rounds that run off the lock, and stops polling yesterday's handles     *)
(* once a round has emptied them.  Time is counted in slots of a day.      *)
(***************************************************************************)
EXTENDS Integers, Sequences, FiniteSets, SequencesExt

CONSTANTS
    Onions,      \* relays a user can list
    Discovered,  \* relays a signed directory can list
    EpochSlots,  \* EPOCH_SECS
    SkewMargin,  \* SKEW_MARGIN_SECS
    RelayTtl,    \* RELAY_TTL
    MaxListed,   \* MAX_RELAYS
    DeadAfter,   \* DEAD_AFTER
    MaxSlots,    \* bound on the time
    EpochCases   \* the scenarios to try, see EpochCase

\* skews: how far the contact's clock may be off; partial: a take may leave
\* part of the mail behind; drops: a directory may drop a relay.
EpochCase == [skews : SUBSET Int, partial : BOOLEAN, drops : BOOLEAN,
              posts : Nat, edits : Nat, lists : Nat, fails : Nat, restarts : Nat]

ASSUME EpochsAssumption ==
    /\ {EpochSlots, RelayTtl, DeadAfter, MaxSlots, MaxListed} \subseteq Nat \ {0}
    /\ SkewMargin \in Nat /\ 2 * SkewMargin < EpochSlots
    /\ EpochSlots <= MaxSlots /\ EpochCases \subseteq EpochCase

\* RelayEntry, and the relays it stands for.
NightDrop == "nightdrop"
Primary == "primary"
Entries == {NightDrop} \cup Onions
RelayNames == {Primary} \cup Onions \cup Discovered

NoEpoch == -1
NoRoundYet == [jobs |-> {}, settles |-> NoEpoch, settleOk |-> FALSE,
               ok |-> {}, failed |-> [r \in RelayNames |-> 0], running |-> FALSE]

VARIABLES
    slot,        \* the time
    myList,      \* relays: our list, in order
    draining,    \* relays_draining: what left it, and until when it is polled
    myDir,       \* discovered_relays
    drained,     \* prev_epoch_drained
    round,       \* the drain round off the lock
    told,        \* the list the contact knows of
    peerDir,     \* the contact's discovered_relays
    mail,        \* what is queued for us on the relays
    epLeft       \* the case, what is left of it
epVars == <<slot, myList, draining, myDir, drained, round, told, peerDir, mail, epLeft>>

Mail == [id : Nat, relay : RelayNames, epoch : Int, posted : Nat, ours : BOOLEAN]

EpTypeOK ==
    /\ slot \in 0 .. MaxSlots
    /\ myList \in Seq(Entries) /\ Len(myList) <= MaxListed
    /\ draining \subseteq [entry : Entries, until : Nat]
    /\ myDir \subseteq Discovered /\ peerDir \subseteq Discovered
    /\ drained \in Int
    /\ round.jobs \subseteq RelayNames \X Int
    /\ told \in Seq(Entries)
    /\ mail \subseteq Mail

----------------------------------------------------------------------------
Today == slot \div EpochSlots
IntoDay == slot % EpochSlots

\* polled_epochs
PolledEpochs ==
    {Today}
    \cup {e \in {Today - 1} : Today > 0 /\ drained # e}
    \cup {e \in {Today + 1} : IntoDay >= EpochSlots - SkewMargin}

\* Mutant: yesterday is settled from midnight on.
SettlingAtMidnight == IF (Today - 1) \in PolledEpochs THEN Today - 1 ELSE NoEpoch

\* settling_epoch: the epoch a complete round that starts now retires.
SettlingEpoch ==
    IF IntoDay >= SkewMargin /\ (Today - 1) \in PolledEpochs THEN Today - 1 ELSE NoEpoch

\* expand_relay_set: Night Drop stands for the primary relay and the directory.
ExpandRelaySet(entries, dir) ==
    (entries \cap Onions) \cup (IF NightDrop \in entries THEN {Primary} \cup dir ELSE {})

\* polled_relay_set: our list, and what is still draining.
PolledRelays ==
    ExpandRelaySet(ToSet(myList) \cup {d.entry : d \in {x \in draining : x.until > slot}}, myDir)

\* normalize_relays: without duplicates, the first MaxListed; the rest is cut.
NormalizeRelays(l) ==
    LET first == {i \in DOMAIN l : \A j \in 1 .. (i - 1) : l[j] # l[i]}
        all == [k \in 1 .. Cardinality(first) |->
                   l[CHOOSE i \in first : Cardinality({j \in first : j <= i}) = k]]
    IN  [kept |-> SubSeq(all, 1, IF Len(all) < MaxListed THEN Len(all) ELSE MaxListed),
         overflow |-> ToSet(SubSeq(all, MaxListed + 1, Len(all)))]

----------------------------------------------------------------------------
\* set_relay_list_at: what leaves the list, or does not fit, drains for a TTL.
SetRelayList(l) ==
    LET n == NormalizeRelays(l)
        gone == (ToSet(myList) \ ToSet(n.kept)) \cup n.overflow
        until == slot + RelayTtl
        kept == {d \in draining : d.entry \notin gone}
    IN  /\ myList' = n.kept
        /\ draining' = {d \in kept \cup {[entry |-> g, until |-> until] : g \in gone} :
                            d.entry \notin ToSet(n.kept) /\ d.until > slot}

EditRelays ==
    /\ epLeft.edits > 0
    /\ \E l \in BoundedSeq(Entries, MaxListed + 1) : l # myList /\ SetRelayList(l)
    /\ epLeft' = [epLeft EXCEPT !.edits = @ - 1]
    /\ UNCHANGED <<slot, myDir, drained, round, told, peerDir, mail>>

\* The contact receives our RelaySet frame.
PeerIsTold ==
    /\ told # myList /\ told' = myList
    /\ UNCHANGED <<slot, myList, draining, myDir, drained, round, peerDir, mail, epLeft>>

\* adopt_directory, on our side or on the contact's: the new list replaces the
\* old one.
NewDirectory(old, new) == new # old /\ (epLeft.drops \/ old \subseteq new)
AdoptOurs ==
    /\ epLeft.lists > 0
    /\ \E d \in SUBSET Discovered : NewDirectory(myDir, d) /\ myDir' = d
    /\ epLeft' = [epLeft EXCEPT !.lists = @ - 1]
    /\ UNCHANGED <<slot, myList, draining, drained, round, told, peerDir, mail>>
AdoptTheirs ==
    /\ peerDir # myDir /\ peerDir' = myDir
    /\ UNCHANGED <<slot, myList, draining, myDir, drained, round, told, mail, epLeft>>

\* The contact posts one message to every relay of its route; one of them at
\* least takes it.  "ours" notes the copies a relay took while we listed it.
PeerPosts ==
    /\ epLeft.posts > 0
    /\ \E skew \in epLeft.skews,
          taken \in (SUBSET ExpandRelaySet(ToSet(told), peerDir)) \ {{}} :
          /\ slot + skew >= 0
          /\ mail' = mail \cup {[id |-> epLeft.posts, relay |-> r,
                                 epoch |-> (slot + skew) \div EpochSlots, posted |-> slot,
                                 ours |-> r \in ExpandRelaySet(ToSet(myList), myDir)] : r \in taken}
    /\ epLeft' = [epLeft EXCEPT !.posts = @ - 1]
    /\ UNCHANGED <<slot, myList, draining, myDir, drained, round, told, peerDir>>

\* Time passes; relays drop what is past its TTL.
Pass ==
    /\ slot < MaxSlots
    /\ slot' = slot + 1
    /\ mail' = {m \in mail : m.posted + RelayTtl > slot + 1}
    /\ UNCHANGED <<myList, draining, myDir, drained, round, told, peerDir, epLeft>>

----------------------------------------------------------------------------
\* relay_drain_plan_at: under the lock, every fragment of every relay.
StartDrain ==
    /\ ~round.running /\ PolledRelays # {}
    /\ round' = [NoRoundYet EXCEPT !.running = TRUE, !.jobs = PolledRelays \X PolledEpochs,
                     !.settles = SettlingEpoch, !.settleOk = SettlingEpoch # NoEpoch]
    /\ UNCHANGED <<slot, myList, draining, myDir, drained, told, peerDir, mail, epLeft>>

\* A relay that failed DeadAfter takes and answered none is skipped.
Dead(r) == r \notin round.ok /\ round.failed[r] >= DeadAfter

\* A job that was skipped or failed may have left mail behind.
Missed(rd, j) ==
    [rd EXCEPT !.jobs = @ \ {j}, !.settleOk = @ /\ j[2] # rd.settles]

SkipJob ==
    /\ \E j \in round.jobs : Dead(j[1]) /\ round' = Missed(round, j)
    /\ UNCHANGED <<slot, myList, draining, myDir, drained, told, peerDir, mail, epLeft>>

FailJob ==
    /\ epLeft.fails > 0
    /\ epLeft' = [epLeft EXCEPT !.fails = @ - 1]
    /\ \E j \in round.jobs :
          /\ ~Dead(j[1])
          /\ round' = [Missed(round, j) EXCEPT !.failed[j[1]] = @ + 1]
    /\ UNCHANGED <<slot, myList, draining, myDir, drained, told, peerDir, mail>>

\* take_many answers.  The answer holds all the mail, or only part: a relay
\* puts TAKE_BUDGET_BYTES into one answer, and take_each counts as answered
\* when one handle of the fragment was.
TakeJob ==
    /\ \E j \in round.jobs :
          LET there == {m \in mail : m.relay = j[1] /\ m.epoch = j[2]} IN
          /\ ~Dead(j[1])
          /\ \E got \in SUBSET there :
                /\ got = there \/ (epLeft.partial /\ got # {})
                /\ mail' = mail \ got
          /\ round' = [round EXCEPT !.jobs = @ \ {j}, !.ok = @ \cup {j[1]}]
    /\ UNCHANGED <<slot, myList, draining, myDir, drained, told, peerDir, epLeft>>

\* apply_relay_harvest: a complete round retires the epoch it settles.
ApplyHarvest ==
    /\ round.running /\ round.jobs = {}
    /\ drained' = IF round.settleOk THEN round.settles ELSE drained
    /\ round' = NoRoundYet
    /\ UNCHANGED <<slot, myList, draining, myDir, told, peerDir, mail, epLeft>>

\* The app restarts: prev_epoch_drained is not persisted, the relays are.
RestartDevice ==
    /\ epLeft.restarts > 0
    /\ drained' = NoEpoch /\ round' = NoRoundYet
    /\ epLeft' = [epLeft EXCEPT !.restarts = @ - 1]
    /\ UNCHANGED <<slot, myList, draining, myDir, told, peerDir, mail>>

----------------------------------------------------------------------------
EpInit ==
    /\ slot = EpochSlots /\ myList = <<NightDrop>> /\ told = <<NightDrop>>
    /\ draining = {} /\ myDir = {} /\ peerDir = {} /\ drained = NoEpoch
    /\ round = NoRoundYet /\ mail = {} /\ epLeft \in EpochCases

EpNext ==
    \/ EditRelays \/ PeerIsTold \/ AdoptOurs \/ AdoptTheirs \/ PeerPosts \/ Pass
    \/ StartDrain \/ SkipJob \/ FailJob \/ TakeJob \/ ApplyHarvest \/ RestartDevice

EpSpec == EpInit /\ [][EpNext]_epVars

----------------------------------------------------------------------------
\* Mail a relay took while it was on our list stays in a mailbox we poll, or
\* will poll, until it is taken or expires: a round that failed in part, a
\* list edited or a relay removed meanwhile, a restart, or a clock that is off
\* by the margin never leave mail in a mailbox nobody asks for.
QueuedIsPolled ==
    \A m \in mail :
        m.ours /\ m.epoch >= Today - 1 =>
            /\ m.relay \in PolledRelays
            /\ m.epoch \in PolledEpochs \/ m.epoch > Today

\* A retired epoch has nothing left that a relay still holds for us.
RetiredIsEmpty ==
    drained = Today - 1 => ~\E m \in mail : m.ours /\ m.epoch = drained

\* QueuedIsPolled and RetiredIsEmpty: no mail is left in a mailbox nobody asks for.
MailIsPolled == EpTypeOK /\ QueuedIsPolled /\ RetiredIsEmpty
=============================================================================
