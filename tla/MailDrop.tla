------------------------------- MODULE MailDrop -------------------------------
(***************************************************************************)
(* What the relay promises its clients, without sizes, clocks, limits,     *)
(* connections or files: a set of mailboxes from which mail leaves oldest  *)
(* first, each message to one reader, with a copy on the side (`kept`) that *)
(* may be out of date and that replaces the mailboxes in a restart.        *)
(* RelayStore implements it (RelayStore!ImplementsDrop).                   *)
(***************************************************************************)
EXTENDS Naturals

CONSTANTS Handles, Ids

VARIABLES
    queue,      \* the messages waiting: [id, handle]
    kept,       \* the messages a restart may bring back
    next,       \* the id of the next message
    given,      \* how often the message of an id was given to a reader
    boots       \* restarts so far

dropVars == <<queue, kept, next, given, boots>>

DropInit ==
    /\ queue = {} /\ kept = {}
    /\ next = 1
    /\ given = [i \in Ids |-> 0]
    /\ boots = 0

\* A message joins the end of one mailbox.
Deposit ==
    /\ \E h \in Handles : queue' = queue \cup {[id |-> next, handle |-> h]}
    /\ next' = next + 1
    /\ UNCHANGED <<kept, given, boots>>

\* A reader is given the messages `out` and those of `gone` leave: whatever was
\* ahead of a message given out has left its mailbox as well.
Hand ==
    \E gone \in SUBSET queue : \E out \in SUBSET gone :
        /\ \A m \in out : \A n \in queue :
              n.handle = m.handle /\ n.id <= m.id => n \in gone
        /\ queue' = queue \ gone
        /\ given' = [i \in Ids |-> given[i] + (IF \E m \in out : m.id = i THEN 1 ELSE 0)]
        /\ UNCHANGED <<kept, next, boots>>

\* Messages leave without a reader: a recall, or their time is over.
Withdraw ==
    /\ queue' \subseteq queue
    /\ UNCHANGED <<kept, next, given, boots>>

\* The side copy takes in what is queued and drops what it likes.
Keep ==
    /\ kept' \subseteq queue \cup kept
    /\ UNCHANGED <<queue, next, given, boots>>

\* A restart brings back what the side copy has, and nothing else.
Restart ==
    /\ kept' \subseteq kept
    /\ queue' \subseteq kept
    /\ boots' = boots + 1
    /\ UNCHANGED <<next, given>>

DropNext == Deposit \/ Hand \/ Withdraw \/ Keep \/ Restart
DropSpec == DropInit /\ [][DropNext]_dropVars
=============================================================================
