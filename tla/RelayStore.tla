------------------------------ MODULE RelayStore ------------------------------
(***************************************************************************)
(* The relay's mailbox store: core/src/relay_client/mod.rs, the StoreInner *)
(* map behind its mutex, the requests `process` applies to it, the reaper, *)
(* and the persistence of the queue (`do_flush`, the background flusher,   *)
(* `load_store` after a restart).                                          *)
(*                                                                         *)
(* Data is abstracted: a blob is its size, a handle is a model value, and  *)
(* the random (msg_id, delete_token) pair of a post is the entry's id,     *)
(* which only the poster whose reply arrived can name in a recall.  Ids    *)
(* are handed out in increasing order, so a mailbox Vec<Stored> is a set   *)
(* of entries whose queue order is the order of their ids (posts push at   *)
(* the end, and every removal keeps the order of the rest).                *)
(***************************************************************************)
EXTENDS Integers, Sequences, FiniteSets, Tally

CONSTANTS
    Handles,            \* mailbox handles (valid_handle)
    Conns,              \* client connections, each served by its own thread
    Sizes, Ttls,        \* blob sizes and ttls clients ask for
    MaxBlobBytes, MaxMailboxBlobs, MaxMailboxBytes, MaxTotalBytes,
    SmallBlobBytes, SmallReserveBytes, EntryOverhead, MaxTtl,
    TakeBudgetBytes, MaxTakeMany,
    MaxPosts,           \* bound: posts accepted in a behaviour
    MaxTime,            \* bound: clock ticks
    MaxCrashes          \* bound: relay restarts

ASSUME LimitsAssumption ==
    /\ Sizes \subseteq Nat /\ Ttls \subseteq Nat
    /\ MaxBlobBytes \in Nat /\ MaxMailboxBlobs \in Nat /\ MaxMailboxBytes \in Nat
    /\ MaxTotalBytes \in Nat /\ SmallBlobBytes \in Nat /\ SmallReserveBytes \in Nat
    /\ EntryOverhead \in Nat \ {0}      \* a handle has at least one byte
    /\ MaxTtl \in Nat /\ TakeBudgetBytes \in Nat /\ MaxTakeMany \in Nat
    /\ MaxPosts \in Nat /\ MaxTime \in Nat /\ MaxCrashes \in Nat

ASSUME ConnsAssumption == {"flusher", "none"} \cap Conns = {}

VARIABLES
    map,            \* StoreInner.map: the entries of all mailboxes
    totalBytes,     \* StoreInner.total_bytes
    dirty,          \* StoreInner.dirty
    recentFlush,    \* last_flush is Some(t) with t.elapsed() < FLUSH_MIN_INTERVAL
    disk,           \* queue.json
    writer,         \* the `writer` mutex: its owner and the snapshot it writes
    conn,           \* per connection: the request being answered
    now,            \* time, monotonic and wall clock in step
    nextId,         \* the next post's id
    crashes,        \* restarts so far
    handed,         \* history: how many responses carried the blob of an id
    born,           \* history: when the blob of an id was posted
    acked,          \* history: ids whose post receipt reached the poster
    recalled        \* history: ids whose recall was answered Ok to the poster

store == <<map, totalBytes, dirty>>
flushing == <<recentFlush, disk, writer>>
history == <<handed, born, acked, recalled>>
vars == <<store, flushing, conn, now, nextId, crashes, history>>

Ids == 1..MaxPosts
Entry == [handle : Handles, id : Ids, size : Sizes, expiry : Nat]

\* Response, reduced to what a client acts on: a receipt, blobs, a confirmed
\* recall, an error of any kind, or an answer that changes nothing.
Kinds == {"none", "posted", "blobs", "recalled", "error", "info"}
Phases == {"idle", "flush", "writing", "reply"}
ConnState == [phase : Phases, kind : Kinds, ids : SUBSET Ids]
Idle == [phase |-> "idle", kind |-> "none", ids |-> {}]
NoWriter == [owner |-> "none", snap |-> {}]

-----------------------------------------------------------------------------
(* Helpers over sets of entries *)

SatSub(a, b) == IF a >= b THEN a - b ELSE 0
Size(S) == Total(S, [e \in S |-> e.size])
entry_cost(e) == e.size + EntryOverhead
Cost(S) == Total(S, [e \in S |-> entry_cost(e)])

Queue(h) == {e \in map : e.handle = h}
Live(S) == {e \in S : e.expiry > now}
IdsOf(S) == {e.id : e \in S}
Ahead(e, S) == {f \in S : f.id < e.id}

\* TakeBudget::admit for a queue drained from its head: the first blob of a
\* response always goes, another only if it fits the room that is left.
Admit(e, q, room, first) ==
    LET ahead == Ahead(e, Live(q))
    IN  \/ first /\ ahead = {}
        \/ e.size <= SatSub(room, Size(ahead))

\* The blobs of queue q that drain_handle_bounded returns.
Admitted(q, room, first) ==
    {e \in Live(q) : \A f \in Ahead(e, Live(q)) \cup {e} : Admit(f, q, room, first)}

\* Mutant: the queue is popped at its end.
DrainedNewest(q, room, first) ==
    {e \in q : \A f \in q : f.id > e.id => e.size + f.size <= room}

\* What it removes: those, and the expired entries met before the first refusal.
Drained(q, room, first) ==
    {e \in q : \A f \in Live(q) : f.id <= e.id => f \in Admitted(q, room, first)}

\* The budget left before each handle of one draining request.
Budget(hs) ==
    LET b[i \in 0..Len(hs)] ==
            IF i = 0
            THEN [room |-> TakeBudgetBytes, first |-> TRUE]
            ELSE LET prev == b[i - 1]
                     got  == Admitted(Queue(hs[i]), prev.room, prev.first)
                 IN  [room  |-> SatSub(prev.room, Size(got)),
                      first |-> prev.first /\ got = {}]
    IN  b

DrainedBy(hs) ==
    UNION {Drained(Queue(hs[i]), Budget(hs)[i - 1].room, Budget(hs)[i - 1].first) :
           i \in 1..Len(hs)}

-----------------------------------------------------------------------------
\* The type of every variable; ByteAccounting says more of totalBytes than a
\* type would.
TypeOK ==
    /\ map \in SUBSET Entry
    /\ dirty \in BOOLEAN
    /\ recentFlush \in BOOLEAN
    /\ disk \in SUBSET Entry
    /\ writer \in [owner : Conns \cup {"flusher", "none"}, snap : SUBSET Entry]
    /\ conn \in [Conns -> ConnState]
    /\ now \in Nat
    /\ nextId \in Nat \ {0}
    /\ crashes \in Nat
    /\ handed \in [Ids -> Nat]
    /\ born \in [Ids -> Nat]
    /\ acked \in SUBSET Ids
    /\ recalled \in SUBSET Ids

Init ==
    /\ map = {} /\ totalBytes = 0 /\ dirty = FALSE
    /\ recentFlush = FALSE /\ disk = {} /\ writer = NoWriter
    /\ conn = [c \in Conns |-> Idle]
    /\ now = 0 /\ nextId = 1 /\ crashes = 0
    /\ handed = [i \in Ids |-> 0] /\ born = [i \in Ids |-> 0]
    /\ acked = {} /\ recalled = {}

-----------------------------------------------------------------------------
(* Requests.  handle_line runs `process` under the store mutex, then        *)
(* do_flush, then sends the reply: a connection is busy until its reply has *)
(* left.                                                                    *)

Processed(c, kind, ids) ==
    /\ conn[c].phase = "idle"
    /\ conn' = [conn EXCEPT ![c] = [phase |-> "flush", kind |-> kind, ids |-> ids]]

\* Mutant: the reserve is checked against the blob alone, not the total after it.
RefusedByBlob(h, size) ==
    \/ size > MaxBlobBytes
    \/ totalBytes + size + EntryOverhead > MaxTotalBytes
    \/ size > SmallBlobBytes /\ size > SatSub(MaxTotalBytes, SmallReserveBytes)
    \/ Cardinality(Queue(h)) >= MaxMailboxBlobs
    \/ Size(Queue(h)) + size > MaxMailboxBytes

\* The limits of `process`, Request::Post, in the order they are checked.
Refused(h, size) ==
    LET after == totalBytes + size + EntryOverhead
    IN  \/ size > MaxBlobBytes
        \/ after > MaxTotalBytes
        \/ size > SmallBlobBytes /\ after > SatSub(MaxTotalBytes, SmallReserveBytes)
        \/ Cardinality(Queue(h)) >= MaxMailboxBlobs
        \/ Size(Queue(h)) + size > MaxMailboxBytes

\* Mutant: the ttl over the cap is subtracted (and underflows) instead of clamped.
ClampSubtracts(ttl) == MaxTtl - ttl

Clamp(ttl) == IF ttl <= MaxTtl THEN ttl ELSE MaxTtl

PostRefused(c, h, size) ==
    /\ Refused(h, size)
    /\ Processed(c, "error", {})
    /\ UNCHANGED <<store, flushing, now, nextId, crashes, history>>

\* Mutant: a full mailbox makes room by dropping its oldest blob.
PostEvicts(c, h, size, ttl) ==
    /\ nextId <= MaxPosts
    /\ Processed(c, "posted", {nextId})
    /\ LET e == [handle |-> h, id |-> nextId, size |-> size, expiry |-> now + Clamp(ttl)]
           out == IF Refused(h, size)
                  THEN {f \in Queue(h) : Ahead(f, Queue(h)) = {}} ELSE {}
       IN  /\ map' = (map \ out) \cup {e}
           /\ totalBytes' = totalBytes + entry_cost(e) - Cost(out)
    /\ dirty' = TRUE
    /\ nextId' = nextId + 1
    /\ born' = [born EXCEPT ![nextId] = now]
    /\ UNCHANGED <<flushing, now, crashes, handed, acked, recalled>>

Post(c, h, size, ttl) ==
    /\ nextId <= MaxPosts
    /\ ~ Refused(h, size)
    /\ Processed(c, "posted", {nextId})
    /\ LET e == [handle |-> h, id |-> nextId, size |-> size, expiry |-> now + Clamp(ttl)]
       IN  /\ map' = map \cup {e}
           /\ totalBytes' = totalBytes + entry_cost(e)
    /\ dirty' = TRUE
    /\ nextId' = nextId + 1
    /\ born' = [born EXCEPT ![nextId] = now]
    /\ UNCHANGED <<flushing, now, crashes, handed, acked, recalled>>

\* Peek counts the live blobs of a handle, GetDirectory serves the operator's
\* signed list: neither changes the store, but both run do_flush.
Peek(c) ==
    /\ Processed(c, "info", {})
    /\ UNCHANGED <<store, flushing, now, nextId, crashes, history>>

GetDirectory(c) ==
    /\ Processed(c, "info", {})
    /\ UNCHANGED <<store, flushing, now, nextId, crashes, history>>

\* Mutant: the expired entries dropped on the way are not given back.
RemoveLeaksExpired(S) ==
    /\ map' = map \ S
    /\ totalBytes' = totalBytes - Cost(Live(S))
    /\ dirty' = (dirty \/ S # {})

Remove(S) ==
    /\ map' = map \ S
    /\ totalBytes' = totalBytes - Cost(S)
    /\ dirty' = (dirty \/ S # {})

\* Mutant: a drain answers but only drops the expired entries.
DrainKeeps(c, hs) ==
    LET gone == DrainedBy(hs)
        out  == IdsOf(Live(gone))
    IN  /\ Processed(c, "blobs", out)
        /\ Remove(gone \ Live(gone))
        /\ handed' = [i \in Ids |-> handed[i] + (IF i \in out THEN 1 ELSE 0)]
        /\ UNCHANGED <<flushing, now, nextId, crashes, born, acked, recalled>>

Drain(c, hs) ==
    LET gone == DrainedBy(hs)
        out  == IdsOf(Live(gone))
    IN  /\ Processed(c, "blobs", out)
        /\ Remove(gone)
        /\ handed' = [i \in Ids |-> handed[i] + (IF i \in out THEN 1 ELSE 0)]
        /\ UNCHANGED <<flushing, now, nextId, crashes, born, acked, recalled>>

\* Request::Take and Request::Fetch drain one handle and differ in their reply only.
Take(c, h) == Drain(c, <<h>>)

\* Request::TakeMany: the client names every handle once.
TakeMany(c, hs) ==
    /\ Len(hs) <= MaxTakeMany
    /\ Drain(c, hs)

TakeManyRefused(c, hs) ==
    /\ Len(hs) > MaxTakeMany
    /\ Processed(c, "error", {})
    /\ UNCHANGED <<store, flushing, now, nextId, crashes, history>>

\* Request::Recall, by a poster that holds the receipt of `id`.
Recall(c, id) ==
    /\ id \in acked
    /\ LET hit == {e \in map : e.id = id}
       IN  /\ Processed(c, IF hit = {} THEN "error" ELSE "recalled", IdsOf(hit))
           /\ Remove(hit)
    /\ UNCHANGED <<flushing, now, nextId, crashes, history>>

\* A line that does not parse, or of another version, is answered without
\* touching the store and without a flush.
BadLine(c) ==
    /\ conn[c].phase = "idle"
    /\ conn' = [conn EXCEPT ![c] = [phase |-> "reply", kind |-> "error", ids |-> {}]]
    /\ UNCHANGED <<store, flushing, now, nextId, crashes, history>>

Reap ==
    /\ Live(map) # map
    /\ Remove(map \ Live(map))
    /\ UNCHANGED <<flushing, conn, now, nextId, crashes, history>>

-----------------------------------------------------------------------------
(* do_flush: the writer mutex, then a snapshot under the store mutex, then  *)
(* the write off it.                                                        *)

\* Nothing to write, or written too recently (respect_interval): coalesce.
FlushSkip(c) ==
    /\ conn[c].phase = "flush"
    /\ writer = NoWriter
    /\ ~ dirty \/ recentFlush
    /\ conn' = [conn EXCEPT ![c].phase = "reply"]
    /\ UNCHANGED <<store, flushing, now, nextId, crashes, history>>

Snapshot(owner) ==
    /\ writer = NoWriter
    /\ dirty
    /\ writer' = [owner |-> owner, snap |-> map]
    /\ dirty' = FALSE
    /\ recentFlush' = TRUE
    /\ UNCHANGED <<map, totalBytes, disk, now, nextId, crashes, history>>

FlushSnapshot(c) ==
    /\ conn[c].phase = "flush"
    /\ ~ recentFlush
    /\ Snapshot(c)
    /\ conn' = [conn EXCEPT ![c].phase = "writing"]

\* spawn_flusher: every interval, whatever the last flush.
FlusherSnapshot ==
    /\ Snapshot("flusher")
    /\ UNCHANGED conn

\* The writing thread gives the mutex back; a request goes on to its reply.
WriterDone ==
    /\ writer' = NoWriter
    /\ conn' = [c \in Conns |->
                  IF c = writer.owner THEN [conn[c] EXCEPT !.phase = "reply"] ELSE conn[c]]

\* Mutant: `dirty` is cleared when the write ends instead of at the snapshot.
WriteOkClears ==
    /\ writer # NoWriter
    /\ disk' = writer.snap
    /\ dirty' = FALSE
    /\ WriterDone
    /\ UNCHANGED <<map, totalBytes, recentFlush, now, nextId, crashes, history>>

\* write_store_bytes: tmp + fsync + rename, so the file is the old or the new one.
WriteOk ==
    /\ writer # NoWriter
    /\ disk' = writer.snap
    /\ WriterDone
    /\ UNCHANGED <<store, recentFlush, now, nextId, crashes, history>>

\* Mutant: a failed write is not retried.
WriteFailedForgets ==
    /\ writer # NoWriter
    /\ WriterDone
    /\ UNCHANGED <<store, recentFlush, disk, now, nextId, crashes, history>>

WriteFailed ==
    /\ writer # NoWriter
    /\ dirty' = TRUE
    /\ WriterDone
    /\ UNCHANGED <<map, totalBytes, recentFlush, disk, now, nextId, crashes, history>>

IntervalElapses ==
    /\ recentFlush
    /\ recentFlush' = FALSE
    /\ UNCHANGED <<store, disk, writer, conn, now, nextId, crashes, history>>

-----------------------------------------------------------------------------
(* The reply, the connection that breaks before it, and the relay's restart. *)

Reply(c) ==
    /\ conn[c].phase = "reply"
    /\ conn' = [conn EXCEPT ![c] = Idle]
    /\ acked' = IF conn[c].kind = "posted" THEN acked \cup conn[c].ids ELSE acked
    /\ recalled' = IF conn[c].kind = "recalled" THEN recalled \cup conn[c].ids ELSE recalled
    /\ UNCHANGED <<store, flushing, now, nextId, crashes, handed, born>>

\* The circuit dies while the reply is on its way: round_trip returns an error.
ReplyLost(c) ==
    /\ conn[c].phase = "reply"
    /\ conn' = [conn EXCEPT ![c] = Idle]
    /\ UNCHANGED <<store, flushing, now, nextId, crashes, history>>

\* Mutant: the reload gives every blob a fresh ttl.
CrashRestartRenews ==
    LET renewed == {[e EXCEPT !.expiry = now + MaxTtl] : e \in disk}
    IN  /\ crashes < MaxCrashes
        /\ crashes' = crashes + 1
        /\ map' = renewed
        /\ totalBytes' = Cost(renewed)
        /\ dirty' = FALSE
        /\ recentFlush' = FALSE
        /\ writer' = NoWriter
        /\ conn' = [c \in Conns |-> Idle]
        /\ UNCHANGED <<disk, now, nextId, history>>

\* The process dies and with_persistence loads the file again (load_store):
\* what expired meanwhile is dropped, the totals are recomputed.
CrashRestart ==
    /\ crashes < MaxCrashes
    /\ crashes' = crashes + 1
    /\ map' = Live(disk)
    /\ totalBytes' = Cost(Live(disk))
    /\ dirty' = FALSE
    /\ recentFlush' = FALSE
    /\ writer' = NoWriter
    /\ conn' = [c \in Conns |-> Idle]
    /\ UNCHANGED <<disk, now, nextId, history>>

Tick ==
    /\ now < MaxTime
    /\ now' = now + 1
    /\ UNCHANGED <<store, flushing, conn, nextId, crashes, history>>

-----------------------------------------------------------------------------
\* The lists of a TakeMany: one handle, or two different ones.
HandleLists == [1..1 -> Handles] \cup {hs \in [1..2 -> Handles] : hs[1] # hs[2]}

Request(c) ==
    \/ \E h \in Handles :
          \/ \E size \in Sizes :
                \/ PostRefused(c, h, size)
                \/ \E ttl \in Ttls : Post(c, h, size, ttl)
          \/ Take(c, h)
    \/ \E hs \in HandleLists : TakeMany(c, hs) \/ TakeManyRefused(c, hs)
    \/ \E id \in Ids : Recall(c, id)
    \/ Peek(c) \/ GetDirectory(c)
    \/ BadLine(c)

Next ==
    \/ \E c \in Conns :
          Request(c) \/ FlushSkip(c) \/ FlushSnapshot(c) \/ Reply(c) \/ ReplyLost(c)
    \/ Reap \/ FlusherSnapshot \/ WriteOk \/ WriteFailed \/ IntervalElapses
    \/ CrashRestart \/ Tick

Spec == Init /\ [][Next]_vars

\* The flusher thread never stops (a loop around a sleep), a write that has
\* begun ends, and a disk that is tried forever accepts a write now and then.
Fairness == WF_vars(FlusherSnapshot) /\ WF_vars(WriteOk \/ WriteFailed) /\ SF_vars(WriteOk)
FairSpec == Spec /\ Fairness
-----------------------------------------------------------------------------
(* Properties *)

\* The running total the cap is checked against is the cost of what is stored:
\* post, drain, recall, reap and reload all keep it exact (StoreInner.total_bytes),
\* so `total_bytes -= freed` never underflows and no space leaks.
ByteAccounting == totalBytes = Cost(map)

\* The RelayLimits over a queue: the total, each mailbox's depth and bytes,
\* and large blobs leave the reserve to small ones.
Fits(S) ==
    /\ Cost(S) <= MaxTotalBytes
    /\ Cost({e \in S : e.size > SmallBlobBytes}) <= SatSub(MaxTotalBytes, SmallReserveBytes)
    /\ \A h \in Handles : LET q == {e \in S : e.handle = h}
                         IN  Cardinality(q) <= MaxMailboxBlobs /\ Size(q) <= MaxMailboxBytes

\* The limits hold of what is stored, whatever interleaving of posts, drains,
\* reaps and restarts stored it (`process`, load_store).
WithinLimits == Fits(map)

\* What a restart would bring back.
Persisting == IF writer = NoWriter THEN disk ELSE writer.snap

\* A clean store is a durable one: when `dirty` is off, every live blob, and no
\* other live blob, is in the file or in the snapshot being written to it.  A
\* change made during the off-lock write of do_flush is therefore never taken
\* for a written one.
CleanMeansDurable == ~ dirty => Live(map) = Live(Persisting)

\* Limits are reject-new: live mail leaves the store only inside a response to
\* a drain, by an acknowledged recall, or with a restart, never because of
\* someone else's post or the reaper.
LiveMailLeavesProperly ==
    \A e \in Live(map) \ map' :
        \/ crashes' # crashes
        \/ handed'[e.id] = handed[e.id] + 1
        \/ \E c \in Conns : conn'[c].kind = "recalled" /\ e.id \in conn'[c].ids
NoEviction == [][LiveMailLeavesProperly]_vars

\* A blob goes out in at most one response between two restarts: a second copy
\* needs a crash that lost the flush of the first drain.
HandedOncePerBoot == \A i \in Ids : handed[i] <= 1 + crashes

\* The 24 h promise: no response carries a blob MaxTtl after its post, whatever
\* ttl was asked for and however often the relay restarted since.
HandedInTime == \A i \in Ids : handed'[i] # handed[i] => now < born[i] + MaxTtl
NeverHandedPastTtl == [][HandedInTime]_vars

\* The background flusher writes what the rate limiter deferred: a stored blob
\* reaches the file unless it leaves the store first.
EventuallyOnDisk ==
    \A i \in Ids : (i \in IdsOf(map)) ~> (i \in IdsOf(disk) \/ i \notin IdsOf(map))

\* The inductive strengthening behind HandedOncePerBoot and NeverHandedPastTtl:
\* ids are fresh and unique in each copy of the queue, a stored blob has been
\* handed out at most once per earlier boot, and no copy of a blob carries an
\* expiry later than its post plus MaxTtl.
Copies == {map, disk, writer.snap}
StoreInv ==
    /\ \A S \in Copies : \A e \in S : /\ e.id < nextId
                                     /\ e.expiry <= born[e.id] + MaxTtl
                                     /\ \A f \in S : e.id = f.id => e = f
    /\ \A i \in Ids : i >= nextId => handed[i] = 0
    /\ \A e \in map : handed[e.id] <= crashes

\* Behind WithinLimits: the file and the snapshot fit too, so that what a
\* restart loads fits (load_store checks no limit).
LimitsInv ==
    /\ \A S \in Copies : IsFiniteSet(S) /\ Fits(S)
    /\ ByteAccounting

\* The relay implements the mail drop of MailDrop: each mailbox is drained
\* oldest first and by one reader per boot, a message that is handed out takes
\* everything ahead of it along, and a restart brings back nothing but what was
\* in the file or in the snapshot being written (drain_handle_bounded, do_flush,
\* load_store).
Messages(S) == {[id |-> e.id, handle |-> e.handle] : e \in S}
Drop == INSTANCE MailDrop WITH
            queue <- Messages(map), kept <- Messages(disk \cup writer.snap),
            next <- nextId, given <- handed, boots <- crashes
ImplementsDrop == Drop!DropSpec
=============================================================================
