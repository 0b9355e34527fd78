# Nightdrop: a TLA+ verification project

Nightdrop is a peer-to-peer messenger over onion services. Messages go straight
to the other device when it answers and through small, untrusted mailbox relays
when it does not. The Rust core (`src/core`) holds all of the logic; the Flutter
app calls it through `core/src/api.rs`, and `src/relay` wraps the relay store of
`core/src/relay_client/mod.rs` in a server. This project models the parts whose
correctness depends on interleavings, failures and restarts, checks them with
TLC, and proves the central results with TLAPS.

Paths below are relative to `src/`.

## 1. Inventory

### Relay store (`core/src/relay_client/mod.rs`)
*State:* mailboxes (handle to queue of blobs with cost, id, delete token and
expiry), a byte total, a dirty flag and the time of the last flush, all under one
lock; one file; a writer lock for the file.
*Operations:* post, fetch/take, take_many, peek, recall, get_directory, the
reaper, a flush by each request thread and by a background flusher, loading the
file at start.
*Hard:* the write happens without the store lock while posts go on; flushes are
coalesced; drains are destructive and their answer can be lost; limits reject
new mail and must never push out stored mail; expiry is compared in three
places.
*Correct when:* the byte total is exact, limits hold, live mail is never
evicted, a clean store survives a restart, a blob leaves in one answer only and
never past its ttl, and a coalesced flush reaches the disk eventually.

### Delivery (`core/src/node.rs`, `node/messaging.rs`, `node/frames.rs`, `api.rs`)
*State of a sender:* the history with its badges, `pending_sends`, `held`,
`awaiting_receipt`, `relay_receipts`, the outbox, the ratchet; on disk the
history, `held`, `relay_receipts` and the ratchet only.
*State of a receiver:* the history, spent ratchet keys, sealed receipts not yet
sent; on disk the first two.
*Operations:* `send_message`, `edit_message`, `unsend_message`; the poller's
plan, execute, tick; the outbox round; the held-queue flush and the receipt
sweep; on the other end pump, mailbox drain, harvest, save, receipts.
*Hard:* three kinds of threads work around one lock and all network rounds run
without it, so each outcome is applied to a node that has moved on; a message
passes through six queues; copies of it travel by two routes in any order;
recalls succeed in part; both ends may die between any two steps.
*Correct when:* a message is never mislaid, what was withdrawn is not shown, an
unsend leaves a tombstone on both sides and it stays, a "delivered" badge is
true, and a message arrives; the receiver's edit window and daily allowance are
the only exceptions, and each is named where it applies.

### The other parts
| part | state and operations | what is hard | correct when |
|---|---|---|---|
| Mailbox agreement (`node/mailbox.rs`) | contributions, confirmations; announce, reply, restart, restore | restores, crossing frames, lost sends | the ends never both take different secrets for agreed, and agree in the end unless a last frame goes unheard |
| Mailbox epochs and relay sets (`node/mailbox.rs`, `node.rs`) | handles per day, settled epoch, own, peer and draining relays | clock skew, failed rounds, lists edited while mail is queued | queued mail is in a mailbox that is polled; a retired one is empty |
| Pairing (`node/pairing.rs`, `node/frames.rs`, `node/messaging.rs`) | invites, sessions, approvals, onion access keys, relay sets told and in flight, contact cap | frames in any order, re-pairing and list edits while an announcement is out, deletion meanwhile | a chat opens by consent, its ends can talk, no access lingers |
| Short codes (`node/pairing.rs`, `node.rs`) | hosted invite, openers, answers | service without the lock, kills, replays | few guesses per code; the right joiner gets in |
| Control frames and announcements (`node.rs`, `node/nearby.rs`) | `pending_control`, told values, in-flight flags, versions | values that change while a frame is out, older releases, kills | told means heard; every setting and notice arrives |
| Retention (`node/messaging.rs`, `node/limits.rs`) | burn timers, disappearing timer, server storage, allowance | views, sweeps, reboots and setting changes crossing | content goes on time, the rest stays |
| Attachments (`node/frames.rs`, `media_scrub.rs`, `media_kind.rs`) | sealed files, open copies, transfers | copies on two routes, kills between file and state | files go with their messages, recording details do not leave |
| Lifecycle (`lifecycle.rs`, `api.rs`) | stop and exit flags, jobs, lock, saves, next core | a stop landing between any two steps | nothing drained is lost, shutdown ends |
| Inbound frames (`transport/inbound.rs`) | shared byte budget, queue | compare-and-swap races, stalled peers | the count is exact and bounded; nobody waits for ever |
| Outbound paths (`transport/tor.rs`, `transport/nearby.rs`) | warm streams, local attempts and back-off | streams dying under other threads | a fresh send rides a fresh stream; one failed local try is enough |
| Onion key (`api.rs`) | sealed key, arti's keystore, backups | kills between files | the address stays with its identity |
| Bridges and their fetch (`api.rs`, `webtunnel/`, `moat/`) | saved lines, listener secret, name position; fronts and attempts | restarts, concurrent dials, lost answers | saved bridges start; the fetch ends |
| App lock (`storage/lock.rs`) | two slots, keystore copy, attempts | kills between files, clock changes | the store key is reachable; guesses are paced |
| Keys, directory, updates (`keyroll.rs`, `directory.rs`, `update.rs`) | trusted key, list version, part files | replays, leaked old keys, overlapping calls | no rollback; the offered file is one build |
| Backup (`node/backup.rs`, `api.rs`) | exports, server copy | failed restores, old exports | a merge only adds; the server copy is kept |
| Watchdog, streams (`relay/src/main.rs`, `stats.rs`) | a clock per signal, escalation; slots, line bytes, counters | vetoes; ways out of a task | a mendable outage is mended, another is left alone; no leak |

Components that stay outside, and why, are in section 7 and in `PROJECT.json`.

*Interactions.* The UI calls the core under its lock; the poller plans under the
lock, dials without it, and applies under it; the outbox round and the mailbox
drain are threads of their own whose results the poller collects; relays are
reached by request and answer, either of which may be lost; the two cores meet
only through frames and relay blobs.

## 2. Modules

### RelayStore
`map`, `totalBytes`, `dirty`, `recentFlush` are `StoreInner`; `disk` is the file;
`writer` the flush in progress; `conn[c]` the state of a request thread. One
action per request of `process`, with its refusal where the code has one; then
`FlushSkip`/`FlushSnapshot`, `WriteOk`/`WriteFailed` and `Reply` follow, in the
order `handle_line` calls them. `Reap`, `FlusherSnapshot`, `IntervalElapses` and
`CrashRestart` are the background threads and the operating system.
Assumptions: the clock that stamps expiries in the file and the monotonic one
run in step; persistence is configured; a delete token is the id of its blob
(tokens are random and never guessed); a blob is its size.

### Delivery
One conversation. `a` is the sender's `Node` (field for field), `aDisk` what
`export` wrote, `planned`/`outcomes` the poller's `SendPlan`/`SendOutcomes`,
`round` the outbox round, `calls` the API calls between their three steps; `b`,
`bDisk`, `drained`, `applying`, `owed` the receiver; `wire`, `mailbox`, `acks`
the network. An action is one section under the core lock, or one network round
without it. `full` is the receiver's used-up allowance and `closed` the messages past
its edit window; both change at any moment. `TickNode` applies the parts of `apply_tick` in the order of the
code: pumped receipts, harvested receipts, send outcomes, held queue, receipt
sweep. `ProcessFrame` is the Message, Edit and Unsend handling of
`process_frame`: over the allowance a message is receipted and dropped, past the edit
window an Edit or Unsend is opened and ignored. `retired`, `refused`, `early`,
`dropped` and `late` are history variables: the last two have the messages the
allowance dropped and those whose Unsend came past the window, and `retired`
has the texts taken back before anyone had them (the last copy recalled while every
one was, a held copy sealed again, an unsend that leaves no tombstone).

Abstractions:
- text messages only, in an open, authorised chat with a current peer; the sender's
  own edit window, past which its calls refuse, is a user who asks no more; display
  order of different messages is left out;
- the allowance is used up by what else the contact sends (`AllowanceFills`) and
  starts afresh with a day or a restart, since the count is not saved;
- a frame is its kind, message, text version and ratchet key; a spent key opens
  nothing, which also stands for the hash of recently seen frames;
- the wire is a set: frames travel on different streams and may be read in any
  order. A mailbox is a sequence;
- backoff clocks and the 30 s receipt timeout are choices (`may_retry`,
  `timed`); the 24 h expiry of relays and badges does not happen;
- receipts travel as `acks`: they arrive by connection or relay, in any order,
  or are lost; that a receipt is itself a sealed frame is left out;
- saves succeed. A debounced save may or may not have happened at a restart; in
  runs without restarts the choice is not tracked, since nothing reads the file.

### MailDrop
What the relay promises, without sizes, clocks, limits, connections or files:
mail leaves a mailbox oldest first, each message to one reader, and a restart
brings back what a side copy has, which may be out of date. `RelayStore!Drop`
instantiates it: the queue is the store without sizes and expiries, the side copy
is the file together with the write in progress. A coalesced recall that a
restart undoes is a behaviour of MailDrop too: the side copy may be older than
the answer.

### The other modules
Each models one part, with its own names for its variables, so that several can
be composed in one run.

| module | models | state | actions |
|---|---|---|---|
| `Pairing` | joining an invite, Hello, approval, deletion, re-pairing, relay-set announcements | chats, sessions, access keys, relay lists and announcements in flight per device; frames in flight | one per API call and per frame kind; an announcement that lands or fails |
| `Rendezvous` | short codes | hosted invite, mailboxes, joiners | the poller's plan, take, answer, apply; the joiner's loop |
| `Mailbox` | the agreement of a pair's mailbox secret | contributions and confirmations per side, saved copies | announce, deliver, read, restart, back up, restore |
| `Epochs` | relays and days that are polled | own and told lists, mail, a drain round | list edits, directories, posts on a skewed clock, the drain in its steps |
| `Announce` | settings announced until heard | settings, told values, flags, outbox | setting changes, ticks, rounds, relaunch, the contact's side |
| `Control` | notices, one-off frames, address changes | `pending_control`, ratchet, saved node | taps, ticks, rounds, kills, the contact's answers |
| `Versions` | contacts on two releases | what each takes the other for, held frames | ticks, sends, updates |
| `Retention` | burns, disappearing, server storage, allowance | histories, timers, frames | sends, views, setting changes, both sweeps, kills |
| `Media`, `Scrub` | attachments; removal of recording details | files, open copies; a container as its elements | send, receive, open, remove, kill; scrub, check, forward |
| `Lifecycle` | cores over one state file | per core the poller, jobs, shutdown; disk | the poller's steps, jobs, shutdown's steps, launch |
| `Inbound`, `Paths` | frames in; frames out | readers, budget, queue; sends, streams, back-off | the steps of a reader; of a send |
| `OnionKey` | the address a core comes up on | sealed key, keystore, state, backup | starts and restores in their file writes, wipes |
| `Bridges`, `BridgeFetch` | bridge settings and tunnels; the moat fetch | saved lines, secrets, dials; a round trip and its fronts | save, start, dial; tries and the deadline |
| `AppLock` | both secrets and the attempt counter | lock file, keystore, attempts, clock | each file write of each call, kills, clock changes |
| `KeyRoll`, `Directory`, `Update` | key rotation; the relay list; updates | trusted key, version, schedule; part files | fetch and adopt; check and download in their steps |
| `Backup` | exports, merges, the server copy | device, exports, server slot | create, merge, restore, fail |
| `Watchdog`, `Streams` | the relay's watchdog; its streams and counters | clocks, escalation; tasks, slots, bytes | a cycle, a restart, a fault; admit, read, end, report |

Many of these take a set of *cases* as a constant (`PairCases`, `RetCases`,
`CtlCases`, ...): a case names who acts and how many faults of which kind a
behaviour may meet. `Init` picks one. This keeps each behaviour small while the
run covers all the combinations listed in its MC module.

Some abstractions of these modules a reader should know:
- Pairing retries Approved and CodeInUse until they land, like the Hello and the Closed.
  The code holds them for a contact without a relay route (`apply_outbound`) and otherwise
  tries them once, the peer and then the relays: that such a try fails is left out;
- AppLock has the calls of `set_duress` and `clear_duress` that know the passphrase. The
  refusal of a wrong one is neither counted nor paced in `lock.rs` (276, 309); the app's
  settings ask `is_normal_secret`, which is both, before they call;
- Backup merges any export into the live device, chat by chat. At the contact cap the
  chats before the one too many stay in memory, and no attachment is written. Chats are of
  contacts paired once: what a contact remembers of a chat deleted here and paired again
  is left out.

### Composite MC modules
`MCParts`, `MCContact` and `MCDevice` each EXTEND several modules that share no
state in the code either. A variable `focus` picks at the start which part a
behaviour is about, and the others stay at one initial state. The run's states
are the sum, not the product, of its parts, and a property such as
`PairingHolds` is the conjunction of the part's type invariant and its named
properties. Fairness is that of the part in focus.

### Tally
`Total(S, w)`, the sum of weights over a finite set, as the cardinality of a set of
units, and `TotalOf(q)` for a sequence. The byte counts of RelayStore, Inbound and
Streams, the paces of AppLock and the arrivals of Retention are stated with it, because
a sum in this form can be reasoned about for every finite set.

### Proof modules, and those of TLC
`RelayStoreProofs` and `DeliveryProofs` are about the module of their name, and
`RecallProofs` goes on from `DeliveryProofs`;
`KeptProofs` about what a device keeps: Directory with KeyRoll, Bridges, Backup,
Media and Update; `DeviceProofs` about Lifecycle, Watchdog, Inbound and Retention; `PartsProofs` about AppLock, Paths, OnionKey, Streams and Pairing;
`ContactProofs` about Mailbox, Epochs, Rendezvous and Control; `TallyProofs` has the lemmas
about sums. Section 5 says what they show. The safety properties of a part are
defined in its own module, so the runs and the theorems state the same formula; the
MC modules add the sum over parts (`ContactHears`, `DeviceTypeOK`), the bounds and
the symmetry sets TLC needs.

## 3. Runs

| run | bounds | shows |
|---|---|---|
| `relay_limits` | two handles at their limits | `ByteAccounting`, `WithinLimits`, `NoEviction` |
| `relay_flush` | one request thread and the flusher, failing writes, two restarts | `TypeOK`, `CleanMeansDurable`, `HandedOncePerBoot`, `NeverHandedPastTtl`, the refinement `ImplementsDrop`, and `EventuallyOnDisk` |
| `delivery_recall` | one message, two relays, one edit and an unsend, one failed post, failed recall, lost receipt, closed edit window or used-up allowance | `TypeOK`, `RetiredNeverShown`, `UnsendConverges` |
| `delivery_restart` | one message, server copies on, every kind of failure, the edit window and the allowance, two of them | `ReceiptMeansDurable`, `TombstoneFinal` |
| `delivery_live` | two relays, two lost frames, posts or receipts or a used-up allowance; fair pollers | `NeverAbandoned`, `Arrives` |
| `parts` | the nine parts below | see below |
| `contact` | six parts with losses, kills, older releases; fair pollers | see below |
| `device` | five loops, the relay's streams and the app's; fair threads and timers | see below |

`parts`: `PairingHolds` (two devices either way round, or three with a cap of
one contact; deletion, verification, expiry; a relay list edited once and an
announcement that fails), `MailIsPolled` (a day of five
slots, a margin of two, clocks off by up to the margin, two failed rounds and a
restart, an edited list, a directory), `LockHolds` (three secrets, three tiers of
waits, a kill, the clock set back), `OnionHolds` (three identities, five starts,
every kind of restore and leftover), `UpdateHolds` (two downloads at once, two
releases, a rotation), `AttachmentsHold`, `SentHolds` (every
container of up to three elements), `BackupHolds` (two contacts at a cap of
one, two exports, a lost phone), `BridgesHold`
(three starts, two dials, three names).

`contact`: `ContactHears`, `ControlHolds` and `SettingsReachContacts` (each announced
setting, with two edits or a lost send, a relaunch, a contact still joining or on an
older build; notices, one-off frames and a moved address with failed sends and
a kill), `MailboxHolds` and `PairComesToTerms` (four contributions, a lost send with a
restart or a restore, after which the pair agrees in the end or one side is `Unheard`,
as section 4 says; two apps that update in any order with frames overtaking
each other; two rendezvous relays, two failures, a kill of the inviter),
`InvitesHold` (two guesses against a cap of one), `DeletionHolds` (burn messages, a
timer changed four times, server storage, lost frames, a reboot).

`device`: `MessagesSurviveShutdown` (two cores in a row, a message and a control
frame on the relays, a stop at any point), `InboundHolds` (three connections,
two sizes, one of them above the budget), `RestartsAreJustified` (every fault,
darkness of three cycles, a reset after two restarts), `ListsMoveForward` (two
list versions, a rotation whose old key leaks, a kill), `LoopsComeThrough`
(directory, shutdown, watchdog, readers, bridge fetch), `DeviceTypeOK` (those five),
`StreamsHold` (two streams of the relay at caps of one and two), `PathsHold` (two
threads, two outgoing streams).

Why the bounds are enough to be interesting: `MaxSeal` lets a message be sealed,
swept and re-sealed, and edited or unsent in one behaviour; two relays are
needed for a recall that succeeds in part; two failures let a direct copy be
lost and its relay copy be refused; two messages are needed for the
head-of-line rule of the held queue without relays. `MaxCalls` bounds the API
calls in progress at once to one. Two restarts are needed in `relay_flush` for a
file written after a first restart; one request thread is enough there, because a
request and the flusher already race, and the theorems are for any number; its list limit
of 0 is there to have a TakeMany refused, `relay_limits` has those that pass. In the
composite runs each part has the smallest numbers at which its mutants are
caught: two of whatever competes, one more fault than a single retry mends.
Deadlock checking is off in the delivery runs and the composite ones because a
conversation or a part with nothing left to do really stops; the relay runs check
it, as a server always has a request it can take.

Fairness (`FairSpec`): both pollers loop for ever (`spawn_poller`), so ticks,
rounds, drains and receipts happen; the retry and receipt clocks run out, which
is the due tick; a call in progress returns. Nothing is assumed of the user or
of the network beyond the bound on failures: each dial may come out either way.

In `relay_flush` the background flusher runs, a write ends, and a write that is
tried again and again succeeds some day. In `contact` both pollers tick, run
their rounds and read what arrived; the app reports its settings at launch, and a
contact on an old release updates some day (`Versions`, `Control`), without which
nothing can reach it. In `device` threads run, every job ends (a request is
answered, times out or is dropped by the closing transport), the relay's cycle is
a timer and systemd restarts it. Strong fairness is used for two timers only
(`GiveUpWaiting` of a reader, `Deadline` of the fetch): they run while other steps
enable and disable the action. Users owe nothing.

## 4. What the runs found

Each of these is a run that TLC ends with a counterexample, and a finding in
`PROJECT.json` with the sentence of the documentation it contradicts.

- `delivery_overtake`: an unsend of a message the poller is still sending
  arrives first, is ignored, and the message is shown.
- `delivery_abandon`: an edit recalls the relay copy put behind a lost direct
  copy and sends only an Edit frame, which the receiver ignores.
- `pairing_crossed`: two devices that join each other's invites before either
  Hello lands each adopt the session of the other's Hello, and hold two different
  sessions for good.
- `announce_block`: "Block screenshots" is changed twice while its first announcement is
  queued and the last send fails. The first one's delivery counts as told, for its
  value is the current one again, and the contact keeps the value in between.

`contact` has `ToldIsHeard` in the cases without this one: `block` with one edit or with
no failing send.

Outside the failures the passing runs allow, the models also show behaviours that
are no property of a run. They are recorded as hazards with a note:
- a sender restart before the first attempt, or a take whose answer is lost,
  breaks `NeverAbandoned` (the comments at `node.rs:1083` and `node.rs:260` say
  otherwise); a post whose answer is lost, or a kill of the sender before it saved the
  receipts of a post, leaves a copy no recall names and breaks `RetiredNeverShown`; an Edit or
  Unsend written to a connection nobody reads is not sent again (only messages wait
  for a receipt), which breaks `UnsendConverges`;
- a relay set that waits on a relay and is read after the newer one that went directly
  leaves the contact posting to the older set while it is taken to hold the newer, which
  breaks `ToldIsHeard`; so does a kill before the delivery of a set is recorded, followed
  by a change back. `contact` has `relayset` in order and without a relaunch;
- an edit whose re-post fails after its recall leaves the message in no queue (the
  user gets the error); two edits may be applied in the other order, since an Edit
  frame has no version;
- `apply_tick` reads receipts before it records the outcome of the send that
  provoked them, and writes the badge back from delivered to queued;
- a recall confirmed by the relay is undone by a restart before the coalesced
  flush.

Five are named by the properties themselves, as the only exceptions to what they say:
- a message over the daily allowance is receipted, so that the sender does not re-queue
  it for ever, and dropped (`frames.rs:244`): its badge says delivered and no device has
  it (`dropped` in `ReceiptMeansDurable`);
- an Unsend that reaches the receiver more than `EDIT_WINDOW` after the message did is
  ignored (`frames.rs:438`), so the tombstone is on the sender's side only, while
  `ARCHITECTURE.md:1380` has both sides replace it (`late` in `UnsendConverges`);
- a joiner may never hear that it was accepted: the RelaySet of its session is not sent
  while one of an earlier session is in flight (`messaging.rs:2009`), and when that one
  lands the set counts as told (`node.rs:2709`). It keeps presenting the invite's pass,
  which the host's onion no longer admits (`LeftOnPass`);
- a RelaySet sent for an edited list takes the own key that waits, which may be that of an
  earlier join (`frames.rs:916`; the comment above it reads any RelaySet as the
  acceptance), so a joiner presents a key the host does not have (`TookOldKey`);
- a mailbox secret may stay agreed on one side only: `confirm_sent` is set when the
  confirming reply is queued (`mailbox.rs:540`). If that reply is lost and its sender was
  confirmed already, it announces nothing more (486) and answers no frame that carries a
  confirmation (621), and the other side stays unconfirmed through every restart,
  although `mailbox.rs:473` calls the announcement the heal for a lost frame (`Unheard`).

Some modules have a flag for a failure that the code does not handle and that the
run leaves out, so that a reader can turn it on:
- `SlowPoller` (Lifecycle): the poller outlasts the bounded wait of shutdown, and
  two cores work on one file, as the code's own diagnostic says;
- `DisableKill` (AppLock): a kill between removing the lock file and writing the
  keystore leaves the store key in no file;
- `partial` (Epochs): `take_each` counts a round as done when one of several
  mailboxes answered; `drops`: a directory that drops a relay with mail on it;
- `InOrder` (Media) is on: a pre-signal and its payload that take different routes
  may be read in the other order;
- `Unwalkable` (Scrub): files whose walk stops early; behind an element whose size
  runs past the file, recording details of some lists are sent;
- `HasTransports` (Bridges): an external program for obfs4 lines;
- `"repost"`, `"late"` in `BackupFaults` (Backup): putting the server copy back
  fails too, or nearby is switched after an export;
- kills of the inviter among guesses (Rendezvous): the count of openers is saved
  after the answers are posted, so a kill in between gives guesses back;
- `leaves` in `OnionCases`: a wipe that leaves arti's keystore behind, followed by a
  restore that takes no key, adopts the address found there;
- `returning` in `PairCases`: a contact whose chat was closed asks again, and the request
  is refused because another chat uses its code. `authorize` then drops the chat but leaves
  the former contact's onion access, which a decline takes away (`node.rs:1759` says why a
  request that is turned away must not keep it), so `NoLingeringAccess` does not hold. It
  takes a cap of two contacts, three devices and three invites;
- `restores` in `MailboxFaults`, set to two: each side is restored once, from backups
  of different ages. A backup keeps the peer's confirmation, so both pairs may end up
  confirmed with different secrets, no frame of the agreement is due any more, and each
  side posts mail where the other does not poll (`mailbox.rs:20` says otherwise).

## 5. Proofs

Assumptions are on constants only: their types (`LimitsAssumption`,
`DeliveryAssumption`, `DirectoryAssumption`, `UpdateAssumption`,
`LifecycleAssumption`, `RendezvousAssumption`, `MailboxAssumption`,
`PairingAssumption`, which also has finitely many devices), finite sets of
connections and threads (`InboundAssumption`, `PathsAssumption`), a first tier of
waits of 0 s (`AppLockAssumption`, as in `wait_after`), a positive darkness
threshold (`WatchdogAssumption`), a relay TTL and a daily allowance of at least one
(`RetentionAssumption`, with the types of the cases), the kinds of attachment
(`MediaAssumption`), the
types of `BridgesAssumption` and `BackupAssumption`, a day longer than twice the clock margin
(`EpochsAssumption`), and room for the two identities and addresses a
backup may start with (`OnionKeyAssumption`). TLC evaluates them on every run of
their modules. Twelve theorems have a hypothesis besides, each a case the code does not
handle and section 4 names: `SlowPoller = FALSE`, `~ DisableKill`, `CleanKeystore`
(a wipe that leaves arti's keystore, followed by a restore without a key, adopts it),
`KillsAreRare`, `OneRestore`, `HonestPeers` (clocks within the
margin, whole answers, a directory that drops no relay), `OrderlyPairs` (no `crossing`
joins and no `returning` contact refused), `PlainFaults` (neither `"repost"` nor `"late"` in
`BackupFaults`), `InOrder`, `NoFrameLost`
(no failure that takes a frame once it is out, and no restart), `MailSafe` (what leaves
a relay is processed or recalled, neither end dies, and where there are relays no message
is edited: frames and receipts may be lost, posts and recalls may fail) and `RecallSafe`
(the sender learns of every copy: no relay stores one whose answer is lost, and the
sender's app is not killed between a post and the save of its receipts; everything else
may fail, the receiver die). The runs
instantiate the constants so that they hold.

**RelayStoreProofs**, for any handles, threads, sizes, ttls and limits.
`TypeCorrect`; `Durability` (`CleanMeansDurable`); `OncePerBoot`
(`HandedOncePerBoot`); `TtlRespected` (`NeverHandedPastTtl`); `NothingEvicted`
(`NoEviction`). `CleanMeansDurable` is not inductive: during the off-lock write
the flag is off and the file is old. `StoreInv` adds what the write in progress
will leave on disk, that ids are never reused, and the age of every stored,
written and handed blob; it is proved only, its parts that matter are in the runs.

`AccountingExact` (`ByteAccounting`) and `LimitsKept` (`WithinLimits`): the running
total is the cost of what is stored, and no mailbox or store outgrows its limit, in
memory, on disk and in the snapshot being written. `LimitsInv` carries both to every
copy a restart may bring back; each way out of the store is one lemma on sums from
`TallyProofs` (`Total` of a difference, and of a renaming: entries are reloaded with
new ids).

`Refinement` (`ImplementsDrop`): RelayStore implements MailDrop. The initial states
map to each other, and `DropStep` takes the relay's actions one by one: a post is a
`Deposit`, a drain a `Hand`, a recall and the reaper a `Withdraw`, a snapshot or a
write a `Keep`, a crash a `Restart`, everything else a stutter. The step that needs
thought is the drain: `DrainedIsPrefix` shows from `Admitted` and the byte budget
that what is handed out of a mailbox is a prefix of it in id order, with what had
expired dropped on the way, and `RemoveWithdraws` that nothing else leaves. The
proof uses `StoreInv` for ids that are not reused.

**DeliveryProofs**, for any messages, relays, failures and bounds.
`DeliveredIsDurable` (`ReceiptMeansDurable`) and `TombstonesStay`
(`TombstoneFinal`). The badge is the last link of a chain: tick, save, receipt,
badge, the sender's own save. `DurableInv` names each link: a receipt on its way
and a badge on the sender's disk refer to messages on the receiver's disk or dropped
over the allowance (the only ones receipted and not kept); a
receipt still owed refers to one in its memory; memory is ahead of the disk only
while a tick is part-way through its blobs. Lemmas say which helpers can mark a
message (`ReceiptedMarks`) and which cannot (`OutcomesMarkNothing`,
`HeldMarksNothing`, `UnconfirmedMarksNothing`), and that `ProcessFrame` only
moves the receiver forward (`ProcessFrameAhead`).

`DeliveryTyped` (`TypeOK`): no seal, text version or failure count leaves its range,
and every queue holds well-formed frames of known messages. The record of the sender
is taken apart field by field: one lemma per helper of `apply_tick` says which fields
it writes and with what.

`UnsendsConverge` (`UnsendConverges`), for every moment the receiver's window and
allowance may run out at. `UnsendInv` follows the Unsend frame of a
message whose receipt was read before the call: it shares its key with no other frame
(`OwnKey`), it is carried (on its way, held, or with its call) until it lands
(`PostedIsLanded`), and when its key is spent the message is deleted, or is one of the
exceptions of the property (`SpentIsEnded`), because the message was there, or had been
dropped (`UnsentIsThere`, from `DurableInv`). A recall cannot
take it off a relay: only messages are on record as copies (`CopiesAreMessages`).
`Follows` says what the parts of a tick leave in the queues; `UnsendSender` and
`UnsendReceiver` are the two ways a step keeps the invariant.

`NothingAbandoned` (`NeverAbandoned`): no message of the sender's history is mislaid
between the queues, the threads and the relays. The property alone is not inductive: a
message may be in custody only because its receipt is still on its way, or because a call
is under way. `CustodyInv` names what keeps each message (`Kept`): it landed
(`Landing`: the receiver has it, it is in its mail, or a call is taking it back), it waits
for its one send (`SentOnce`), it is held, or its badge is "sent" with the clock running
or the sweep's copy queued (`Watched`). A frame on a wire counts for nothing, since it may
be lost; a copy a relay took counts for good (`PostedIsSettled`), since the receiver
processes what it drains, a frame whose key is spent was processed before
(`SpentIsReceived`, from `OneKeyEach`), and a call that recalls it ends with the message
taken out (`CallsAreOwn`). `TickExtends`, `HeldExtends` and `UnconfirmedExtends` say that a
tick and the outcomes of a round let go of a message only on a receipt, which `DurableInv`
says is the truth, or for another reason to keep it.

**RecallProofs**. `WithdrawnStaysUnseen` (`RetiredNeverShown`): a text that was taken back before anyone had
it is never shown. What makes a recall complete is that it names every copy there is. A
*grip* on a message is a place of the sender's side from which its frame is still to go
out, or that names every copy of it that went out: the plan, the held queue, the outbox,
a round, its receipts, a call. `GripInv` says that a message has at most one grip, that
every frame of it anywhere is the grip's (`Sole`) and lies only on relays the grip names
(`Named`), and that while those copies are still there the receiver has not seen it
(`Intact` implies `Unseen`). A message that was handed over directly or sealed again is
out of the sender's hands (`Loose`) and has none. A place moves only when the sender's queues
hand the frame on, so each lemma on a helper of a tick or a round says that its grips come
from those it was given (`From`), and that it holds a frame once (`HeldOnce`). `RecallInv` adds
what the texts need: an edit's text is in one frame, or in the call that has not sealed it
yet (`EditTexts`), under a grip no frame has the text of an edit (`GripTexts`), and a
retired text is in no frame and not the message's own (`RetiredTexts`). When a recall
answers that all copies are gone, the grip goes with them, so the text is in no frame from
then on, and it is safe to count it as `retired`.

**KeptProofs**, for any number of list versions, key rotations and kills: `NoRollback` (`ListsMoveForward`) and `DirTypeCorrect`. A fetch runs off the lock, so
what it brought is applied to a state that has moved on; the invariant `DirInv` adds
to the types that the answers of a fetch in flight were signed by some key of the
operator's (or are unreadable, or the empty list before the first one), and stay so
when more is signed. `AdoptForward` is the argument for one list: it counts only
under the newest key known after its own rotation is taken in, and only when its
version is higher. `FinishForward` carries it over the site's list and two relays'.

`BridgesAreKept` (`BridgesHold`): while the file could be written, the secret saved is
the one the listener of the running process checks (`OneSecret`), through edits, new
server names and restarts. `BackupsAreKept` (`BackupHolds`), for any contacts, messages,
exports and merges. That no contact is left thinking nearby is on needs more than the
device: `BackupInv` says that every copy anywhere (in hand, on the server, being
restored) agrees with the device on the setting, up to one that an export turned off,
that no message is in a chat and among its tombstones, and that the device has the
tombstone of every message unsent on it. `ChatStepKeeps`
is the argument for one step of a chat, `UseKeeps` for one that leaves every chat's
setting, `MergedIs` for a merge of any part of an export, which is what a stop at the cap
leaves. `AttachmentsAreKept` (`AttachmentsHold`): `MedInv` has for each
message with its file, or deleted, a key that is spent, in memory and, when the history
that has the message was saved, on disk, so the frame that made it cannot make it again;
`DeviceKeeps` says what a step of one device has to show for it.

`UpdateIsWhole` (`UpdateHolds`): the parts of a file in progress are
blocks of one build up to its length, and the file renamed into place was verified
against the manifest of the call that wrote it.

**DeviceProofs**. `MessagesAreNotLost` (`MessagesSurviveShutdown`), for any number of
cores one after the other. `LifeInv`: an earlier core is over, so only the last one
writes the file; it holds every message of the file; and what a drain has in its hands
is never dropped by a stop, since an exiting poller waits for its drain and applies it.
`WatchdogIsJustified` (`RestartsAreJustified`): the restarts seen since the last healthy
cycle keep up with the persisted counter until it reaches the threshold, and the offline
case gives no verdict. `BudgetIsKept` (`InboundHolds`) and `ListenerCountsTheServed`
(the type invariant with the cap of the listener), for any number of reader threads:
the shared counter is the sum of the frames in hand and in the channel (`InbInv`); a
reader between its load and its swap holds nothing yet, so a lost swap changes neither
side.

`DeletionIsRight` (`DeletionHolds`), for any message ids, timers, settings changed, kills,
TTL and allowance. `RetInv` has four parts. `Watched`: a burn message that was shown has
its tap still under way, stamped with the first showing, or counts from it, and a pumped
device holds none past its time; hence a tap that arrives late or twice moves nothing.
`Lined` and `Stays`: what was kept with every timer off lies under lines that still say
so, since an entry appended later does not change what `LastChange` finds for an earlier
time (`PastIsKept`, `NowInForce`), and both sweeps pass over it; a switch in the same
second is the one exception, as `OldMessagesStay` says. `Allowed`: the counter covers
what arrived since its window began, nothing arrives past the window before it is
renewed, and what came before fits in one allowance, so two bound any day. `OnceSent`: a
text is shown only where it arrived, so a fresh id was shown nowhere.

**PartsProofs**. `LockIsSafe` (`LockHolds`): the invariant follows each file write of
setting, changing and removing the passphrase, and relates the attempts to the clock
they were stored with. `PathsAreKept` (`PathsHold`): `BackoffHolds` is strengthened to a
sum, the misses and the local attempts under way are at most the threads and a probe,
because an attempt is begun only while none has failed since the last lapse.
`OnionIsKept` (`OnionHolds`): every place an address may be in (state, sealed file,
keystore, backup, running core) has the address its identity was told, or may be
dropped; one named conjunct per place. `StreamsAreKept` (`StreamsHold`): only a stream
that reads holds bytes, and the one about to be refused has not started (`StrInv`), so
each way out of a task gives back what it held and is counted once (`TaskEnds`).
`PairsAreKept` (`PairingHolds`), for any devices, invites and cap of contacts. That two
open ends share a session is not inductive while frames are on their way. `PairInv` says
of each end alone what it admits and presents (`JoinedOK` for the one that joined the
session, `HostedOK` for the one that published its invite), of a Hello that it is the
only one between its two devices and of its sender's session (`HelloOK`), and of two ends
without a Hello between them that they are of one session and that the end of
the wait is in an Approved on its way. As for the joiner's own key, `PairOK` says what is
true of the code: once the host has recorded an announcement of this session as told
(`Told`), the joiner presents its own key or the RelaySet is on its way. A host that
recorded one of an earlier session is `LeftOnPass`, and the own key a joiner holds may be
of an earlier join (`TookOldKey`). A step changes one device's chat with one other; `AllChatsKept` and
`AllPairsKept` carry the rest over (`OthersStay`).

**ContactProofs**. `GuessesAreBounded` (`InvitesHold`): the inviter's saved count, its
round in progress and the answers it posted together stay under the cap, as sets of
openers, so the order of relays and repeats does not matter; a kill gives back the
unsaved part, hence the hypothesis. `AgreementIsMutual` (`MailboxHolds`): as long as
nothing was lost (`Steady`) whatever is known of a side anywhere is what it contributes.
After a restore that lost a contribution (`Lost`), old and new frames are on their way
together; nobody takes the new secret for agreed before its peer holds the new
contribution (`LostUnheard`), and direct frames keep their order (`InOrderOf`), so no
direct frame with the old one can take it away afterwards; one by relay could not be read,
as it lies under a handle of the old secret.
`NoticesCountOnce` (`ControlHolds`), for any captures, settings, moves of our onion,
failures, kills and refusals: the contact never notes more captures than our own chat
says. Copies of a notice may be on a connection, in the mailbox, in a round, in memory and
in what was saved, so counting frames would not do; `NoticesOwed` bounds by what was said
the notes and the *set* of notice frames underway whose key is unspent, which a copy does
not enlarge and a reading shrinks. `Follows` and `Keeps` say what each helper of a tick
and of a round may do to the queues (`RoundKeeps` for the fold over a round's outcomes,
whose recursion `FoldsExist` unfolds), and `AddressesOurs` that every address underway is
one our onion had.

`MailIsAlwaysPolled` (`MailIsPolled`): `EpInv` has for each message a relay was given
for us an entry that stands for its relay, on the list or draining until the relay
drops the message (`HeldBy`); while a round that may retire a day is off the lock, the
mail of that day is behind the jobs that are left (`RoundSound`), and none is added to
it, because a day is settled only once the clocks of all agree that it is over
(`SkewedDay`, from the uniqueness of quotient and remainder).

Model-checked only: liveness (`EventuallyOnDisk`, `Arrives`,
`SettingsReachContacts`, `PairComesToTerms`, `LoopsComeThrough`), which is out of the
prover's reach; `SentHolds` (the walk of Scrub is recursive over
the data); `ContactHears`, and `DeviceTypeOK`, the sum of type invariants
that theorems state part by part.

## 6. Plan

Done: the relay and its abstract specification, delivery, and a module for every
part of section 1. What is left, in this order:

1. *Proofs:* `ContactHears`, which holds in the cases of its run only, so a theorem needs
   them as hypotheses.
2. *Composition:* Epochs in place of Delivery's constant route; MailDrop in place of
   Delivery's `mailbox`.
3. Saves that fail, which every module now assumes away.

## 7. Not modelled

- *Cryptography and identity* (`crypto/`, `identity/`, `pake/`, `pqkem.rs`): wrappers
  of libraries. The models use their promises: a ratchet key opens one frame once, a
  session opens its own frames only, signatures are not forged, a wrong code opens
  nothing.
- *Wire codec* (`wire/`): encoding without state. Where the format matters (two
  releases that cannot read each other) `Versions` has it.
- *I/O of the transports*: bootstrapping Tor, TLS and HTTP bytes, the TCP listener.
- *Flutter bridge and demo* (`frb_generated.rs`, `api/demo.rs`): generated glue, and a
  scripted peer.
- *Diagnostics* (`diag.rs`) and the relay's dashboard (`tui.rs`): text that nothing
  reads back.
- *Relay health*: a flag per relay that is shown to the user and decides nothing.
