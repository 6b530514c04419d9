# Verification of signal-purple

TLA+ models of the parts of signal-purple that run concurrently or survive restarts,
the TLC configurations that check them on small instances, and TLAPS proofs of every
safety property those configurations check. Paths below are relative to the repository; `core/` stands for
`rust/signal-core/src/`.

## The system

signal-purple is a Purple 2 protocol plugin. It has two halves.

- **The adapter** (C, `src/*.c`) runs on Purple's main loop, which is one thread. It
  calls the core through a C interface and is woken by a descriptor when the core has
  events.
- **The core** (Rust, `core/`) has one worker thread with a single-threaded runtime.
  Its *actor*, the dispatch loop of `ConnectionSession`, owns the session and handles
  messages, commands and acknowledgments one at a time, giving up control at every
  `await`. Beside it run a receive driver, a group synchronization task, contact and
  avatar tasks, upload tasks and one delivery-receipt task. Conversions of videos run on
  a blocking thread with a child process.

They share a bounded event queue (core to adapter), a bounded command channel
(adapter to core), the acknowledgment inbox, the admission table of attachments and a
shutdown signal. Durable state is in an encrypted SQLite store. The Signal protocol
is a library (Presage).

| Part | Source | Module |
|---|---|---|
| Event queue, main-loop bridge | `core/event_queue.rs`, `core/ffi.rs`, `src/connection.c` | `EventQueue` |
| Worker lifecycle, command channel, timestamps, linking | `core/ffi.rs`, `worker.rs`, `command.rs`, `shutdown.rs`, `coordinator.rs` | `Session` |
| Projection and acknowledgment of messages | `core/backend/projection.rs`, `core/acknowledgment.rs`, `worker.rs` | `Projection`, `MessageDelivery` |
| What one received content becomes | `coordinator.rs`, `src/connection.c`, `src/connection_transfers.c` | `Content` |
| Conversion of GIF-style videos, bounds check of a GIF | `core/backend/media.rs` | `Transcode`, `GifCheck` |
| Session state, groups, leaves, deferred joins | `coordinator.rs`, `group_state.rs`, `worker.rs`, `src/connection.c`, `src/group_sync.c` | `GroupRoster` |
| Contact snapshots, buddy list, identity notices, contact avatars | `coordinator.rs`, `worker.rs`, `src/contact_sync.c`, `src/blist_sync.c`, `src/connection.c` | `Contacts` |
| Avatar cache | `core/backend/media.rs` | `AvatarCache` |
| Outgoing attachments | `core/attachment.rs`, `worker.rs`, `ffi.rs`, `src/connection_transfers.c` | `Attachments` |
| Encrypted outbox | `core/backend/outbox.rs`, `coordinator.rs` | `Outbox` |
| Delivery receipts | `projection.rs`, `worker.rs` | `DeliveryReceipts` |
| Read receipts | `src/connection.c`, `ffi.rs`, `worker.rs` | `ReadReceipts` |
| Received files, account dialogs | `src/attachment_file.c`, `src/plugin.c`, ... | not modelled |

## The modules

Each module models one component together with the slices of the worker and of the
adapter it interacts with. An action is a whole handler, or the part of it between two
points where another thread, task or callback can run. Definitions whose comment
begins with "Mutant" are deliberate errors. They are used only to show that a property
would notice the error, and no specification refers to them.

**EventQueue.** `queue`, `bytes`, `pending` and `notifier` are the channel,
`queued_bytes`, `notification_pending` and the bytes in the socket. Producers are the
threads that call `emit`. An emit is split where it sleeps on the condition variable.
The main loop polls up to `Batch` events per wakeup, and closes and joins at logout.

**Session.** One backend core from its creation to the end of `run_worker`: opening the
store, pairing or loading, the startup phases, dispatch, recovery with its table of
delays, and the end by shutdown, failure or panic. On the other side are the entry
points of `ffi.rs`, each split between its ready check and its `try_send`. The worker
sets or clears the ready flag in one step and emits `READY` or `RECOVERING` in the next
(`Announcing` names the states in between), so an entry point can see the flag before the
adapter sees the event; `ShownAgrees` says that they agree outside that window and that
inside it the flag is ahead. A command is
its number and its kind; what it does is in the module of its component. Commands that
arrive during a recovery are received one by one, and a reconnection that fails for good
fails the deferred ones one by one (`failing`) before the fatal event; neither loop
awaits anything, so a shutdown does not cut into them. The timestamp
allocator is here because its order is the order in which commands are handled.

**Projection.** The actor's `pc` names the await it is at. The module has the receive
channel, the replay lists, pending projections, the inbox with its permit, the event
queue, the store, and runs separated by a shutdown or a crash. **MessageDelivery** is
its abstract specification: what the pair of store and user interface promises for
each message: none is recorded as projected before the adapter has taken it, refused it
as malformed, or the handler has found nothing in it to present, and none is handed over
once it is recorded. The mapping takes `rejected` for what was refused and `handled` for
what needed no presentation. Refusing is a step of its own because the documents do not
promise it (see `ProjectionMalformed.cfg`).

**Content.** The inside of the step that `Projection` calls handling: `handle_content`
and `emit_data_message`. A content is its form, its target and its attachment pointers.
The module has the routing, the download loop, the conversion loop, the composition of
the events, their emission one by one, the adapter that presents them, and the
acknowledgment that the last one carries. It extends **Transcode**, one conversion with
its process-wide lock, child, two pipe threads and timeout, which goes on when the
worker that asked for it is gone. `Transcode` extends **GifCheck**, the scan of the GIF
that came out, offset by offset. The scanned bytes are chosen when they are read, so
one behaviour is the scan of any data that fits.

**GroupRoster.** Session phase and group authority, `DepartedGroups`, snapshots emitted
event by event by the actor and by the task, and the adapter's active groups, saved
chats, deferred joins, pending leaves and fallback timer. The fallback timer iterates
over a table that its callee modifies, which GLib leaves undefined. The model lets it
open any subset of the deferred joins.

**Contacts.** The stored contacts, the snapshot that the worker emits event by event,
the contact request with its retries, the download task of avatars, the identity notices
with the commands that accept or dismiss them, and the adapter that applies all this to
Purple's buddies, icons and menus. An acceptance or a dismissal may fail in the store and
then leaves the notice. `advised` is a history of the contacts the user was told of since
their last acceptance: `NoticeShown` needs it to say that a contact does not stay in
`identity_changes_seen` beyond that. A notice ignored because of an earlier one is counted
as shown; `IdentityOffer.cfg` below shows where that falls short. A buddy is managed by the plugin, made by the user or
left by an older version. What the external store does when the user dismisses the
notice of a verified contact is not to be seen in this repository: `SparesBlocking` says
whether it leaves the notice, as the comment on `signal_core_dismiss_identity_change`
implies ("Dismisses a non-blocking identity replacement notice", `ffi.rs:788`). The
runs take it to be so. Without it, and with four changes, three verifications and an
event queue of four, TLC finds an offer whose identity is no longer blocked. It extends **AvatarCache**, the memory and disk cache with its
temporary files, where file names are kept apart from files because writers that share a
name share what is behind it.

**Attachments.** Admission, permit, the lifecycle word (`active`, `cancelled`,
`terminal`), the task of each request, recovery and teardown, and the Purple transfer.
The call that sends a file holds the main thread and is split at what the worker can
change meanwhile: the ready check (`Send`), the reservation (`Reserve`) and the command
slot (`TakeSlot`, `RefuseSlot`).

**Outbox.** Rows, attempts, the operation in hand, marking of sent messages and
acceptance of a changed identity. Delays are abstracted to *due* or *not due*. A shutdown
has two steps: `BeginShutdown` closes the event queue, after which reports are dropped,
and `Shutdown` drops the operation at its await. A store write and what the actor does
once it is answered are two steps (`FinishAttempt`, `ReportOutcome`), because a teardown
can fall between them: "an already dispatched SQLx SQLite operation can finish on its
dependency-owned thread afterward" (`docs/architecture.md:65-67`). The model has it finish
before the next connection reads the rows. A row not yet deleted stays, as "Cancelling an
outbox retry leaves its encrypted row available for the next connection"
(`docs/architecture.md:72-73`) has it. `cutoff` is a history of the messages whose last
report fell to a teardown, the one exception that `SentIsMarked` and `RowSettles` name.

**DeliveryReceipts.** The queue, its one send task and the connection generation. The
task outlives the connection that started it.

**ReadReceipts.** Pending reads of the adapter, the focus, the flush loop call by call
(the worker can change the ready flag or drain the channel between two calls), the
retry timer, the command channel and commands deferred by recovery.

`MCEventQueue` adds the liveness property of the queue. `MCContent` lists the contents and `MCContacts` the published
avatars and the budgets of their runs. The other `MC*` modules only add a symmetry set,
which is used in safety runs alone.

## The runs

| Run | Question |
|---|---|
| `event_queue` | No event is lost, reordered or left without a wakeup, no producer sleeps for nothing, and shutdown completes. |
| `session` | Commands are neither lost, doubled nor reordered, timestamps follow their order, adapter and worker agree on readiness but for the event on its way, accepted commands are handled while the worker lives, and every phase gives way to a shutdown. |
| `projection` | Nothing stored is forgotten or shown twice in a process, `MessageDelivery` is implemented across reconnects, crashes and a restart, an accepted acknowledgment is recorded in the end, and the replay list drains. |
| `content` | The delivery id comes last and once, an acknowledged message was presented whole, a converted GIF is whole and within its bounds, one transcoder runs at a time, and no attachment keeps the handler for ever. |
| `group_roster` | A left group does not come back, the roster agrees with the last snapshot, and deferred joins and confirmed leaves are settled. |
| `contacts` | The buddy list ends in agreement with the store, the user's own buddies are never touched, an acceptance clears the way for the next notice, avatars arrive, no accept action is left over, and the avatar cache of one account holds whole images. |
| `attachments` | Permits and bytes are exact, no transfer is orphaned or reported twice, and a cancelled request gives its slot and bytes back wherever the cancel found it. |
| `outbox` | A repeated send is explained, sent messages are marked, and every row is sent or given up with a report, except that a teardown may cut off the report of a row already deleted. |
| `delivery_receipts` | A receipt is in flight exactly while the task holds it, and every receipt settles. |
| `read_receipts` | Only focused messages are marked read, and an eligible read always has a wakeup to come. |

Two runs end in a violation. Each states what a changelog entry or a test says and
shows that the code does otherwise:

| Run | What the code does |
|---|---|
| `group_timeout_joins` | `signal_group_sync_timeout` iterates over the table `signal_open_group` removes entries from, so a deferred join can be dropped unopened. |
| `attachment_cancel` | A cancel between `is_cancelled` and `claim_terminal` is followed by an error report. |

### Further configurations

These are kept beside the modules and are not among the runs above. Three pass:

| Configuration | What it adds |
|---|---|
| `GroupRosterPair.cfg` (module `MCGroupRoster`) | The safety properties of `GroupRoster` with two groups, and `PrunedWasNotMember`. 3.6 million states. |
| `ReadReceiptsLiveness.cfg` | `EligibleIsFlushed`: an eligible read leaves the table in the end. |
| `SessionBackoff.cfg` | `BackoffFollowsDrain`: the recovery delay starts again only after the queue has drained. |

The others end with a violation of the property named, each a disagreement with the
documentation or with a comment:

| Configuration | Property | Document | What the code does |
|---|---|---|---|
| `ProjectionMalformed.cfg` | `MalformedStaysUnprojected` | `docs/architecture.md:232` | The adapter acknowledges an event it rejected: `accepted` is computed and not looked at. |
| `ProjectionDrain.cfg` | `AcceptedAcksDrained` | `docs/architecture.md:236` | A shutdown that interrupts a batch loses the ids already taken from the inbox. |
| `OutboxIdentity.cfg` | `IdentityBlockedKept` | `docs/troubleshooting.md:150` | A message to a changed identity is discarded, so accepting the identity retries nothing. `RowSettles` counts it among the rows given up. |
| `OutboxTransient.cfg` | `TransientStaysQueued` | `docs/troubleshooting.md:146` | A group message refused for lack of authority is not put into the outbox. |
| `GroupSendAuthority.cfg` | `GroupSendsNeedAuthority` | `README.md:315` | The fallback timer makes the adapter accept group sends without an authoritative refresh. |
| `GroupReadyOrder.cfg` | `ReadyAfterQueueEmpty` | `docs/architecture.md:132` | The session is ready before the first `QueueEmpty`. |
| `GroupLeaveReport.cfg` | `FailedLeaveWasRefused` | `docs/troubleshooting.md:119` | The error of a group message is taken for the failure of a leave of that group. |
| `AttachmentPermit.cfg` | `PermitCoversEvent` | `docs/attachment-policy.md:35` | An aborted upload frees its permit before its error event is emitted. |
| `AvatarShared.cfg` (`AvatarCache`) | `CachedIsWhole` | `core/backend/media.rs:138`, "Atomic Disk Persistence" | The temporary name is the hash and the process id, so two accounts of one process can write the same temporary file, and one of them renames what the other is still writing. |
| `IdentityOffer.cfg` (`MCContacts`) | `BlockedIsOffered` | `docs/architecture.md:281` | After a first notice `identity_changes_seen` makes the adapter ignore a later one, so a contact verified in between is blocked without an action to accept it. |
| `ContactsDeferred.cfg` (`MCContacts`) | `SnapshotDeferred` | `core/backend/coordinator.rs:904`, "deferring" | A snapshot that met a busy store is not tried again until something else asks for one. |

One more was met while modelling `Content` and has no configuration, being plain in the
text: `docs/attachment-policy.md:20` says the plugin "does not enforce sender-declared
or decrypted byte limits of its own", and `coordinator.rs:1915` and `1926` refuse
an attachment whose declared or decrypted size exceeds 50 MiB. `Content` models what
the code does.

The models also record behaviour that no document speaks of: a worker whose start fails
for good drops the commands in its channel without a report, and so does a shutdown;
the list of deferred commands has no limit; a departed group is remembered until the
process ends, so a rejoin stays invisible; a content whose handling asks for a retry is
parked until the next connection.

### Bounds

Limits of the code (queue sizes, batch sizes, attempts) are constants, set to 1, 2 or 3
so that *full*, *one left* and *over* all occur with two or three clients. Environment
steps that could repeat for ever have counters in their guards, named `Max...` (in
`Contacts`, the budgets). One reconnect is enough for state of an old connection to meet
a new one. Two runs are enough for a restart to meet what the first left behind.

- `Attachments`: three requests of sizes one and two against two slots and three bytes, so
  that a reservation can fail for either reason. Size and result of a request are forgotten
  when its permit goes, which keeps the state space small enough for the liveness check.
- `Projection`: `RecentLimit` is not below the number of messages, as the 4096 of the
  code stands for "recent enough". With `RecentLimit = 1` and two messages TLC finds
  `ImplementsDelivery` violated. The number of delivery ids is bounded in the model
  only; `OutOfIds` exempts from the two liveness properties the states in which the
  actor could go on but for that bound.
- `Session`: two commands of any two of the five kinds, two losses of the stream or
  failed starts against a table of two delays, so that its last entry is used again, and
  a clock of three readings, which may be set back.
- `Content`: fourteen contents, one or more for each branch of the handler, among them
  one with an attachment above the size limit and one with more attachments than are
  downloaded. GIF data is 12 or 32 bytes long, too short for a header and long enough
  for two frames. Words, lengths and code sizes take the values at and beside the limits.
- `Contacts`: two contacts, one with an avatar that cannot be decoded. All budgets at
  once exceed TLC's reach. The five combinations pair the events that touch the same
  state: contact lists with losses and failed reads, contact lists with user edits and
  a restart, edits alone, avatars with losses, failures and a restart, three identity
  changes with two verifications and a restart. The inductive invariants of the proofs
  were checked on larger budgets as well.

Deadlock checking is off in `Session`, `Content`, `Contacts`, `Attachments`, `Outbox`,
`DeliveryReceipts` and `ReadReceipts`, where the worker, the account or the supply of
outside events really ends.

### Fairness

Weak fairness is given to steps of a thread that is running: the actor, a task in hand,
the main loop dispatching a ready source. Requests of the actor are taken to
end one way or the other. Nothing obliges the
user to act: nobody has to scan the pairing code. FFmpeg owes nothing: conversions end
because of the timeout. Beyond that:

- `Attachments`: an aborted or returned task is polled, the actor takes every branch of its
  `select!`, cleanup has a budget, and a recovery ends with a connection or for good. While
  there is no network for ever, a cancelled request that was deferred keeps its capacity. No
  upload has to return.
- `Session`: every branch of the `select!` of the dispatch loop is taken sooner or later.
- `Contacts`: the service drains the queue of a stream that stays up and lets a
  connection through in the end, and the retry tick comes round. Without this no
  contact list could arrive.
- `Projection` (strong): a store write tried again and again succeeds in the end.
- `GroupRoster` (strong): `select!` picks among ready branches at random, so a waiting
  command is served.
- `Outbox` (strong): the retry tick comes round between operations, and group
  synchronization is retried until it succeeds. A shutdown that was begun is completed.
- `DeliveryReceipts` (strong): of the sends tried again and again one succeeds. This is
  an assumption about the service. With three or more failing receipts whose attempts
  outlast the tick, the queue itself does not serve the later ones fairly.
- `ReadReceipts` (strong): GLib dispatches a ready source in turn although other
  callbacks run.

## The proofs

Seven modules hold the proofs and `ListLemmas` the facts they share about lists: what
appending, joining, splitting and removing do to the entries of a list, to its freedom
from repetitions and to its length. Each proof module extends the module it is about.
`TransportProofs`, `MessageProofs` and `ReceiptsProofs` extend two component modules
each. These share no variable and are not composed: a theorem speaks of the specification
it names. To be extended together they keep their names apart, so the event queue, the
outbox and the read receipts have `QueueSpec`, `OutboxSpec` and `ReadSpec` where the
others have `Spec`. A leaf that cites `Zenon` needs logic and sets only and goes to that
prover directly; the others need arithmetic, records or lists and go to the SMT solver.

All theorems hold for any values of the constants that satisfy the named assumption of
the module, which TLC evaluates in its run. The assumptions ask for types, finite sets
and limits that are not zero, and that no key is one of the words used as "none"; the
only other demand is in `OutboxAssumption`: at least two attempts (the code has five), so
that a first attempt is not already the last. Bounds on outside events (`Max...`, the
budgets) are constants too, so the theorems hold for any number of them.

| Module | Theorems |
|---|---|
| `ProjectionProofs` | `InboxAgrees` and `StillOnItsWay`; under `WindowCovers` `NothingForgotten` and `ImplementsDelivery` (the refinement of `MessageDelivery`) |
| `SessionProofs` | `SentInOrder`, `NothingVanishes`, `ShownAgrees`, `BackoffFollowsDrain` |
| `GroupRosterProofs` | `DepartedStaysGone`, `RosterAgrees` (with `SnapshotsWhole`), `PrunedWasNotMember` |
| `TransportProofs` | Attachments: `TransferNotOrphaned`, `PermitsExact`. Event queue: type invariant, `LevelTriggered`, `AsleepHasReason`, `OversizedAlone`, `InOrderNoLoss` |
| `ReceiptsProofs` | Delivery receipts: type invariant, `InFlightOwned`, `WarnedOncePerEpisode`, `StaleFailureHarmless`. Read receipts: `EligibleHasWakeup`, `SentWasFocused` |
| `MessageProofs` | Outbox: `DuplicatesExplained`, `SentIsMarked`. Content: `FinalIsLast`, `WholeBeforeAck`, `OneTranscoder`, `ConvertedIsWhole`, `AcceptedIsBounded` (of the scan by itself and inside `Content`), `ScanAdvances` |
| `ContactsProofs` | Type invariant, `BuddiesAgree`, `UserBuddiesKept`, under `SparesBlocking` `OfferIsLive`, under `OneAccount` `CachedIsWhole` (of the cache by itself and inside `Contacts`) |

Three theorems have a hypothesis that is more than an assumption on the values:

- `WindowCovers`: there are at most `RecentLimit` messages. The code forgets the oldest
  of 4096 recent identities, so a message could be shown twice after 4096 others. With
  `RecentLimit = 1` and two messages TLC finds `ImplementsDelivery` violated. The inbox
  and `StillOnItsWay` need no such hypothesis.
- `SparesBlocking`: see `Contacts` above.
- `OneAccount`: one account of the process uses the cache. `AvatarShared.cfg` shows that
  the hypothesis is needed.

**Projection.** Five parts. `Agree`: a delivery id stands for one pending message and
waits in at most one of the inbox's lists or in the batch. `Stand`: what the actor holds
at each await. `Way`: what is stored and not recorded is in the channel, in a replay
list or pending. `Once` has two halves, `Remembered` and `Unseen`: what may come again
is either not recorded or among the recent identities, and an event in the queue stands
for a message not yet shown. They hold until a shutdown begins, which may interrupt a
write, and after that nothing more is shown. `ImplementsDelivery` follows step by step:
each action is a step of `MessageDelivery` or leaves its variables alone.

**Session.** `Ordered` puts the ids in a row: handled before deferred before the
channel. It is what makes the order survive a recovery, in which commands move from the
channel to the deferred list and new ones come behind. `Counted` says that each accepted
command is in one place. `Told` follows the reports of failed requests through the event
queue: the fatal event is the last one. `Agreed` reads off the queue what the adapter
will have seen when it has handled all of it; `Waited` ties the delay last waited for to
the position in the table. Between the flag and its event `Agreed` has the queue one
event behind.

**Group roster.** The proofs look at the event queue as what the adapter will do with
it: whether it will be inside a snapshot at a position (`Opened`), which groups it will
have collected there (`Collected`) and which it will list at the end (`Listed`).
`WholeQueue` and `WholeEnd` say that between two marks there are the records of one
snapshot, although a lost connection cuts snapshots short. `Gone`: what is queued of a
departed group comes before its departure. `OutsideStore`, `OutsideSnap` and
`OutsideQueue` carry the reason for a pruning from the store through a snapshot to its
end mark. `InStep`: what the adapter will list is what the store has, but for groups
whose content is still in the stream.

**Attachments.** `RequestInv` says for each request where its one report is: still
owed by the task, in the event queue, or given. It relates the lifecycle word, the
task, the table of the actor and Purple's transfer; until a request has its command slot
only the call that sends it knows of it (`FreshInv`). `SlotInv` adds that the admitted
requests are exactly those that wait, run or are not yet joined, `BytesInv` that the
counter is their total size. The total is the cardinality of the set of bytes held
(`HeldBytes`), which gives the laws of a sum without induction.

**Event queue.** The level trigger is not inductive alone: the proof needs that the
pending flag and the socket agree, and that the byte counter is exact. The counter is
related to the queue through positions in the byte stream, which avoids a sum over the
queue. `OrderInv` adds that a producer inside `emit` holds the event it counted last;
what was accepted changes only at its end.

**Outbox.** `HandInv` says what the operation in hand knows about its row. `AccountInv`
accounts for every acceptance by the service beyond the first: a lost answer, a teardown
before the row was deleted or a refusal of the store. `MarkInv` follows a sent message
until it is marked or its user is told, or a teardown cuts off what was to be told.

**Delivery receipts.** The strengthening adds that a warning not yet given implies a
rest since the last one, and that no task means no result. Lemmas state what removing an
entry does to a list without repetitions.

**Read receipts.** `WakeupInv` extends `EligibleHasWakeup` to the states inside a flush:
what the loop has yet to look at is eligible, and what it has passed has a timer or was
sent. `ReadPaid` follows a read from the table through both queues to its receipt: the
focus came first, and each presentation pays for one entry, one command or one receipt.

**Content.** `GifInv` says at each stage of the scan how far it has read and that the
frames counted so far fit; the code bounds the frames by a division, and the proof shows
that this bounds the product of pixels and frames. `LockInv` ties the process-wide lock
to the child that is alive, also when the session that asked for it is gone. `PipeInv`
ties what the two pipe threads found to what the child did; from it follows that an
output that reaches the check is whole. `DownloadInv` carries that to the list of
attachments. For the events, `FetchInv` says that an attachment looked at was downloaded
or reported, `PhaseInv` that the events composed are the whole content and none has the
delivery id before that, and `OrderInv` that nothing is behind the one that has it.

**Contacts.** `Types` is needed by all the others, as most variables are queues and
tables of records. With one account, a temporary name belongs to one call at a time and
a file that is about to be renamed is whole, though the process may have died in an
earlier write and left a part behind (`AvatarInv`). `OfferInv`: what the adapter offers,
and what it is going to be told of, is blocked in the store or its acceptance comes
later in the queue. `SnapshotInv`: a snapshot is emitted and handled in order and one at
a time, also when a stream is lost or a session ends inside it. `AgreeInv`: the latest
snapshot, wherever it is between the store and the adapter, lists the contacts of the
store if it was read after the last reported change, and once it is handled the buddy
list agrees.

Only model-checked:

- all liveness (`ShutdownCompletes`, `AckedIsRecorded`, `ReplayDrains`,
  `DeferredJoinResolved`, the liveness half of `LeaveResolved`, `RowSettles`,
  `ReceiptSettles`, `CancelFreesCapacity`, `AcceptedIsHandled`, `ShutdownEnds`, `HandlingEnds`, `AckArrives`,
  `NoticeShown`, `AvatarShown`), as fairness is outside the prover's reach;
- the full type invariants of `Projection`, `Session`, `GroupRoster`, `Attachments`,
  `Outbox`, `ReadReceipts` and `Content`. The proofs have what they need of them in their
  own invariants. That of `GroupRoster` is out of reach as it stands: a lost connection
  filters the stream into the replay list with `SelectSeq`, and what that returns needs
  induction. The proofs need no type of the replay list, because what is shown of a
  replayed content is looked up in the store.

## Not modelled

- Received files: once handed over, one function on one thread writes the file.
- The C repetition of the GIF check (`src/inline_image.c`) and image headers: sequential
  comparisons on bytes. The Rust check is modelled.
- Group avatars and the account's own identity event: they take the path of contact
  avatars through the same cache.
- Group titles and revisions in the metadata cache: maps in which the last writer wins.
- Account dialogs, settings, menus and the entry points of the plugin: user interface.
- Texts: formatting, quotes, mentions and the wording of errors. The models keep whether
  there is a text.
- A transcoder that outlives the crash of its process: it finds its pipes broken, and
  `OneTranscoder` counts the children of the process that runs.
- Queries, migrations and error mapping of the store: each call is one step that may
  fail. Presage, SQLite, FFmpeg, GLib and Purple are libraries or programs, modelled by
  the outcomes their callers handle.

Apart from `Content` with its conversions and `Contacts` with its cache, components are
not composed: group authority is in `GroupRoster` and, as a yes or no, in `Projection`
and `Outbox`, and the session phase is in most modules. Where a module needs a step of
another it has it as an outside step with fewer guards, so it allows more orders than
the whole system does. A composition of `Projection` and `GroupRoster` on one session
state is what is left to do; it multiplies two of the larger state spaces.
