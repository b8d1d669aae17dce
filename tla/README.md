# Verification of the editor's connections, storage and working copies

This directory holds TLA+ models of parts of the editor under `src/Source/vs`,
the TLC configurations that check them on small instances, and TLAPS proofs of
the properties that matter most. `PROJECT.json` maps every definition that
models code to its lines, lists the runs, a mutation of the code for every
property (which makes the property fail), the hazards each property is aimed at,
the findings and the theorems.

Run a model with `tlc -config <X>.cfg <Module>`, check proofs with
`tlapm <Module>Proofs.tla`.

## 1. The system and its components

The repository is a fork of Visual Studio Code: an editor made of many
processes (main process, windows, shared process, extension hosts, a remote
server) that share nothing and talk over IPC. It has no tests beside the code,
so what a component promises is taken from the code, its callers and its
comments. JavaScript runs one callback at a time; what is hard is therefore not
data races but the *order of callbacks*: state read before an `await` and used
after it, promises that settle late or never, timers that race answers, sockets
that die between two steps, and processes that end between two writes.

| Component | State | Operations | What makes it correct |
|---|---|---|---|
| **BufferedEmitter** `base/parts/ipc/common/ipc.net.ts` | listeners, buffered events, delivery flag | fire, add first / remove last listener, microtask delivery, flushBuffer | order kept, nothing lost although listeners re-enter |
| **ProtocolWriter, ChunkStream, ProtocolReader** same file | bytes to write, pause flag, chunks, parser state | write, timer, flush, pause, resume, acceptChunk, hand-over to another protocol | frames survive any chunking, nothing is left unread |
| **PersistentProtocol** same file, with the handshake of `platform/remote/common/remoteAgentConnection.ts` and `server/node` | ids, acknowledgements, queue of unacknowledged messages, timers, reconnecting flag | send, receive, timers, replay, begin/endAcceptReconnection; the client's loop tries, gives up or fails for good | exactly-once, in order, across sockets; every message arrives in the end |
| **ChannelClient, ChannelServer** `base/parts/ipc/common/ipc.ts` | ids, handlers, active and pending requests, subscriptions | call, cancel, listen, unlisten, answer, registerChannel, dispose | own answer to each call, cancellations arrive, subscriptions match listeners, no leak, every promise settles |
| **Storage** `base/parts/storage/common/storage.ts` with **ThrottledDelayer/Throttler** `base/common/async.ts` and the **SQLite database** `base/parts/storage/node/storage.ts` | cache, pending changes, delayer, throttler, database, error flag | init, set, delete, flush, whenFlushed, close; update succeeds, fails, is stored in part; recovery | nothing lost between cache and database, a settled promise means stored, a crash leaves one state of the cache |
| **The database's files** same file | database file, backup, connection | connect with retry, backup and in-memory fallback; close with backup or recovery | no single fault loses what a close stored; connect and close end |
| **Stored file working copies** `workbench/services/workingCopy/common/storedFileWorkingCopy.ts`, its manager, **TaskSequentializer** and the dirty write check of `platform/files/common/fileService.ts` | versions, dirty and error flags, known stat, running and queued save, resolve and revert under way | edit, undo, save, cancel, resolve, revert; the file system fails, other programs write | clean means saved, edits marked as dirty survive reloads, no foreign text overwritten unseen, no save lost |
| **Backups of working copies** tracker (common and native) and service in the same directory | scheduled operation, file operation, the service's model of the folder, shutdown state | schedule, discard, cancel; hot exit, confirm, veto; crash, restart | unsaved text is in a backup, saved text is not |
| Remote sessions (attempt counters, failures of all connections at once, grace timers) | attempt counter, session tables | server shutdown timers | *planned*; how the loop of one connection ends is in PersistentProtocol |
| Storage of several processes `platform/storage` | main storage and window storages | change events, debounced | *planned* |
| Extension host RPC, text file models, undo/redo, editor groups, life cycle, settings sync | | | *planned, see section 7* |
| Text model, editor core, workbench UI, contributions, language features, build | | | not modelled, see section 6 |

The components interact in layers. A socket carries bytes; `ProtocolStream`
shows that writer and reader turn them into whole messages. `PersistentProtocol`
takes a socket that carries whole messages, and shows that two protocols with
changing sockets are a `ReliableChannel`. `IpcChannels` takes such a channel and
shows what calls and events over it get. `Storage` is used at the end of such
channels by the main process; `StorageFile` opens up its database into the
steps on two files. `StoredFileWorkingCopy` is what the user edits and saves, and
`WorkingCopyBackups` listens to its events. `BufferedEmitter` is the queue between every
protocol and its first listener; the models of the layers above rely on what
is shown of it.

The behaviours that are hardest in this code are listed at their lines under
`hazards` in `PROJECT.json`, each with the properties that would catch it and
with what these leave open; section 5 has the rest of what was met.

## 2. Modules and how they correspond to the code

* **BufferedEmitter.** A callback is an action. While `isDelivering` holds, the
  delivery loop is on the stack; what happens between two iterations is what
  the listener just called does.
* **ProtocolStream.** Bytes are numbers; the header's fields before the length
  are abstracted to the message's id. Every way to cut the bytes into chunks
  is tried, with pause and resume, a `flush` (or `drain`) at any time, and with the hand-over that the server's
  handshake does (`readEntireBuffer`, which passes on unread bytes but not the
  reader's parser state; the model has exactly that). `running` says which loop
  of the reader is on the stack, and one turn of the loop of `ChunkStream._read`
  is one action; the two fast paths of `_read` do what the loop does in one turn.
* **PersistentProtocol.** Both ends, all sockets used in a behaviour, the
  client's reconnection loop and the server's acceptance. Variables are the
  fields of the class, per peer; `wire[c][p]` is what is on its way to `p` on
  connection `c`. `Write` sends, or holds back while the writer is paused.
  Time is abstract: an armed timer may expire whenever its guard holds.
  `ExtHost` chooses between the two server variants: an extension host process
  gets the socket from the agent (`AnswerHandshake` sends Pause, the process
  sends Resume), a management connection keeps it. The number `n` of
  `AcceptReconnection` is what is lost with the listeners on the way.
  An attempt of the client's loop ends with the answer to its handshake, goes
  back to the loop (`HandshakeTimeout`), or ends the loop: `GiveUp` is an error
  answer of the server, a used up number of attempts, or an error that is not
  taken for a temporary one. `PermanentFailure` is the failure of another
  connection of the window, or dispose; the loop then finds out and ends
  (`LoopEnds`). Both dispose the protocol and its socket (`DisposeProtocol`),
  which tells its users; `over` remembers which it was. For a management
  connection giving up is a permanent failure; an extension host connection does
  not remember its own, for the instance field `_permanentFailure`
  (`remoteAgentConnection.ts:559`) is never set, and a later socket timeout starts
  its loop again, in the model too. A handshake that nobody can answer any more
  (`NoAnswer`) runs into its timeout, which is then fair; a timeout that overtakes
  an answer is a fault.
  `MaxLosses` allows a transport that drops single messages, for the replay
  request; what is lost so is counted, for liveness is promised only without it.
  A request goes out at most every ten seconds: `MissedIsReplayed` speaks of a gap
  that shows when a request may be sent (`GapShows`), and of none that shows only
  within the limit, which stays until a later message or a reconnection.
  `sendDisconnect` and the debug-only
  `pauseSocketWriting` are left out.
* **ReliableChannel.** The abstract specification: two counters of sent
  messages and two sequences of delivered ones.
* **IpcChannels.** One `ChannelClient`, one `ChannelServer`, one channel name.
  A payload is the name of its call or the number of its event, so an answer
  that reaches the wrong caller shows. Then-callbacks that other callbacks may
  precede (`Initialized`, `DoRequest`) are actions of their own. History
  variables `sentLate` and `missed` mark the two windows in which the code
  gives no guarantee (see section 5).
* **Storage.** The cache, pending changes and their promises. A *waiter* is the
  promise of a change of a key, or of flush or close; it moves from the delayer
  to the throttler's active or queued run and settles, or hangs. The timer and
  the callback it resolves are one action, and so is everything that runs when
  the active promise settles (`Settle`): the finally-callback, the start of the
  queued run, close going on. The database is what `Storage` sees of it: a
  transaction that commits, rolls back, or is stored in part because a
  statement failed (`StatementFails`), a connection that is `isErroneous`,
  recovery on close, and a process that ends at any moment (`Reopen`).
  `acceptExternal`, `optimize`, `dispose`, the in-memory variant and the hint
  that the database does not exist are left out. `Early` allows callers before
  the items are loaded, as `StorageMain` does. Items changed then are lost from
  the cache when it is replaced by the loaded one, though still written;
  `overwritten` names these keys and the properties except them, and `hasty`
  says that this has happened since the storage was opened.
* **SnapshotStore.** What a write-behind store promises: what is stored is a
  view the owner had at one moment, never older than before. A medium that
  fails (`broken`) suspends the promise until the store is opened again.
* **StorageFile.** The same database seen from its two files. Every call to the
  file system and to SQLite is a step of a process `p`, `pc[p]` is the await it is
  at, and a process may end between any two steps. Items are the set of writes
  they contain. A connection whose file is deleted under it goes on with a file
  without a name (`Detached`), as on POSIX systems. `faults` counts what went wrong since a
  process last closed with a good backup and nobody else alive: a crash, a
  failing call, a lock that outlasts the retry, a process that starts too early,
  a file gone bad. Consequences of a fault (a corrupt file cannot be opened) are
  not counted again.
* **StoredFileWorkingCopy.** One resolved working copy. Texts, model versions and
  modification times are drawn from one counter, sizes are the parity of texts,
  so that foreign texts of the same and of another size occur. A save is a record
  that moves through throttle, participants, snapshot, write, stat and success;
  `running` and `queued` are the sequentializer's. A resolve or revert is at most
  one at a time, as the manager sees to. Reads with the known etag and forced
  ones occur (`MayBeForced`), and saves whose caller wants no error handling
  (`ignoreErrorHandler`). `outdated`, `blind` and `unmarked` are history
  variables: the first marks the time in which `savedVersionId` need not stand
  for the text that was last stored, the second a known stat whose text the model
  never had, the third an edit that was not marked as dirty. `own` of a file says
  that this working copy wrote it last and that the write succeeded. Section 5
  says how the code gets there.
* **WorkingCopyBackups.** One working copy, reduced to its events, the tracker,
  the service and the shutdown of the window. `pending` is the operation that can
  still be cancelled, `io` the file operation that cannot. `shutdown` follows
  `onFinalBeforeShutdown`; "gone" is a window that may close. `missed`, `doomed`
  and `late` mark the three windows in which the code gives no guarantee.
* **The modules named …Proofs.** Theorems, each module extending the one it is about.

## 3. Runs

Every passing run finishes within about three minutes.

| Run | Instance | Shows |
|---|---|---|
| `buffered_emitter` | 5 events, 3 microtasks (1863 states) | `InOrder`, `NothingLost`, `EventuallyDelivered` |
| `protocol_stream` | header of 3 bytes, bodies of 0..2, 3 messages (29 thousand) | `FramesIntact`, `NothingStranded`, `BytesConserved` |
| `protocol_management` | a message each way, 2 faults, 4 sockets (85 thousand) | `SocketIsWatched`, `EverythingArrives`, `QueueDrains`, `ReconnectingIsTemporary` |
| `protocol_exthost` | 2 messages each way, 1 fault, or 2 lost messages, 3 sockets (137 thousand) | `ImplementsChannel` (exactly-once, in order), `UnackedUntilDelivered`, `NoGap`, `MissedIsReplayed`, `ArrivesUnlessLost` |
| `ipc` | 2 calls, 1 event, 2 periods of listening, 2 fires (453 thousand) | `OwnAnswer`, `CancelReaches`, `NothingLeaks`, `DisposeSettlesAll`, `SubscriptionsMatch`, `HeardOnce`, `EveryCallSettles` |
| `storage` | 2 keys, 3 changes, 1 failure, 1 restart, early callers (1.06 million) | `CacheIsComing`, `SettledIsStored`, `ClosedIsComplete`, `FlushedIsStored`, `WhenFlushedReturns`, `ImplementsStore`, `CloseEndsUnlessFailed` |
| `storage_file` | 2 processes, 4 starts, 3 writes, 2 faults (720 thousand) | `SurvivesOneFault`, `CallsEnd` |
| `stored_file` | 6 events (2.2 million) | `CleanIsSaved`, `ReloadKeepsEdits`, `SeenBeforeOverwritten`, `ConflictIsReal`, `EverySaveEnds` |
| `working_copy_backups` | 7 events (419 thousand) | `EditsAreBackedUp`, `NoStaleBackup`, `HotExitKeepsText`, `VersionTellsContent` |
| `storage_close_hangs`, `stored_file_revert`, `working_copy_backups_exit` | small | the findings of section 5 |

**Why the bounds are enough.** *Emitter*: five events allow one delivered, one
buffered before a listener, one fired inside the loop, one after removal and one
after a flush. *Stream*: a header of three bytes can be cut in two places, bodies
of length 0, 1 and 2 are the empty, the unsplittable and the splittable one;
three messages are one before, one at and one after a hand-over. *Protocol*: the
ids of two messages in each direction distinguish old, expected and too new; two
faults let a reconnection be interrupted by another; `MaxConns` exceeds what the
faults can use up, so no behaviour stops for lack of a socket. A second lost
message can fall into the time in which no replay request may be sent; faults
and losses in one behaviour (`Mixed`) would take TLC beyond five minutes and are
left to the proofs. `MaxWire` bounds only keep-alives. The safety properties do not depend on these bounds: they are
proved for all of them. *Channels*: two calls share the id counter with events
and can overtake each other in answers; two periods of listening let old
messages of the first meet the second. *Storage*: three changes are one in the
update under way, one queued and one behind the timer; the second key shows a
mixture of two views, and one restart after any prefix shows what a crash
leaves. *Files*: the property allows one fault, the second one explores what
follows; four starts are two generations of two overlapping processes. *Working
copies*: six events are, for instance, an edit, a save, an edit and a save that
queues behind the first, a foreign write and a failure; the steps of the code
itself are not counted. *Backups*: seven events hold an edit, a backup, a
save, another edit, a shutdown, its veto and a crash.

**Deadlock** is not checked where the system may simply rest (all messages
delivered, client disposed, storage closed); the emitter runs with it.

**Fairness.** Weak fairness is assumed only of what the platform or the peer is
obliged to do: queued microtasks and timers run; a socket that has data is read;
a dead socket is noticed (keep-alives go out every five seconds and the
unacknowledged ones time out); the client's loop tries again; a handshake is
answered by the server or runs into its timeout; the database answers a query; a service settles its promises; file
operations, save participants and snapshots come to an end, in success or
failure. Users
(send, call, set, close), faults and time limits on working connections are not
fair.

## 4. Proofs

TLAPS proves, for every value of the constants that satisfies the modules'
assumptions:

* `BufferedEmitterProofs`: `TypeCorrect`, `OrderedAndLossless` and
  `NothingIsLost`. The invariant says that received, flushed and buffered events partition the fired
  ones, that the buffer is increasing, and everything received precedes it.
* `ProtocolStreamProofs`: `TypeCorrect`, `MessagesArriveIntact`,
  `NoMessageIsStranded`, `NoByteIsLost` and `ReadNeverThrows`, for any header of
  at least two bytes, any bodies and any number of messages. `FramesIntact` says
  nothing about bytes on their way; the invariant does: what a running `_read`
  has taken, the chunks, the socket and the write buffer are, in this order, the
  bytes still to be read, and the reader waits for as many of them as the next
  header or the next data has. Two equal sequences cut at the same place have
  equal parts, so what was taken is that header or that data. `NoByteIsLost` is
  this with the bytes written out. The hand-over needs that nothing but empty
  messages follows the request (`OnlyKeepAlives`): a reader that no loop runs in
  then waits for a header (`WaitsForHeader`), and forgetting its state is
  harmless. What `FlattenSeq` computes with one chunk more or less is proved by
  induction with a set of numbers (`AllNumbers`) instead of a predicate, which the
  provers can instantiate.
* `PersistentProtocolProofs`: `TypeCorrect`, `ExactlyOnce`,
  `NothingForgotten`, `ProgressKept`, `Refinement` (both ends implement
  `ReliableChannel`'s safety), `DeadSocketsAreNoticed` and `NothingIsMissed`. Assumption: `MaxMsgs < IdSpace`, that is, ids fit
  the 32 bits of the header. The properties alone are not inductive because
  nothing constrains what is on its way: the invariant `IInv` adds that every
  message on any socket, held by a paused writer or in a queue is *genuine*
  (a Regular message with id *i* carries the *i*-th message sent, and an
  acknowledgement is never ahead of what the other party has delivered), that
  the counters agree, and that the queue is the contiguous range after the last
  acknowledged id. What sockets do (break, lose, reorder connections) then does
  not matter: it only removes genuine messages. Being genuine is preserved as
  counters grow (`GenuineGrows`). `DeadSocketsAreNoticed`
  rests on `LoopInv`, `IInv` with the fact that an attempt belongs to the loop;
  that only the server's end takes part in a handshake is part of genuine.
  `NothingIsMissed` (the property `NoGap`) needs `GapInv`, about the order of
  what is on its way. As long as no message was dropped: what an end has yet to
  read continues what it has received; on a connection that works, what is in
  flight followed by what a paused writer holds back does so too, and reaches
  the last message sent unless the sender is reconnecting; on a connection that
  the server's protocol has not taken up, no Regular message is in flight, there
  is nothing for the client but the answer to its handshake, and once the client
  has read that answer its writer is paused. So the bytes that may be lost while
  the socket goes to another process are never numbered messages. The steps of
  `_receiveMessage` are proved in two halves, reading (`PopGapless`) and writing
  (`WriteGapless`), on the network between them.
* `StorageProofs`: `TypeCorrect`, `CacheComing`, `SettledStored`,
  `ClosedComplete`, `FlushedStored`, and `StoreImplemented`. The invariant
  `StorageInv` adds to the properties `WaitersInv` (each key that is not stored
  has an unsettled promise, and the throttler has no queue without an active
  run) and `CloseInv` (once close is called nothing new is written, and the
  promise it waits for is the last of the pipeline). The refinement needs
  `ViewsInv`, which ties the recorded views to the database, the update under way
  and the pending changes as long as the storage is `Sound` (no error, no change
  before the load, since it was opened). `StoreImplemented` has no assumption on
  failures or early callers: a step that makes the storage unsound is a `Break` of the
  abstract store, steps of an unsound storage too, and the next start is its
  `Reopen`, from which the promise holds again.

* `IpcChannelsProofs`: all six invariants of the `ipc` run, in layers.
  `IdsTellRequests` comes first: ids are given once, and whatever carries an id,
  in a map of either side or on its way, carries that of its own request (the
  counter is bounded by the requests that have used one up, a cardinality
  argument). `CallsAreAnswered` adds that a pending promise is an active request
  and every handler of a call has its request on the way, waiting, running, or
  its answer on the way; `AnswersReachTheirCalls`, `DisposeSettles` and
  `CallsLeaveNothing` follow. `CancellationsFollow` adds that behind the request
  of a call given up comes its cancellation, wherever the request is;
  `CancellationReaches` follows. `SubscriptionsTakeTurns` says that the messages
  about an event alternate between listen and dispose, the first of them undoes
  what the server has and the last one is what the client wants;
  `ServerListensWithClient` is the case in which none is left.
  `EventsAreHeardOnce` needs, in addition, that every firing on its way is newer
  than those heard and those before it. Assumptions: finitely many events, no
  name is both a call and an event.
* `StorageFileProofs`: `Invariance` and `OneFaultLosesNothing`. The property
  speaks of the moments between processes; the invariant says what holds at each
  step between: before a fault, or if the only fault was a start too early, file
  and connections are `Healthy`; after any other fault one process is alone
  `OnTheWayBack`, and the backup, the file or its own items still have what was
  stored.
* `StoredFileWorkingCopyProofs`: `Invariance`, `CleanWorkingCopyIsSaved`,
  `ConflictsAreReal`, `OverwrittenTextsWereSeen` and the action property
  `ReloadsKeepEdits`. The code decides by versions, times and sizes; the
  invariant says which text each of these numbers stands for in the model, the
  save and resolve under way, the known stat and the disk, and which texts the
  user has seen. `ReloadsKeepEdits` rests on a second one, `MarkInv`: a working
  copy that is not dirty has the version `savedVersionId` or an unmarked edit,
  and while the model takes the content of a file nothing but unmarked edits can
  have come since the versions were compared.
* `WorkingCopyBackupsProofs`: `Invariance`, `VersionIsReliable`,
  `StaleBackupsAreDeleted` and `HotExitLosesNothing`. The invariant relates the
  version and the text in four places: the pending operation, the file operation
  under way, the service's entry and the file; and it says what a shutdown waits
  for. Assumption of these two modules, besides numeric bounds: `None` is no
  record of theirs.

`ExactlyOnceInOrder` and `ProgressIsKept` of `PersistentProtocol`, and the type
invariants, have theorems for all values and are not repeated in the runs; TLC
checks exactly-once on its instance through `ImplementsChannel`.

Every inductive invariant was checked by TLC on the run's instance before it
was proved. Action-level facts the proofs rest on are lemmas, one per action and
layer; sequence and cardinality facts are lemmas of their own.

Only model-checked: the liveness properties (the provers do not handle fairness
and ENABLED). Every safety invariant and every action property that a passing run
checks is proved; of the two refinements the safety part is.

## 5. What was found

Three runs refute what a comment in the code says; each finding quotes it.

* `storage_close_hangs`: the promise of a run queued in `Throttler` never
  rejects; if close's flush was queued behind another and fails, close never
  ends and the database is not closed.
* `stored_file_revert`: the manager drops `forceReadFromFile`, so that a revert
  reads with the known etag, is told that the file has not changed, and leaves
  the unsaved text in a working copy that counts as clean.
* `working_copy_backups_exit`: `discardBackups` deletes the folder outside the
  queues of file operations; a backup being written at that moment is created
  again, and the next start restores text that had been saved.

Other behaviour met while modelling, kept in the models:

* a listener that leaves, or a call that is cancelled, before its channel is
  registered is subscribed or made all the same later, because
  `disposeActiveRequest` does not look at pending requests (`ipc.ts:467`; the
  properties except these requests, `missed`);
* after a failed read of the items, closing replaces the database and its backup
  by the owner's nearly empty cache (`storage/node/storage.ts:198`, `blind`);
  two faults lose stored items: a crash between `unlink` and the end of recovery,
  or between `unlink` and `rename` in connect, leaves only the backup, the next
  process opens an empty database without looking at the backup, and its close
  overwrites it;
* a working copy is called clean with a text that is not the file's after a
  revert during a save (which reads nothing), and by undo to the version saved
  before the last one when that last one was saved while the user typed
  (`outdated`);
* an edit typed while `model.update` is awaited (`storedFileWorkingCopy.ts:688`,
  `712`) is replaced by the content of the file and called clean, since the
  version is compared only before (line 610); the comments at lines 593-596 and
  608 mean "to prevent loosing any changes". `ReloadKeepsEdits` constrains the
  step that replaces the content, and without its exception `unmarked` TLC
  refutes it by resolve, read, accept, edit, update. The other edits it excepts
  are those typed during a revert whose read fails, if the flags set back say
  that nothing is dirty;
* a write that ends in an error after it has changed the file leaves a file that
  its own working copy does not know, and the next save meets it as a conflict;
* a stream that breaks while the model takes the content, or a foreign write
  right after a save, leaves a known stat for a text that nobody has seen, which
  the next save overwrites without a conflict (`blind`); so it does with a foreign
  text of the same size, and with one written between the check and the write;
* a save that joins a running one of the same version does nothing if that one
  has been cancelled (`storedFileWorkingCopy.ts:888`);
* a vetoed shutdown does not schedule again the backups it cancelled, a failed
  revert tells nobody that the working copy is dirty again (`missed`); `backup`
  returns early for a version whose discard is under way (`doomed`); text typed
  while the shutdown makes its backups is not in them (`late`);
* a request cancelled between the two microtasks that start it is still sent
  (`sentLate`, `ipc.ts:622`); a timed-out pending request is still made when the
  channel is registered later (`ipc.ts:503`);
* a message lost at the end of a stream (lossy transport), or within ten seconds
  of a replay request, is not repaired as long as keep-alives flow and nothing
  later is sent; real sockets do not lose single messages;
* `readEntireBuffer` does not pass on the parser's state; no message with a body
  can be half read at that point;
* the comment on the header in `ipc.net.ts` speaks of 9 bytes where
  `HeaderLength` is 13;
* the instance field `_permanentFailure` of `PersistentConnection` is never set,
  and attempts go on two longer than the comment on 360 attempts says.

## 6. Not modelled

Text model, editor core, view model, language features and the workbench's
user interface are either data structures whose interesting inputs cannot be
enumerated, or interaction with the DOM. Serialization and proxies of IPC have
no state. The load estimator only decides whether an expired timer is believed,
which the abstract time of `PersistentProtocol` covers. Wrap-around of 32-bit
ids is excluded by assumption: the code makes no provision for it.

Of the modelled parts these are left out: VACUUM and the integrity check of the
database; damage to a file that is open (no statement need notice it, and close
would copy it over the backup); opening a working copy from a buffer or from its
backup, orphaned and read-only files, models that save themselves, elevated
writes, two reverts at once; stat and content of a read as separate steps; the
moments inside `model.update`, of which only the last, when the content is there,
is a step;
several working copies, closing and reopening an editor, restoring editors, auto
save before shutdown and the in-memory backup service.

Paths of modelled operations that are left out, each without effect on the
properties of its run: in `IpcChannels` a `channel.listen` that throws
(`ipc.ts:461`, `508`) and requests made after dispose; in `StorageFile` an
in-memory connection that rejects; in `WorkingCopyBackups` the time between the
`finally` that resumes the tracker (`electron-sandbox/workingCopyBackupTracker.ts:82`)
and `onWillShutdown`, when the window is as good as gone and the model takes no
event; a shutdown before the backups of the start were resolved (line 423, which
then discards nothing: the model starts with a ready tracker); unrestored backups
at the shutdown, for which `discardBackups` does use the queues
(`workingCopyBackupService.ts:314`; with one working copy there are none), and a
folder that cannot be deleted. `Reverted` of that module takes the file's text,
what revert is meant to do; that a stored file's revert may read nothing is the
finding `stored_file_revert`.

The repository has more than a million lines, most of them user interface,
language features and data structures; the map covers the parts above and so a
small share of it. Every part is listed under `components` with its reason.

## 7. Plan

Modules in the order in which they were or will be written:

1. *Done.* BufferedEmitter, ProtocolStream, PersistentProtocol over
   ReliableChannel, IpcChannels, Storage over SnapshotStore, StorageFile,
   StoredFileWorkingCopy, WorkingCopyBackups, and the proofs of section 4.
2. **SharedStorage**: the storages of windows and main process, whose changes
   travel as debounced events over the channel; convergence once writing stops,
   no echo of a change to its author.
3. **RemoteSession**: permanent failures of all connections of a window, and
   the server's session tables, grace timers and their shortening; composes with
   PersistentProtocol's reconnection.
4. The composition of StoredFileWorkingCopy with WorkingCopyBackups, in place of
   the latter's reduced working copy; StorageFile under Storage, refining its
   `Reopen` and `CloseDatabase`.
5. **ExtensionHostRpc**, **UndoRedo**, **EditorGroupModel**.

Runs are merged where one instance answers several questions, so that the number
of runs stays small as modules are added.
