------------------------------- MODULE Storage -------------------------------
(***************************************************************************)
(* The key-value storage of base/parts/storage/common/storage.ts over a    *)
(* database (node/storage.ts), with the ThrottledDelayer of                *)
(* base/common/async.ts that its flushes go through.                       *)
(*                                                                         *)
(* set and delete change the cache, note the change as pending and trigger *)
(* the delayer.  When its timer runs, the throttler starts flushPending,   *)
(* or keeps it in its one-place queue while another one is active.  The    *)
(* promises of all these calls are followed to the end: a waiter is the    *)
(* key that was written, or the call of flush or close.                    *)
(*                                                                         *)
(* The timer of the delayer resolves a promise whose then-callback runs    *)
(* next, so both are one action; so are the callbacks that run when the    *)
(* active promise of the throttler settles.                                *)
(***************************************************************************)
EXTENDS Integers, Sequences, FiniteSets

CONSTANTS
    Keys,
    Values,
    None,
    Early,        \* the storage is written to before its items are loaded
    MaxWrites,    \* bound: changes
    MaxFailures,  \* bound: failures of the database
    MaxOpens      \* bound: how often the storage is opened again

ASSUME StorageBounds ==
    /\ IsFiniteSet(Keys) /\ {"flush", "close"} \cap Keys = {}
    /\ None \notin Values
    /\ Early \in BOOLEAN
    /\ MaxWrites \in Nat /\ MaxFailures \in Nat /\ MaxOpens \in Nat

Items == [Keys -> Values \cup {None}]

NoItems == [k \in Keys |-> None]

Waiters == Keys \cup {"flush", "close"}

\* IUpdateRequest.
Updates == [insert : Items, delete : SUBSET Keys]

NoUpdate == [insert |-> NoItems, delete |-> {}]

VARIABLES
    state,         \* Storage.state
    loading,       \* init waits for database.getItems
    cache,         \* Storage.cache
    pending,       \* Storage.pendingInserts and pendingDeletes
    callbacks,     \* Storage.whenFlushedCallbacks is not empty
    delayed,       \* waiters of the delayer's completionPromise; its timer runs while there are any
    active,        \* waiters of Throttler.activePromise
    chained,       \* the active run was the queued one
    queued,        \* waiters of Throttler.queuedPromise
    hung,          \* waiters of promises that nothing will settle
    update,        \* the request that database.updateItems works on, for the active promise
    closing,       \* how far doClose has come
    disk,          \* the items in the database
    isErroneous,   \* the connection's isErroneous
    overwritten,   \* history: keys whose change was lost from the cache by the load
    hasty,         \* history: changes were made before the items were loaded
    views,         \* history: what is stored, and the contents of the cache since then
    taken,         \* history: the view that the current update will store
    writes, failures, opens

storage  == <<state, loading, cache, pending, callbacks>>
delayer  == <<delayed, active, chained, queued, hung>>
database == <<update, disk, isErroneous>>
history  == <<overwritten, hasty, views, taken>>
bounds   == <<writes, failures, opens>>
vars     == <<storage, delayer, database, closing, history, bounds>>

\* Some items exist already.
Init ==
    /\ state = "None" /\ loading = FALSE
    /\ cache = NoItems /\ pending = NoUpdate /\ callbacks = FALSE
    /\ delayed = {} /\ active = {} /\ chained = FALSE /\ queued = {} /\ hung = {}
    /\ disk \in Items
    /\ update = NoUpdate /\ isErroneous = FALSE
    /\ closing = "no"
    /\ overwritten = {} /\ hasty = FALSE
    /\ views = <<disk>> /\ taken = 1
    /\ writes = 0 /\ failures = 0 /\ opens = 0

-----------------------------------------------------------------------------

\* doUpdateItems: inserts, then deletes.
Apply(request, items) ==
    [k \in Keys |-> IF k \in request.delete THEN None
                    ELSE IF request.insert[k] # None THEN request.insert[k] ELSE items[k]]

HasPending == pending # NoUpdate

\* Throttler.activePromise is not null.
Running == update # NoUpdate

Ready == state = "Initialized" /\ ~loading

\* Callers may be early: StorageMain replaces its storage without waiting for
\* init.
Usable == Ready \/ (Early /\ state # "Closed")

-----------------------------------------------------------------------------
(* Storage *)

\* init.
InitStorage ==
    /\ state = "None"
    /\ state' = "Initialized"
    /\ loading' = TRUE
    /\ UNCHANGED <<cache, pending, callbacks, delayer, database, closing, history, bounds>>

\* database.getItems answers: the cache is replaced, whatever it has become.
Loaded ==
    /\ loading
    /\ loading' = FALSE
    /\ cache' = disk
    /\ overwritten' = {k \in Keys : Apply(pending, Apply(update, disk))[k] # disk[k]}
    /\ UNCHANGED <<state, pending, callbacks, delayer, database, closing,
                   hasty, views, taken, bounds>>

\* database.getItems fails; whoever called init goes on.
LoadFails ==
    /\ loading /\ failures < MaxFailures
    /\ loading' = FALSE
    /\ isErroneous' = TRUE
    /\ failures' = failures + 1
    /\ UNCHANGED <<state, cache, pending, callbacks, delayer, update, disk, closing,
                   history, writes, opens>>

\* A change is in the cache and pending: the common end of set and delete.
Changed(k) ==
    /\ writes < MaxWrites
    /\ writes' = writes + 1
    /\ delayed' = delayed \cup {k}
    /\ overwritten' = overwritten \ {k}
    /\ hasty' = (hasty \/ ~Ready)
    /\ views' = Append(views, cache')
    /\ UNCHANGED <<state, loading, callbacks, active, chained, queued, hung,
                   database, closing, taken, failures, opens>>

\* Mutant: a pending delete survives.
SetKeepDelete(k, v) ==
    /\ Usable
    /\ cache[k] # v
    /\ cache' = [cache EXCEPT ![k] = v]
    /\ pending' = [pending EXCEPT !.insert[k] = v]
    /\ Changed(k)

\* set with a value; nothing happens when the cache has it already.
Set(k, v) ==
    /\ Usable
    /\ cache[k] # v
    /\ cache' = [cache EXCEPT ![k] = v]
    /\ pending' = [insert |-> [pending.insert EXCEPT ![k] = v], delete |-> pending.delete \ {k}]
    /\ Changed(k)

\* delete, and set with undefined or null.
Delete(k) ==
    /\ Usable
    /\ cache[k] # None
    /\ cache' = [cache EXCEPT ![k] = None]
    /\ pending' = [insert |-> [pending.insert EXCEPT ![k] = None], delete |-> pending.delete \cup {k}]
    /\ Changed(k)

\* flush.
Flush ==
    /\ Usable
    /\ delayed' = delayed \cup {"flush"}
    /\ UNCHANGED <<storage, active, chained, queued, hung, database, closing, history, bounds>>

\* whenFlushed, when it has to wait.
WhenFlushed ==
    /\ HasPending
    /\ callbacks' = TRUE
    /\ UNCHANGED <<state, loading, cache, pending, delayer, database, closing, history, bounds>>

\* close, doClose up to its first await; whoever closes has called init.
Close ==
    /\ closing = "no" /\ state # "None"
    /\ state' = "Closed"
    /\ closing' = "flushing"
    /\ delayed' = delayed \cup {"close"}
    /\ UNCHANGED <<loading, cache, pending, callbacks, active, chained, queued, hung,
                   database, history, bounds>>

-----------------------------------------------------------------------------
(* ThrottledDelayer *)

\* flushPending, run by the throttler for these waiters: what is pending goes
\* to the database.  With nothing pending it is over at once.
StartFlush(waiters, wasQueued, left) ==
    /\ update' = pending
    /\ pending' = NoUpdate
    /\ active' = IF HasPending THEN waiters ELSE {}
    /\ chained' = (HasPending /\ wasQueued)
    /\ taken' = IF HasPending THEN Len(left) ELSE 1

\* doClose goes on when the promise it waits for is among those that settle.
Resume(waiters) == closing' = IF "close" \in waiters THEN "closing" ELSE closing

\* Mutant: a run that is active is taken to include what came after it.
TimerFiresJoin ==
    /\ delayed # {}
    /\ delayed' = {}
    /\ IF Running
       THEN /\ active' = active \cup delayed
            /\ UNCHANGED <<chained, queued, update, pending, taken, closing>>
       ELSE /\ StartFlush(delayed, FALSE, views)
            /\ Resume(IF HasPending THEN {} ELSE delayed)
            /\ UNCHANGED queued
    /\ UNCHANGED <<state, loading, cache, callbacks, hung, disk, isErroneous,
                   overwritten, hasty, views, bounds>>

\* The delayer's timer: Throttler.queue.
TimerFires ==
    /\ delayed # {}
    /\ delayed' = {}
    /\ IF Running
       THEN /\ queued' = queued \cup delayed
            /\ UNCHANGED <<active, chained, update, pending, taken, closing>>
       ELSE /\ StartFlush(delayed, FALSE, views)
            /\ Resume(IF HasPending THEN {} ELSE delayed)
            /\ UNCHANGED queued
    /\ UNCHANGED <<state, loading, cache, callbacks, hung, disk, isErroneous,
                   overwritten, hasty, views, bounds>>

\* Mutant: a queued run that has nothing to do does not settle.
SettledActive(rejected) == IF rejected /\ chained THEN {} ELSE active

\* What the active promise leaves when it settles: nothing passes on the
\* rejection of a run that was queued; the others' waiters go on, and with
\* them those of a queued run that has nothing to do.
Settled(rejected) ==
    (IF rejected /\ chained THEN {} ELSE active) \cup (IF HasPending THEN {} ELSE queued)

\* onComplete of Throttler.queue.
RunQueued(left) ==
    IF queued # {}
    THEN StartFlush(queued, TRUE, left)
    ELSE /\ update' = NoUpdate /\ active' = {} /\ chained' = FALSE /\ taken' = 1
         /\ UNCHANGED pending

\* Mutant: the callbacks of whenFlushed run although more is pending.
FinallyAlways(rejected) == callbacks' = FALSE

\* Mutant: the callbacks of whenFlushed run only after a success.
FinallyOnSuccess(rejected) == callbacks' = (callbacks /\ (HasPending \/ rejected))

\* The finally-callback of flushPending: when nothing more is pending, the
\* callbacks of whenFlushed run.
Finally(rejected) == callbacks' = (callbacks /\ HasPending)

\* updateItems has settled, rejected or not.
Settle(rejected, left) ==
    /\ Finally(rejected)
    /\ hung' = IF rejected /\ chained THEN hung \cup active ELSE hung
    /\ Resume(Settled(rejected))
    /\ queued' = {}
    /\ RunQueued(left)
    /\ views' = left

-----------------------------------------------------------------------------
(* The database *)

\* updateItems succeeds: one transaction.
UpdateSucceeds ==
    /\ Running
    /\ disk' = Apply(update, disk)
    /\ Settle(FALSE, SubSeq(views, taken, Len(views)))
    /\ UNCHANGED <<state, loading, cache, delayed, isErroneous, overwritten, hasty, bounds>>

\* The transaction fails as a whole and updateItems rejects.
UpdateFails ==
    /\ Running /\ failures < MaxFailures
    /\ failures' = failures + 1
    /\ isErroneous' = TRUE
    /\ Settle(TRUE, views)
    /\ UNCHANGED <<state, loading, cache, delayed, disk, overwritten, hasty, writes, opens>>

\* A statement fails and the transaction ends all the same: a part of the
\* request is stored, and updateItems resolves.
StatementFails ==
    /\ Running /\ failures < MaxFailures
    /\ failures' = failures + 1
    /\ isErroneous' = TRUE
    /\ \E part \in {[insert |-> NoItems, delete |-> update.delete], [insert |-> update.insert, delete |-> {}]} :
            disk' = Apply(part, disk)
    /\ Settle(FALSE, views)
    /\ UNCHANGED <<state, loading, cache, delayed, overwritten, hasty, writes, opens>>

\* Mutant: close does not recover.
CloseDatabaseUnrecovered ==
    /\ closing = "closing" /\ ~loading
    /\ closing' = "done"
    /\ UNCHANGED <<storage, delayer, database, history, bounds>>

\* database.close, after the queries before it: a connection that had errors
\* is replaced by a new one that gets all items of the cache.
CloseDatabase ==
    /\ closing = "closing" /\ ~loading
    /\ closing' = "done"
    /\ disk' = IF isErroneous THEN cache ELSE disk
    /\ UNCHANGED <<storage, delayer, update, isErroneous, history, bounds>>

\* Errors, and the database cannot be replaced: close rejects.
CloseDatabaseFails ==
    /\ closing = "closing" /\ ~loading
    /\ isErroneous
    /\ closing' = "failed"
    /\ UNCHANGED <<storage, delayer, database, history, bounds>>

\* Mutant: every statement is committed by itself.
CommittedTorn ==
    {disk, Apply([insert |-> update.insert, delete |-> {}], disk), Apply(update, disk)}

\* What the database may hold when the process ends during an update: the
\* statements are one transaction.
Committed == {disk, Apply(update, disk)}

\* The process ends, having closed the storage or not, before or after the
\* current transaction is committed; the next one opens the database.
Reopen ==
    /\ opens < MaxOpens
    /\ opens' = opens + 1
    /\ disk' \in IF Running THEN Committed ELSE {disk}
    /\ state' = "None" /\ loading' = FALSE
    /\ cache' = NoItems /\ pending' = NoUpdate /\ callbacks' = FALSE
    /\ delayed' = {} /\ active' = {} /\ chained' = FALSE /\ queued' = {} /\ hung' = {}
    /\ update' = NoUpdate /\ isErroneous' = FALSE
    /\ closing' = "no"
    /\ overwritten' = {} /\ hasty' = FALSE
    /\ views' = <<disk'>> /\ taken' = 1
    /\ UNCHANGED <<writes, failures>>

-----------------------------------------------------------------------------

Next ==
    \/ InitStorage \/ Loaded \/ LoadFails
    \/ \E k \in Keys : Delete(k) \/ \E v \in Values : Set(k, v)
    \/ Flush \/ WhenFlushed \/ Close
    \/ TimerFires
    \/ UpdateSucceeds \/ UpdateFails \/ StatementFails
    \/ CloseDatabase \/ CloseDatabaseFails
    \/ Reopen

\* Timers run, and the database answers every request.
Fairness ==
    /\ WF_vars(TimerFires)
    /\ WF_vars(Loaded \/ LoadFails)
    /\ WF_vars(UpdateSucceeds \/ UpdateFails \/ StatementFails)
    /\ WF_vars(CloseDatabase \/ CloseDatabaseFails)

Spec == Init /\ [][Next]_vars /\ Fairness

-----------------------------------------------------------------------------
(* Properties *)

TypeOK ==
    /\ state \in {"None", "Initialized", "Closed"}
    /\ loading \in BOOLEAN /\ callbacks \in BOOLEAN /\ chained \in BOOLEAN
    /\ isErroneous \in BOOLEAN
    /\ cache \in Items /\ disk \in Items
    /\ pending \in Updates /\ update \in Updates
    /\ delayed \subseteq Waiters /\ active \subseteq Waiters /\ queued \subseteq Waiters /\ hung \subseteq Waiters
    /\ closing \in {"no", "flushing", "closing", "done", "failed"}
    /\ overwritten \subseteq Keys /\ hasty \in BOOLEAN
    /\ views \in Seq(Items) /\ taken \in 1..Len(views)
    /\ writes \in 0..MaxWrites /\ failures \in 0..MaxFailures /\ opens \in 0..MaxOpens

\* The cache has been loaded and no error has been met since.
Healthy == state # "None" /\ ~loading /\ ~isErroneous

\* What is stored, with the update under way and then what is pending, makes
\* up what the owner sees in the cache.
CacheIsComing ==
    Healthy => \A k \in Keys \ overwritten : Apply(pending, Apply(update, disk))[k] = cache[k]

\* When the promises of all changes to a key have settled, the database has
\* what the cache has.
SettledIsStored ==
    Healthy => \A k \in Keys \ (overwritten \cup delayed \cup active \cup queued \cup hung) :
        disk[k] = cache[k]

\* Once close has succeeded, the database has what the cache had, whatever
\* has failed before.
ClosedIsComplete ==
    closing = "done" => \A k \in Keys \ overwritten : disk[k] = cache[k]

\* A step in which the callbacks of whenFlushed run leaves everything stored.
CallbacksRun ==
    callbacks /\ ~callbacks' /\ Healthy /\ Healthy' /\ opens' = opens
        => \A k \in Keys \ overwritten : disk'[k] = cache[k]

\* When the callbacks of whenFlushed run, everything is stored.
FlushedIsStored == [][CallbacksRun]_vars

\* The callbacks of whenFlushed run in the end, even if updates fail.
WhenFlushedReturns == callbacks ~> ~callbacks

\* "Trigger new flush to ensure data is persisted and then close even if there
\* is an error flushing": close ends.
CloseEnds == closing = "flushing" ~> closing # "flushing"

\* close ends unless the database has failed: the chain of promises that it
\* waits for always reaches it.
CloseEndsUnlessFailed == closing = "flushing" ~> closing # "flushing" \/ isErroneous

\* Nothing has happened since the storage was opened that spoils the views: no
\* error, and no change before the items were loaded.
Sound == ~isErroneous /\ ~hasty

Store == INSTANCE SnapshotStore
    WITH Items <- Items, views <- views, stored <- disk, broken <- ~Sound

\* As long as nothing fails and nobody writes too early, the database holds a
\* view that the cache had at one moment, and later ones as time goes on: a
\* crash does not leave a mixture.  After a failure this starts again with the
\* next process.
ImplementsStore == Store!Spec

=============================================================================
