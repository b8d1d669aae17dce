----------------------------- MODULE StorageFile -----------------------------
(***************************************************************************)
(* SQLiteStorageDatabase of base/parts/storage/node/storage.ts on its two  *)
(* files, the database and its backup: how a process connects (retry when  *)
(* the file is locked, replacement by the backup, a database in memory as  *)
(* last resort) and how it closes (backup after a good session, a new      *)
(* database from the owner's items after a bad one).  Every call to the    *)
(* file system is a step, and a process may end between any two.           *)
(*                                                                         *)
(* A process may start while the one before it is not through with its     *)
(* close, as on a window reload.  Items are the set of the writes that are *)
(* in them: what matters is whether a write is still there.                *)
(***************************************************************************)
EXTENDS Naturals, FiniteSets

CONSTANTS
    Processes,
    MaxStarts,  \* bound: processes started
    MaxWrites,  \* bound: writes
    MaxFaults   \* bound: faults from one time that all is well to the next

ASSUME FileBounds == MaxStarts \in Nat /\ MaxWrites \in Nat /\ MaxFaults \in Nat

Writes == 1..MaxWrites

Missing == [kind |-> "missing", items |-> {}]

Corrupt == [kind |-> "corrupt", items |-> {}]

Holding(S) == [kind |-> "items", items |-> S]

\* What may be at a path.
Contents == {Missing, Corrupt} \cup {Holding(S) : S \in SUBSET Writes}

VARIABLES
    file,         \* what is at path
    backup,       \* what is at path.backup
    pc,           \* the await or call that each process is at
    retryOnBusy,  \* the argument of connect
    connection,   \* IDatabaseConnection: isErroneous, isInMemory, whether it is still the
                  \* file at path that is open, and otherwise what that held when it went
    items,        \* the owner's cache, which recovery returns
    closed,       \* history: the items of every close that succeeded
    blind,        \* history: items were never read, and the owner went on without
    faults,       \* history: faults since all was well; two are too many for good
    starts, writes

vars == <<file, backup, pc, retryOnBusy, connection, items, closed, blind, faults, starts, writes>>

Fresh == [isErroneous |-> FALSE, isInMemory |-> FALSE, attached |-> TRUE, held |-> {}]

InMemory == [isErroneous |-> FALSE, isInMemory |-> TRUE, attached |-> FALSE, held |-> {}]

\* Connection c after an error, and when its file is deleted that held S.
Erroneous(c) == [c EXCEPT !.isErroneous = TRUE]
Nameless(c, S) == [c EXCEPT !.attached = FALSE, !.held = S]

Init ==
    /\ file = Missing /\ backup = Missing
    /\ pc = [p \in Processes |-> "ended"]
    /\ retryOnBusy = [p \in Processes |-> TRUE]
    /\ connection = [p \in Processes |-> InMemory]
    /\ items = [p \in Processes |-> {}]
    /\ closed = {} /\ blind = FALSE
    /\ faults = 0 /\ starts = 0 /\ writes = 0

-----------------------------------------------------------------------------

Alive == {p \in Processes : pc[p] # "ended"}

Others(p) == Alive \ {p}

Goto(p, step) == pc' = [pc EXCEPT ![p] = step]

\* One more thing went wrong, if it is one.
Fault(isOne) ==
    /\ isOne => faults < MaxFaults
    /\ faults' = IF isOne THEN faults + 1 ELSE faults

\* A file at path is deleted: connections to it stay open, on a file that has
\* no name any more.
Detached ==
    [q \in Processes |-> IF connection[q].attached THEN Nameless(connection[q], file.items) ELSE connection[q]]

\* The connection's file is not corrupt.
Readable(p) == connection[p].attached => file # Corrupt

-----------------------------------------------------------------------------
(* connect *)

\* A SQLiteStorageDatabase is created.  It is a fault of the system around it
\* when another process has the file open.
Start(p) ==
    /\ pc[p] = "ended" /\ starts < MaxStarts
    /\ starts' = starts + 1
    /\ Goto(p, "opening")
    /\ retryOnBusy' = [retryOnBusy EXCEPT ![p] = TRUE]
    /\ Fault(Alive # {})
    /\ UNCHANGED <<file, backup, connection, items, closed, blind, writes>>

\* doConnect succeeds, with a new file if there is none.
Connect(p) ==
    /\ pc[p] \in {"opening", "reopening"} /\ file # Corrupt
    /\ Goto(p, "loading")
    /\ file' = IF file = Missing THEN Holding({}) ELSE file
    /\ connection' = [connection EXCEPT ![p] = Fresh]
    /\ UNCHANGED <<backup, retryOnBusy, items, closed, blind, faults, starts, writes>>

\* doConnect fails: on a corrupt file always.  The second failure leaves a
\* database in memory.
ConnectFails(p) ==
    /\ pc[p] \in {"opening", "reopening"}
    /\ Fault(file # Corrupt)
    /\ IF pc[p] = "opening"
       THEN Goto(p, "replacing") /\ UNCHANGED connection
       ELSE Goto(p, "loading") /\ connection' = [connection EXCEPT ![p] = InMemory]
    /\ UNCHANGED <<file, backup, retryOnBusy, items, closed, blind, starts, writes>>

\* doConnect fails with SQLITE_BUSY: another process is writing to the file.
\* The second time this counts as a fault, for the lock has lasted too long.
ConnectBusy(p) ==
    /\ pc[p] = "opening"
    /\ \E q \in Others(p) : pc[q] = "open" /\ connection[q].attached
    /\ Fault(~retryOnBusy[p])
    /\ Goto(p, IF retryOnBusy[p] THEN "waiting" ELSE "replacing")
    /\ UNCHANGED <<file, backup, retryOnBusy, connection, items, closed, blind, starts, writes>>

\* Mutant: the second attempt may wait again.
RetryAgain(p) ==
    /\ pc[p] = "waiting"
    /\ Goto(p, "opening")
    /\ UNCHANGED <<file, backup, retryOnBusy, connection, items, closed, blind, faults, starts, writes>>

\* BUSY_OPEN_TIMEOUT has passed.
Retry(p) ==
    /\ pc[p] = "waiting"
    /\ Goto(p, "opening")
    /\ retryOnBusy' = [retryOnBusy EXCEPT ![p] = FALSE]
    /\ UNCHANGED <<file, backup, connection, items, closed, blind, faults, starts, writes>>

\* unlink of the file that cannot be opened.
Unlink(p) ==
    /\ pc[p] = "replacing" /\ file # Missing
    /\ Goto(p, "unlinked")
    /\ file' = Missing
    /\ connection' = Detached
    /\ UNCHANGED <<backup, retryOnBusy, items, closed, blind, faults, starts, writes>>

\* unlink fails: a database in memory.
UnlinkFails(p) ==
    /\ pc[p] = "replacing"
    /\ Fault(file # Missing)
    /\ Goto(p, "loading")
    /\ connection' = [connection EXCEPT ![p] = InMemory]
    /\ UNCHANGED <<file, backup, retryOnBusy, items, closed, blind, starts, writes>>

\* rename of the backup.
RenameBackup(p) ==
    /\ pc[p] = "unlinked" /\ backup # Missing
    /\ Goto(p, "reopening")
    /\ file' = backup
    /\ backup' = Missing
    /\ UNCHANGED <<retryOnBusy, connection, items, closed, blind, faults, starts, writes>>

\* rename fails, which is ignored; it always does without a backup.
RenameFails(p) ==
    /\ pc[p] = "unlinked"
    /\ Fault(backup # Missing)
    /\ Goto(p, "reopening")
    /\ UNCHANGED <<file, backup, retryOnBusy, connection, items, closed, blind, starts, writes>>

-----------------------------------------------------------------------------
(* The session *)

\* getItems.
Load(p) ==
    /\ pc[p] = "loading" /\ Readable(p)
    /\ Goto(p, "open")
    /\ items' = [items EXCEPT ![p] = IF connection[p].attached THEN file.items ELSE connection[p].held]
    /\ UNCHANGED <<file, backup, retryOnBusy, connection, closed, blind, faults, starts, writes>>

\* getItems fails; the owner goes on without items.
LoadFails(p) ==
    /\ pc[p] = "loading" /\ ~connection[p].isInMemory
    /\ Fault(Readable(p))
    /\ Goto(p, "open")
    /\ items' = [items EXCEPT ![p] = {}]
    /\ connection' = [connection EXCEPT ![p] = Erroneous(@)]
    /\ blind' = TRUE
    /\ UNCHANGED <<file, backup, retryOnBusy, closed, starts, writes>>

\* updateItems: one transaction.  A file without a name takes it too.
Update(p) ==
    /\ pc[p] = "open" /\ writes < MaxWrites /\ Readable(p)
    /\ writes' = writes + 1
    /\ items' = [items EXCEPT ![p] = @ \cup {writes + 1}]
    /\ file' = IF connection[p].attached THEN Holding(file.items \cup {writes + 1}) ELSE file
    /\ UNCHANGED <<backup, pc, retryOnBusy, connection, closed, blind, faults, starts>>

\* updateItems meets an error, perhaps because the file has become corrupt.
UpdateFails(p) ==
    /\ pc[p] = "open" /\ writes < MaxWrites /\ ~connection[p].isInMemory
    /\ Fault(Readable(p))
    /\ writes' = writes + 1
    /\ items' = [items EXCEPT ![p] = @ \cup {writes + 1}]
    /\ connection' = [connection EXCEPT ![p] = Erroneous(@)]
    /\ file' \in IF connection[p].attached THEN {file, Corrupt} ELSE {file}
    /\ UNCHANGED <<backup, pc, retryOnBusy, closed, blind, starts>>

-----------------------------------------------------------------------------
(* doClose *)

\* Mutant: a backup is made of every database that is a file.
CloseAlwaysCopies(p) ==
    /\ pc[p] = "open"
    /\ Goto(p, IF connection[p].isInMemory THEN "recovering" ELSE "copying")
    /\ UNCHANGED <<file, backup, retryOnBusy, connection, items, closed, blind, faults, starts, writes>>

\* close, and the connection closes without an error.
Close(p) ==
    /\ pc[p] = "open"
    /\ Goto(p, IF ~connection[p].isErroneous /\ ~connection[p].isInMemory THEN "copying" ELSE "recovering")
    /\ UNCHANGED <<file, backup, retryOnBusy, connection, items, closed, blind, faults, starts, writes>>

\* The connection closes with an error, which makes it erroneous.
CloseFails(p) ==
    /\ pc[p] = "open" /\ ~connection[p].isErroneous
    /\ Fault(TRUE)
    /\ Goto(p, "recovering")
    /\ connection' = [connection EXCEPT ![p] = Erroneous(@)]
    /\ UNCHANGED <<file, backup, retryOnBusy, items, closed, blind, starts, writes>>

\* backup: the copy starts with an empty target.
BeginCopy(p) ==
    /\ pc[p] = "copying" /\ file # Missing
    /\ Goto(p, "copied")
    /\ backup' = Corrupt
    /\ UNCHANGED <<file, retryOnBusy, connection, items, closed, blind, faults, starts, writes>>

\* The copy is complete and close resolves.  If another process writes to the
\* file at the same time, the copy may be worth nothing.
EndCopy(p) ==
    /\ pc[p] = "copied"
    /\ Goto(p, "ended")
    /\ backup' \in IF Others(p) = {} THEN {file} ELSE {file, Corrupt}
    /\ closed' = closed \cup items[p]
    /\ faults' = IF Others(p) = {} /\ faults <= 1 THEN 0 ELSE faults
    /\ UNCHANGED <<file, retryOnBusy, connection, items, blind, starts, writes>>

\* The copy fails, before or after it has emptied its target; close resolves.
CopyFails(p) ==
    /\ pc[p] \in {"copying", "copied"}
    /\ Fault(file # Missing)
    /\ Goto(p, "ended")
    /\ closed' = closed \cup items[p]
    /\ UNCHANGED <<file, backup, retryOnBusy, connection, items, blind, starts, writes>>

\* Recovery deletes the database.
RecoveryUnlink(p) ==
    /\ pc[p] = "recovering" /\ file # Missing
    /\ Goto(p, "recreating")
    /\ file' = Missing
    /\ connection' = Detached
    /\ UNCHANGED <<backup, retryOnBusy, items, closed, blind, faults, starts, writes>>

\* Recovery opens a new one.
RecoveryConnect(p) ==
    /\ pc[p] = "recreating" /\ file # Corrupt
    /\ Goto(p, "restoring")
    /\ file' = IF file = Missing THEN Holding({}) ELSE file
    /\ connection' = [connection EXCEPT ![p] = Fresh]
    /\ UNCHANGED <<backup, retryOnBusy, items, closed, blind, faults, starts, writes>>

\* Recovery stores all items, and closes the new connection.
RecoveryUpdate(p) ==
    /\ pc[p] = "restoring" /\ Readable(p)
    /\ Goto(p, "copying")
    /\ file' = IF connection[p].attached THEN Holding(file.items \cup items[p]) ELSE file
    /\ UNCHANGED <<backup, retryOnBusy, connection, items, closed, blind, faults, starts, writes>>

\* A step of recovery fails and close rejects; deleting a file that is not
\* there always does.
RecoveryFails(p) ==
    /\ pc[p] \in {"recovering", "recreating", "restoring"}
    /\ Fault(~(pc[p] = "recovering" /\ file = Missing))
    /\ Goto(p, "ended")
    /\ UNCHANGED <<file, backup, retryOnBusy, connection, items, closed, blind, starts, writes>>

-----------------------------------------------------------------------------
(* The world around *)

\* A process is killed, or the machine stops.
Crash(p) ==
    /\ pc[p] # "ended"
    /\ Fault(TRUE)
    /\ Goto(p, "ended")
    /\ UNCHANGED <<file, backup, retryOnBusy, connection, items, closed, blind, starts, writes>>

\* A file goes bad that nobody has open.
GoesBad ==
    /\ Alive = {}
    /\ Fault(TRUE)
    /\ \/ file.kind = "items" /\ file' = Corrupt /\ UNCHANGED backup
       \/ backup.kind = "items" /\ backup' = Corrupt /\ UNCHANGED file
    /\ UNCHANGED <<pc, retryOnBusy, connection, items, closed, blind, starts, writes>>

-----------------------------------------------------------------------------

Connecting(p) ==
    \/ Connect(p) \/ ConnectFails(p) \/ ConnectBusy(p) \/ Retry(p)
    \/ Unlink(p) \/ UnlinkFails(p) \/ RenameBackup(p) \/ RenameFails(p)
    \/ Load(p) \/ LoadFails(p)

Closing(p) ==
    \/ BeginCopy(p) \/ EndCopy(p) \/ CopyFails(p)
    \/ RecoveryUnlink(p) \/ RecoveryConnect(p) \/ RecoveryUpdate(p) \/ RecoveryFails(p)

Next ==
    \/ \E p \in Processes :
        \/ Start(p) \/ Connecting(p)
        \/ Update(p) \/ UpdateFails(p)
        \/ Close(p) \/ CloseFails(p) \/ Closing(p)
        \/ Crash(p)
    \/ GoesBad

\* Every call is answered, one way or the other.
Fairness == \A p \in Processes : WF_vars(Connecting(p)) /\ WF_vars(Closing(p))

Spec == Init /\ [][Next]_vars /\ Fairness

-----------------------------------------------------------------------------
(* Properties *)

TypeOK ==
    /\ file \in Contents /\ backup \in Contents
    /\ pc \in [Processes -> {"opening", "waiting", "replacing", "unlinked", "reopening", "loading", "open",
                             "copying", "copied", "recovering", "recreating", "restoring", "ended"}]
    /\ retryOnBusy \in [Processes -> BOOLEAN]
    /\ connection \in [Processes -> [isErroneous : BOOLEAN, isInMemory : BOOLEAN, attached : BOOLEAN,
                                     held : SUBSET Writes]]
    /\ items \in [Processes -> SUBSET Writes]
    /\ closed \subseteq Writes /\ blind \in BOOLEAN
    /\ faults \in 0..MaxFaults /\ starts \in 0..MaxStarts /\ writes \in 0..MaxWrites

\* What connect finds when it starts, if nothing fails.
NextLoad ==
    CASE file.kind = "items" -> file.items
      [] file = Corrupt /\ backup.kind = "items" -> backup.items
      [] OTHER -> {}

\* One fault does not lose what a close has stored: between processes the next
\* one will find it.  Only an owner that never read its items is a danger by
\* itself.
SurvivesOneFault ==
    Alive = {} /\ faults <= 1 /\ ~blind => closed \subseteq NextLoad

\* Both connect and close end, whatever fails and however long another process
\* keeps the file locked ("so that we always have a valid DB to talk to").
CallsEnd == \A p \in Processes :
    pc[p] \notin {"open", "ended"} ~> pc[p] \in {"open", "ended"}

=============================================================================
