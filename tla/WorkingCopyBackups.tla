------------------------- MODULE WorkingCopyBackups -------------------------
(***************************************************************************)
(* The backups of a working copy (hot exit): the WorkingCopyBackupTracker  *)
(* and its native shutdown handling, and the WorkingCopyBackupService with *)
(* its model of the backups on disk and its queue of file operations, of   *)
(* workbench/services/workingCopy.                                         *)
(*                                                                         *)
(* The working copy itself is reduced to the events it sends.  A token     *)
(* that is cancelled before the file operation of its backup or discard    *)
(* has begun makes the operation return: it is dropped here.  One that has *)
(* begun ends in any case, and so may one stand behind the other: the      *)
(* operation that is pending, and the one that io is busy with.            *)
(***************************************************************************)
EXTENDS Naturals

CONSTANTS
    None,
    MaxEvents      \* bound: edits, saves, reverts, shutdowns, failures and crashes

ASSUME MaxEventsAssumption == MaxEvents \in Nat

\* An operation of the tracker with what it is about, a backup file, and what
\* the model of the backups knows of one.
Operations ==
    [kind : {"backup", "discard"}, phase : {"timer", "snapshot", "queue"}, final : BOOLEAN,
     text : Nat, version : Nat, meta : Nat]
Backups == [text : Nat, meta : Nat]
Entries == [version : Nat, meta : Nat]

ASSUME NoneAssumption == None \notin Operations \cup Backups \cup Entries

VARIABLES
    text, dirty,      \* the working copy: its content, isModified
    file,             \* the file: its text and its metadata
    stat,             \* the metadata of the working copy's last resolve or save
    hidden,           \* a revert has cleared dirty and will tell when its read is over
    contentVersion,   \* mapWorkingCopyToContentVersion
    pending,          \* what pendingBackupOperations holds as long as no file is touched, or None
    io,               \* the operation of ioOperationQueues under way, or None
    backup,           \* the backup file, None if there is none
    entry,            \* WorkingCopyBackupsModel.cache: its versionId and meta, or None
    shutdown,         \* how far onFinalBeforeShutdown is; "no" if it is not under way
    fresh, events,
    missed,           \* history: an operation was cancelled or an event ignored, and nothing since
    doomed,           \* history: a backup was found in the model that is being deleted
    late              \* history: there were changes while the shutdown was handled, or it was forced

copy == <<text, dirty, file, stat, hidden, contentVersion>>
vars == <<copy, pending, io, backup, entry, shutdown, fresh, events, missed, doomed, late>>

\* A backup file that was truncated and not written.
Corrupt == [text |-> 0, meta |-> 0]

Init ==
    /\ text = 1 /\ dirty = FALSE /\ file = [text |-> 1, meta |-> 1] /\ stat = 1 /\ hidden = FALSE
    /\ contentVersion = 0
    /\ pending = None /\ io = None /\ backup = None /\ entry = None
    /\ shutdown = "no"
    /\ fresh = 1 /\ events = 0
    /\ missed = FALSE /\ doomed = FALSE /\ late = FALSE

Event == events < MaxEvents /\ events' = events + 1

\* suspended: from onFinalBeforeShutdown until a veto, and from onWillShutdown on.
Suspended == shutdown # "no"

-----------------------------------------------------------------------------
(* The tracker listens to the working copy *)

\* An operation; final is one of the shutdown handling.
Operation(kind, phase, final) ==
    [kind |-> kind, phase |-> phase, final |-> final, text |-> text', version |-> contentVersion', meta |-> stat']

\* The same operation in a later phase, under another version, or no longer
\* waited for by a shutdown.
InPhase(op, phase) == [op EXCEPT !.phase = phase]
UnderVersion(op, version) == [op EXCEPT !.version = version]
NotFinal(op) == [op EXCEPT !.final = FALSE]

\* Mutant: a working copy that is dirty already is not scheduled again.
OnDidChangeOnce(modified) ==
    /\ late' = (late \/ Suspended)
    /\ missed' = (missed \/ Suspended)
    /\ pending' = IF modified /\ dirty THEN None
                  ELSE IF modified THEN Operation("backup", "timer", FALSE)
                  ELSE Operation("discard", "queue", FALSE)

\* Mutant: nothing is discarded that the model does not know.
OnDidChangeKnown(modified) ==
    /\ late' = (late \/ Suspended)
    /\ missed' = (missed \/ Suspended)
    /\ pending' = IF modified THEN Operation("backup", "timer", FALSE)
                  ELSE IF entry = None THEN None ELSE Operation("discard", "queue", FALSE)

\* scheduleBackup or discardBackup, unless suspended.  Either cancels what is pending.
OnDidChange(modified) ==
    /\ late' = (late \/ Suspended)
    /\ IF Suspended THEN missed' = TRUE /\ UNCHANGED pending
       ELSE /\ pending' = IF modified THEN Operation("backup", "timer", FALSE) ELSE Operation("discard", "queue", FALSE)
            /\ missed' = FALSE

\* The user types: onDidChangeDirty and onDidChangeContent.
Edit ==
    /\ Event
    /\ shutdown # "gone"
    /\ fresh' = fresh + 1
    /\ text' = fresh + 1
    /\ dirty' = TRUE
    /\ contentVersion' = contentVersion + 1
    /\ UNCHANGED <<file, stat, hidden, io, backup, entry, shutdown, doomed>>
    /\ OnDidChange(TRUE)

\* The user undoes all edits: dirty is cleared, then the content changes.
Undo ==
    /\ Event
    /\ shutdown # "gone" /\ dirty /\ ~hidden
    /\ text' = file.text
    /\ dirty' = FALSE
    /\ contentVersion' = contentVersion + 1
    /\ UNCHANGED <<file, stat, hidden, io, backup, entry, shutdown, fresh, doomed>>
    /\ OnDidChange(FALSE)

Save ==
    /\ Event
    /\ shutdown # "gone" /\ dirty /\ ~hidden
    /\ fresh' = fresh + 1
    /\ file' = [text |-> text, meta |-> fresh + 1] /\ stat' = fresh + 1
    /\ dirty' = FALSE
    /\ UNCHANGED <<text, hidden, contentVersion, io, backup, entry, shutdown, doomed>>
    /\ OnDidChange(FALSE)

\* revert({ soft: true }), before the file is moved.
SoftRevert ==
    /\ Event
    /\ shutdown # "gone" /\ dirty /\ ~hidden
    /\ dirty' = FALSE
    /\ UNCHANGED <<text, file, stat, hidden, contentVersion, io, backup, entry, shutdown, fresh, doomed>>
    /\ OnDidChange(FALSE)

\* markModified, when the move has failed.
MarkModified ==
    /\ Event
    /\ shutdown # "gone" /\ ~dirty /\ ~hidden
    /\ dirty' = TRUE
    /\ UNCHANGED <<text, file, stat, hidden, contentVersion, io, backup, entry, shutdown, fresh, doomed>>
    /\ OnDidChange(TRUE)

\* revert clears dirty, and sends no event before it has read the file.
Revert ==
    /\ Event
    /\ shutdown # "gone" /\ dirty /\ ~hidden
    /\ dirty' = FALSE /\ hidden' = TRUE
    /\ UNCHANGED <<text, file, stat, contentVersion, pending, io, backup, entry, shutdown, fresh, missed, doomed, late>>

\* The file is read, unless there were edits meanwhile.
Reverted ==
    /\ hidden /\ shutdown # "gone"
    /\ hidden' = FALSE
    /\ IF dirty THEN UNCHANGED <<text, contentVersion>>
       ELSE text' = file.text /\ contentVersion' = contentVersion + 1
    /\ UNCHANGED <<dirty, file, stat, io, backup, entry, shutdown, fresh, events, doomed>>
    /\ OnDidChange(dirty)

\* undoSetDirty, of which nobody hears.
RevertFails ==
    /\ Event
    /\ hidden /\ shutdown # "gone"
    /\ hidden' = FALSE /\ dirty' = TRUE
    /\ missed' = TRUE
    /\ late' = (late \/ Suspended)
    /\ UNCHANGED <<text, file, stat, contentVersion, pending, io, backup, entry, shutdown, fresh, doomed>>

-----------------------------------------------------------------------------
(* The operations of tracker and service *)

\* WorkingCopyBackupsModel.has, with and without metadata.
HasVersion(op) == entry # None /\ entry.version = op.version
HasMeta(op) == HasVersion(op) /\ entry.meta = op.meta

\* What the model tells of the backup is about to be untrue.
Deleting == io # None /\ io.kind = "discard"

\* The timer of scheduleBackup: workingCopy.backup is asked for a snapshot.
TimerFires ==
    /\ pending # None /\ pending.phase = "timer"
    /\ UNCHANGED <<copy, io, backup, entry, shutdown, fresh, events, missed, doomed, late>>
    /\ pending' = IF dirty THEN Operation("backup", "snapshot", FALSE) ELSE None

\* The pending operation is over without having touched a file; the one of
\* a shutdown has found the backup that it wants.
NothingToDo == pending' = None /\ shutdown' = IF pending.final THEN "gone" ELSE shutdown

\* WorkingCopyBackupService.backup returns early.
BackupExists(op) == op.kind = "backup" /\ HasMeta(op)

\* The snapshot is there: the service is asked to back up the content under
\* the version of now, that is the version of the snapshot since any other
\* change has cancelled the operation.  A shutdown asks for the version that
\* it saw when it began.
SnapshotDone ==
    /\ pending # None /\ pending.phase = "snapshot"
    /\ UNCHANGED <<copy, io, backup, entry, fresh, events, missed, late>>
    /\ LET op == IF pending.final THEN pending ELSE UnderVersion(pending, contentVersion)
       IN IF BackupExists(op) \/ (~dirty /\ ~op.final)
          THEN NothingToDo /\ doomed' = (doomed \/ (dirty /\ Deleting))
          ELSE pending' = InPhase(op, "queue") /\ UNCHANGED <<shutdown, doomed>>

\* The queue of the file reaches the operation.
Begin ==
    /\ pending # None /\ pending.phase = "queue" /\ io = None
    /\ IF BackupExists(pending)
       THEN NothingToDo /\ UNCHANGED io
       ELSE io' = pending /\ pending' = None /\ UNCHANGED shutdown
    /\ UNCHANGED <<copy, backup, entry, fresh, events, missed, doomed, late>>

\* Mutant: the version is that of the content when the write is over.
EntryOfNow(op) == [version |-> contentVersion, meta |-> op.meta]

\* WorkingCopyBackupsModel.add.
EntryOf(op) == [version |-> op.version, meta |-> op.meta]

\* The file is written or deleted, and the model knows, even if the
\* operation was cancelled meanwhile.
End ==
    /\ io # None
    /\ IF io.kind = "backup"
       THEN backup' = [text |-> io.text, meta |-> io.meta] /\ entry' = EntryOf(io)
       ELSE backup' = None /\ entry' = None
    /\ io' = None
    /\ shutdown' = IF io.final THEN "gone" ELSE shutdown
    /\ UNCHANGED <<copy, pending, fresh, events, missed, doomed, late>>

\* A shutdown that could not make its backup shows the error, and is vetoed
\* or forced.
ShutdownError ==
    \/ shutdown' = "no" /\ late' = FALSE
    \/ shutdown' = "gone" /\ late' = TRUE

\* There is no snapshot, which is logged.
SnapshotFails ==
    /\ Event
    /\ pending # None /\ pending.phase = "snapshot"
    /\ pending' = None
    /\ missed' = TRUE
    /\ IF pending.final THEN ShutdownError ELSE UNCHANGED <<shutdown, late>>
    /\ UNCHANGED <<copy, io, backup, entry, fresh, doomed>>

\* The file operation fails, and may have truncated the file; logged as well.
EndFails ==
    /\ Event
    /\ io # None
    /\ io' = None
    /\ missed' = TRUE
    /\ \/ io.kind = "backup" /\ backup' \in {backup, Corrupt}
          /\ IF io.final THEN ShutdownError ELSE UNCHANGED <<shutdown, late>>
       \/ io.kind = "discard" /\ backup' = backup
          /\ shutdown' = (IF io.final THEN "gone" ELSE shutdown) /\ UNCHANGED late
    /\ UNCHANGED <<copy, pending, entry, fresh, doomed>>

-----------------------------------------------------------------------------
(* Shutdown *)

\* Mutant: a backup of any version will do.
HasBackupSyncAny == entry # None

\* hasBackupSync for the version of now.
HasBackupSync == entry # None /\ entry.version = contentVersion

\* onFinalBeforeShutdown of a modified working copy, with hot exit: what is
\* pending is cancelled, and a backup is made unless the model knows one.
ShutdownHotExit ==
    /\ Event
    /\ ~Suspended /\ dirty
    /\ missed' = (missed \/ pending # None)
    /\ UNCHANGED <<copy, io, backup, entry, fresh, late>>
    /\ IF HasBackupSync
       THEN pending' = None /\ shutdown' = "gone" /\ doomed' = (doomed \/ Deleting)
       ELSE pending' = Operation("backup", "snapshot", TRUE) /\ shutdown' = "busy" /\ UNCHANGED doomed

\* The same without hot exit: the user is asked.
ShutdownConfirm ==
    /\ Event
    /\ ~Suspended /\ dirty
    /\ missed' = (missed \/ pending # None)
    /\ pending' = None
    /\ shutdown' = "confirm"
    /\ UNCHANGED <<copy, io, backup, entry, fresh, doomed, late>>

\* The user does not wait for the backup any longer: the token is cancelled
\* and he is asked.
StopWaiting ==
    /\ Event
    /\ shutdown = "busy" /\ dirty
    /\ pending' = None
    /\ io' = IF io # None THEN NotFinal(io) ELSE None
    /\ shutdown' = "confirm"
    /\ UNCHANGED <<copy, backup, entry, fresh, missed, doomed, late>>

\* Save or Don't Save: noVeto discards the backup.
ConfirmSaveOrRevert ==
    /\ shutdown = "confirm"
    /\ dirty' = FALSE
    /\ \/ file' = [text |-> text, meta |-> fresh + 1] /\ stat' = fresh + 1 /\ fresh' = fresh + 1
       \/ UNCHANGED <<file, stat, fresh>>
    /\ UNCHANGED <<text, hidden, contentVersion>>
    /\ pending' = Operation("discard", "queue", TRUE)
    /\ shutdown' = "busy"
    /\ UNCHANGED <<io, backup, entry, events, missed, doomed, late>>

\* Cancel, or the save has failed: the tracker resumes.
Veto ==
    /\ shutdown = "confirm"
    /\ shutdown' = "no"
    /\ late' = FALSE
    /\ UNCHANGED <<copy, pending, io, backup, entry, fresh, events, missed, doomed>>

\* onBeforeShutdownWithoutModified: discardBackups deletes the folder of the
\* backups at once, not in the queue of the file.
ShutdownUnmodified ==
    /\ Event
    /\ ~Suspended /\ ~dirty
    /\ missed' = (missed \/ pending # None)
    /\ pending' = None
    /\ backup' = None
    /\ shutdown' = "clear"
    /\ UNCHANGED <<copy, io, entry, fresh, doomed, late>>

\* model.clear, once the folder is deleted.
Clear ==
    /\ shutdown = "clear"
    /\ entry' = None
    /\ shutdown' = "gone"
    /\ UNCHANGED <<copy, pending, io, backup, fresh, events, missed, doomed, late>>

\* The model of the backups is read from the folder, without versions, and
\* the working copy is opened from its backup, if that is not corrupt.
Restart(b) ==
    /\ backup' = b
    /\ io' = None
    /\ IF b # None /\ b # Corrupt THEN text' = b.text /\ stat' = b.meta /\ dirty' = TRUE
       ELSE text' = file.text /\ stat' = file.meta /\ dirty' = FALSE
    /\ fresh' = fresh
    /\ entry' = IF b = None THEN None ELSE [version |-> 0, meta |-> b.meta]
    /\ file' = file /\ hidden' = FALSE /\ contentVersion' = 0
    /\ shutdown' = "no"
    /\ pending' = IF dirty' THEN Operation("backup", "timer", FALSE) ELSE None
    /\ missed' = FALSE /\ doomed' = FALSE /\ late' = FALSE

\* The window has closed: joinBackups has waited for the file operation.
Reopen == Event /\ shutdown = "gone" /\ io = None /\ Restart(backup)

\* A file operation may have begun or not, or be over.
Crash ==
    /\ Event
    /\ \/ Restart(backup)
       \/ io # None /\ io.kind = "backup" /\ (Restart(Corrupt) \/ Restart([text |-> io.text, meta |-> io.meta]))
       \/ io # None /\ io.kind = "discard" /\ Restart(None)

-----------------------------------------------------------------------------

Next ==
    \/ Edit \/ Undo \/ Save \/ SoftRevert \/ MarkModified \/ Revert \/ Reverted \/ RevertFails
    \/ TimerFires \/ SnapshotDone \/ Begin \/ End \/ SnapshotFails \/ EndFails
    \/ ShutdownHotExit \/ ShutdownConfirm \/ StopWaiting \/ ConfirmSaveOrRevert \/ Veto
    \/ ShutdownUnmodified \/ Clear \/ Reopen \/ Crash

\* Timers fire, and snapshots and the file system answer.
Fairness == WF_vars(TimerFires) /\ WF_vars(SnapshotDone) /\ WF_vars(Begin) /\ WF_vars(End)

Spec == Init /\ [][Next]_vars /\ Fairness

-----------------------------------------------------------------------------

TypeOK ==
    /\ text \in Nat /\ dirty \in BOOLEAN /\ hidden \in BOOLEAN
    /\ file \in Backups /\ stat \in Nat /\ contentVersion \in Nat
    /\ pending \in Operations \cup {None} /\ io \in Operations \cup {None}
    /\ backup \in Backups \cup {None} /\ entry \in Entries \cup {None}
    /\ shutdown \in {"no", "busy", "confirm", "clear", "gone"}
    /\ fresh \in Nat /\ events \in 0..MaxEvents
    /\ missed \in BOOLEAN /\ doomed \in BOOLEAN /\ late \in BOOLEAN

\* The tracker creates backups for modified working copies: the current text
\* of a dirty working copy is backed up after a while, whatever was being
\* written, deleted or cancelled before.  Left open: nobody has told the
\* tracker, or it did not listen (a shutdown that was vetoed); an operation
\* failed; the backup that the service found was being deleted.
EditsAreBackedUp ==
    (dirty /\ ~Suspended) ~>
        (~dirty \/ Suspended \/ missed \/ doomed \/ (backup # None /\ backup.text = text))

\* It deletes the backups of saved working copies: when all is done, a
\* working copy that is not dirty has no backup that could be restored.
NoStaleBackup ==
    ~dirty /\ ~hidden /\ ~Suspended /\ pending = None /\ io = None /\ ~missed => backup \in {None, Corrupt}

\* A window closes without asking only if the text that is not saved is in
\* the backup, apart from what was typed while the shutdown was handled, or it was forced.
HotExitKeepsText ==
    shutdown = "gone" /\ io = None /\ dirty /\ text # file.text /\ ~late /\ ~doomed
        => backup # None /\ backup.text = text

\* The version of the model is that of the content in the file, so that
\* backup and hasBackupSync may return early.
VersionTellsContent ==
    entry # None /\ entry.version = contentVersion /\ backup # Corrupt /\ shutdown # "clear"
        => backup # None /\ backup.text = text

\* "queue IO operations to ensure write/delete file order": a window that is
\* closed with nothing to save, while nothing changes, leaves no backup behind.
CleanExitLeavesNoBackup == shutdown = "gone" /\ io = None /\ ~dirty /\ ~hidden /\ ~late => backup = None

=============================================================================
