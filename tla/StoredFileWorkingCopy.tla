----------------------- MODULE StoredFileWorkingCopy -----------------------
(***************************************************************************)
(* A resolved StoredFileWorkingCopy of workbench/services/workingCopy with *)
(* its save sequentializer (TaskSequentializer of base/common/async.ts),   *)
(* the resolves that its manager runs one after the other, and the dirty   *)
(* write prevention of platform/files/common/fileService.ts.               *)
(*                                                                         *)
(* Between two awaits a callback is one action, so the user may type, undo,*)
(* save and revert, and other programs may write the file, between any two *)
(* steps of a save or a resolve.  Texts, model versions and modification   *)
(* times are drawn from one counter; the size of a text is its parity, so  *)
(* that a foreign text may or may not have the size of the known one.      *)
(***************************************************************************)
EXTENDS Naturals, Sequences, FiniteSets

CONSTANTS
    None,
    MaxEvents     \* bound: edits, undos, calls of save and revert, reloads, cancelled saves,
                  \* failures of the file system and steps of other programs

ASSUME MaxEventsAssumption == MaxEvents \in Nat

\* How save is called: by auto save; by the user; with force, even if not
\* dirty; to overwrite a newer file (ignoreModifiedSince).
SaveOptions == {"auto", "explicit", "forced", "overwrite"}

\* How revert is called; forced is a hard one even if not dirty.
RevertOptions == {"hard", "soft", "forced"}

Size(text) == text % 2

\* A file: its text, its modification time, and whether this working copy
\* wrote it last and its call of writeFile has not failed: after an error the
\* working copy does not know what it has left on disk.
Files == [text : Nat, mtime : Nat, own : BOOLEAN]

\* An entry of the model's undo stack.
Versions == [version : Nat, text : Nat]

\* A save under way: the versionId and the snapshot that it is about, and the
\* stat that writeFile is asked to validate or has answered.
Saves ==
    [id : Nat, phase : {"throttled", "participants", "snapshot", "write", "stat", "written"},
     cancelled : BOOLEAN, text : Nat, stat : Files, overwrite : BOOLEAN]

\* A resolve under way, and a revert with the flags that it sets back.
Reads == [phase : {"read", "answer", "update"}, versionId : Nat, etag : Files, answer : Files \cup {None}]
Reverts == [was : BOOLEAN \X Nat \X BOOLEAN \X BOOLEAN, waits : BOOLEAN]

ASSUME NoneAssumption == None \notin Nat \cup SaveOptions \cup Files \cup Reads \cup Reverts

VARIABLES
    disk,            \* the file, or None if there is none
    model,           \* the model's undo stack of [version, text], the last is current
    versionId,       \* versionId
    dirty,           \* dirty
    savedVersionId,  \* savedVersionId
    inConflictMode,  \* inConflictMode
    inErrorMode,     \* inErrorMode
    stat,            \* lastResolvedFileStat: its mtime and the text whose size it has
    undone,          \* lastContentChangeFromUndoRedo was set
    saves,           \* saves under way
    running,         \* the taskId of TaskSequentializer._running, or None
    queued,          \* the options of TaskSequentializer._queued, or None
    resolving,       \* the resolve under way, or None
    reverting,       \* the revert under way, or None
    fresh,           \* the last number drawn
    events,
    seen,            \* history: texts that the model has had
    blind,           \* history: stat may stand for a text that the model never had
    stored,          \* history: the file as this working copy last wrote or read it
    outdated,        \* history: savedVersionId may stand for another text than stored's
    unmarked,        \* history: the current version is not known to be savedVersionId though not dirty
    promised         \* history: the last version that a call of save was accepted for, 0 if it is stored

content  == <<model, versionId, undone, seen>>
flags    == <<dirty, savedVersionId, inConflictMode, inErrorMode>>
saving   == <<saves, running, queued, promised>>
known    == <<blind, stored, outdated, unmarked>>
vars     == <<disk, content, flags, stat, saving, resolving, reverting, fresh, events, known>>

\* The working copy has been opened.
Init ==
    /\ disk = [text |-> 1, mtime |-> 1, own |-> TRUE]
    /\ model = <<[version |-> 1, text |-> 1]>>
    /\ versionId = 0
    /\ dirty = FALSE /\ savedVersionId = 1 /\ inConflictMode = FALSE /\ inErrorMode = FALSE
    /\ stat = disk
    /\ undone = FALSE
    /\ saves = {} /\ running = None /\ queued = None
    /\ resolving = None /\ reverting = None
    /\ fresh = 1
    /\ events = 0
    /\ seen = {1} /\ blind = FALSE /\ stored = disk /\ outdated = FALSE /\ unmarked = FALSE /\ promised = 0

Event == events < MaxEvents /\ events' = events + 1

-----------------------------------------------------------------------------
(* Dirty *)

Current(m) == m[Len(m)]

\* doSetDirty.
SetDirty(d, version) ==
    IF d THEN dirty' = TRUE /\ UNCHANGED <<savedVersionId, inConflictMode, inErrorMode>>
    ELSE dirty' = FALSE /\ savedVersionId' = version /\ inConflictMode' = FALSE /\ inErrorMode' = FALSE

\* ignoreDirtyOnModelContentChange: resolveFromContent awaits model.update.
Updating == resolving # None /\ resolving.phase = "update"

\* onModelContentChanged, m being the model's new stack.
ContentChanged(m) ==
    /\ Event
    /\ model' = m
    /\ versionId' = versionId + 1
    /\ seen' = seen \cup {Current(m).text}
    /\ unmarked' = Updating
    /\ IF Updating
       THEN outdated' = TRUE /\ UNCHANGED flags
       ELSE outdated' = outdated /\ SetDirty(Current(m).version # savedVersionId, savedVersionId)
    /\ UNCHANGED <<disk, stat, saving, resolving, reverting, blind, stored>>

\* The user types, or a save participant edits.
Edit ==
    /\ fresh' = fresh + 1
    /\ ContentChanged(Append(model, [version |-> fresh + 1, text |-> fresh + 1]))
    /\ UNCHANGED undone

Undo ==
    /\ Len(model) > 1
    /\ ContentChanged(SubSeq(model, 1, Len(model) - 1))
    /\ undone' = TRUE
    /\ UNCHANGED fresh

\* Mutant: the latest stat wins, even if it is older.
NewerStatLast(new) == new

\* updateLastResolvedFileStat.
NewerStat(new) == IF stat.mtime <= new.mtime THEN new ELSE stat

-----------------------------------------------------------------------------
(* Save *)

\* A save whose doSaveSequential begins now.
NewSave(option) ==
    [id |-> versionId, phase |-> IF option = "auto" /\ undone THEN "throttled" ELSE "participants",
     cancelled |-> FALSE, text |-> 0, stat |-> stat, overwrite |-> option = "overwrite"]

\* Save s in its next phase, and when it is cancelled.
InPhase(s, phase) == [s EXCEPT !.phase = phase]
Cancelled(s) == [s EXCEPT !.cancelled = TRUE]

\* ignoreSaveFromSaveParticipants.
InParticipants == \E s \in saves : s.phase = "participants"

\* save and doSave, as far as they do something.
Save(option) ==
    /\ Event
    /\ ~(option = "auto" /\ (inConflictMode \/ inErrorMode))
    /\ ~InParticipants
    /\ \/ /\ running = versionId
          /\ UNCHANGED <<saves, running, queued>>
       \/ /\ running # None /\ running # versionId
          /\ dirty \/ option = "forced"
          /\ saves' = {IF s.id = running THEN Cancelled(s) ELSE s : s \in saves}
          /\ queued' = option
          /\ UNCHANGED running
       \/ /\ running = None
          /\ dirty \/ option = "forced"
          /\ saves' = saves \cup {NewSave(option)}
          /\ running' = versionId
          /\ UNCHANGED queued
    /\ promised' = versionId
    /\ UNCHANGED <<disk, content, flags, stat, resolving, reverting, fresh, known>>

\* Mutant: the queued save is dropped when the running one is over.
DoneDropsQueued(s, kept) ==
    /\ saves' = saves \ {s}
    /\ running' = None
    /\ queued' = None
    /\ promised' = kept

\* doneRunning and runQueued once save s is over: the queued doSave starts,
\* or finds nothing to save.  kept is what is promised still.
Done(s, kept) ==
    IF running = s.id /\ queued # None /\ (dirty' \/ queued = "forced")
    THEN /\ saves' = (saves \ {s}) \cup {NewSave(queued)}
         /\ running' = versionId
         /\ queued' = None
         /\ promised' = kept
    ELSE /\ saves' = saves \ {s}
         /\ running' = IF running = s.id THEN None ELSE running
         /\ queued' = IF running = s.id THEN None ELSE queued
         /\ promised' = IF running = s.id /\ queued # None THEN 0 ELSE kept

\* What is promised once version id is stored, or given up.
Settled(id) == IF promised <= id THEN 0 ELSE promised

\* The time to the last undo is long enough.
ThrottleOver(s) ==
    /\ s.phase = "throttled"
    /\ saves' = (saves \ {s}) \cup {InPhase(s, "participants")}
    /\ UNCHANGED <<disk, content, flags, stat, running, queued, promised, resolving, reverting, fresh,
                   events, known>>

\* The user or a participant cancels the save.
CancelSave(s) ==
    /\ s.phase \in {"throttled", "participants", "snapshot"} /\ ~s.cancelled
    /\ Event
    /\ saves' = (saves \ {s}) \cup {Cancelled(s)}
    /\ promised' = Settled(s.id)
    /\ UNCHANGED <<disk, content, flags, stat, running, queued, resolving, reverting, fresh, known>>

\* The participants are over: the model is asked for a snapshot of what it
\* has become, and the task runs under the new version.
ParticipantsDone(s) ==
    /\ s.phase = "participants" /\ ~s.cancelled
    /\ saves' = (saves \ {s}) \cup
            {[id |-> versionId, phase |-> "snapshot", cancelled |-> FALSE, text |-> Current(model).text,
              stat |-> stat, overwrite |-> s.overwrite]}
    /\ running' = versionId
    /\ inErrorMode' = FALSE
    /\ UNCHANGED <<disk, content, dirty, savedVersionId, inConflictMode, stat, queued, promised,
                   resolving, reverting, fresh, events, known>>

\* A cancelled save returns early.  If no other save waits, the user has
\* cancelled it, for a call of save that joined it as well.
SaveCancelled(s) ==
    /\ s.phase \in {"participants", "snapshot"} /\ s.cancelled
    /\ UNCHANGED flags
    /\ Done(s, IF queued = None THEN Settled(s.id) ELSE promised)
    /\ UNCHANGED <<disk, content, stat, resolving, reverting, fresh, events, known>>

\* handleSaveError; with ignoreErrorHandler the error is only passed on to the
\* caller of save.
HandleSaveError(s, conflict) ==
    /\ \/ UNCHANGED flags
       \/ /\ dirty' = TRUE
          /\ inErrorMode' = TRUE
          /\ inConflictMode' = (inConflictMode \/ conflict)
          /\ UNCHANGED savedVersionId
    /\ Done(s, Settled(s.id))

\* Mutant: no file is ever found newer.
ModifiedSinceNever(s) == FALSE

\* validateWriteFile: the file is newer than the one the save knows, and of
\* another size.
ModifiedSince(s) ==
    /\ disk # None /\ ~s.overwrite
    /\ s.stat.mtime < disk.mtime
    /\ Size(disk.text) # Size(s.stat.text)

\* The snapshot is there, from now on the save cannot be cancelled, and
\* writeFile validates.
Validate(s) ==
    /\ s.phase = "snapshot" /\ ~s.cancelled
    /\ IF ModifiedSince(s)
       THEN HandleSaveError(s, TRUE)
       ELSE /\ saves' = (saves \ {s}) \cup {InPhase(s, "write")}
            /\ UNCHANGED <<flags, running, queued, promised>>
    /\ UNCHANGED <<disk, content, stat, resolving, reverting, fresh, events, known>>

\* A file as it is written now.
File(text, own) == [text |-> text, mtime |-> fresh + 1, own |-> own]

Write(s) ==
    /\ s.phase = "write"
    /\ fresh' = fresh + 1
    /\ disk' = File(s.text, TRUE)
    /\ stored' = disk'
    /\ outdated' = TRUE
    /\ saves' = (saves \ {s}) \cup {InPhase(s, "stat")}
    /\ UNCHANGED <<content, flags, stat, running, queued, promised, resolving, reverting, events, blind, unmarked>>

\* Save s with the stat that the file system has answered.
WithStat(s, file) == [s EXCEPT !.phase = "written", !.stat = file]

\* writeFile asks for the stat of whatever is on disk by now; there may be
\* no file any more.
StatAfterWrite(s) ==
    /\ s.phase = "stat"
    /\ IF disk = None
       THEN HandleSaveError(s, FALSE)
       ELSE /\ saves' = (saves \ {s}) \cup {WithStat(s, disk)}
            /\ UNCHANGED <<flags, running, queued, promised>>
    /\ UNCHANGED <<disk, content, stat, resolving, reverting, fresh, events, known>>

\* A file that this working copy has written and does not know the stat of.
Disowned(file) == [file EXCEPT !.own = FALSE]

\* The file system fails: before it has changed the file, after it has
\* truncated it, or when it is asked for the new stat.
WriteFails(s) ==
    /\ Event
    /\ \/ s.phase = "write" /\ UNCHANGED <<disk, stored, fresh, outdated>>
       \/ s.phase = "write" /\ fresh' = fresh + 1 /\ disk' = File(fresh + 1, FALSE) /\ stored' = disk' /\ outdated' = TRUE
       \/ s.phase = "stat" /\ disk # None /\ disk' = Disowned(disk) /\ UNCHANGED <<stored, fresh, outdated>>
    /\ HandleSaveError(s, FALSE)
    /\ UNCHANGED <<content, stat, resolving, reverting, blind, unmarked>>

\* Mutant: saved is saved, whatever has been typed meanwhile.
SavedVersionAny(s) == TRUE

\* handleSaveSuccess: the text that was saved is still the current one.
SavedVersion(s) == s.id = versionId

\* handleSaveSuccess.
HandleSaveSuccess(s) ==
    /\ s.phase = "written"
    /\ stat' = NewerStat(s.stat)
    /\ IF SavedVersion(s)
       THEN SetDirty(FALSE, Current(model).version) /\ outdated' = FALSE /\ unmarked' = FALSE
       ELSE UNCHANGED <<flags, outdated, unmarked>>
    /\ blind' = (blind \/ s.stat.text # s.text)
    /\ Done(s, Settled(s.id))
    /\ UNCHANGED <<disk, content, stored, resolving, reverting, fresh, events>>

-----------------------------------------------------------------------------
(* Resolve.  joinPendingResolves of the manager lets a resolve begin when  *)
(* the one before it is over.                                              *)

\* resolveFromFile with the version and the etag of now.
NewRead == [phase |-> "read", versionId |-> versionId', etag |-> stat', answer |-> None]

\* Resolve r once the file system has answered, and once the model is asked
\* to take the content.
Answered(r, file) == [r EXCEPT !.phase = "answer", !.answer = file]
Accepted(r) == [r EXCEPT !.phase = "update"]

\* The manager reloads the working copy, after a change of the file or when
\* it is asked to.
Resolve ==
    /\ Event
    /\ resolving = None /\ ~dirty /\ running = None
    /\ UNCHANGED <<disk, content, flags, stat, saving, reverting, fresh, known>>
    /\ resolving' = NewRead

\* readFileStream reads the stat and then the content.
Read ==
    /\ resolving # None /\ resolving.phase = "read"
    /\ resolving' = Answered(resolving, disk)
    /\ UNCHANGED <<disk, content, flags, stat, saving, reverting, fresh, events, known>>

\* Revert r once its own resolve has begun.
Resolving(r) == [r EXCEPT !.waits = FALSE]

\* The resolve is over without an error.  It was the one of a revert, or a
\* revert that waits for it continues: resolve returns early if the working
\* copy is dirty or being saved.
ResolveOver ==
    IF reverting # None /\ reverting.waits /\ ~dirty' /\ running = None
    THEN resolving' = NewRead /\ reverting' = Resolving(reverting)
    ELSE resolving' = None /\ reverting' = None

\* The resolve is over with an error: revert sets the flags back.  The error
\* of a reload is logged, and a revert that waits for it continues.
ResolveFailed ==
    IF reverting # None /\ ~reverting.waits
    THEN /\ dirty' = reverting.was[1] /\ savedVersionId' = reverting.was[2]
         /\ inConflictMode' = reverting.was[3] /\ inErrorMode' = reverting.was[4]
         /\ outdated' = TRUE
         /\ unmarked' = (Current(model).version # reverting.was[2])
         /\ resolving' = None
         /\ reverting' = None
    ELSE UNCHANGED <<flags, outdated, unmarked>> /\ ResolveOver

\* The file that resolve r has read has the etag that it was asked for.
NotModified(r) ==
    /\ r.answer # None
    /\ r.answer.mtime = r.etag.mtime /\ Size(r.answer.text) = Size(r.etag.text)

\* The read ignores the etag.  The manager passes reload.force on as
\* forceReadFromFile, and so drops the forceReadFromFile of forceResolveFromFile:
\* the read of a revert is never forced, another one may be.  (It makes no
\* difference until the file system answers.)
MayBeForced == reverting # None => reverting.waits

\* The answer of the read ends the resolve: there is no file (an error that
\* goes to the caller if the read was forced), it has the etag that is known,
\* or the content has changed meanwhile.
Unresolved ==
    /\ resolving # None /\ resolving.phase = "answer"
    /\ resolving.answer = None \/ NotModified(resolving) \/ resolving.versionId # versionId
    /\ stat' = IF NotModified(resolving) THEN NewerStat(resolving.answer) ELSE stat
    /\ UNCHANGED <<disk, content, flags, saving, fresh, events, known>>
    /\ ResolveOver

\* Mutant: the content is taken whether or not the model has changed.
UnchangedSinceAny(r) == TRUE

\* The content has not changed since the resolve began.
UnchangedSince(r) == r.versionId = versionId

\* resolveFromContent: the stat is the file's from now on, and the model is
\* asked to take its content.
ResolveFromContent ==
    /\ resolving # None /\ resolving.phase = "answer"
    /\ resolving.answer # None /\ (NotModified(resolving) => MayBeForced)
    /\ UnchangedSince(resolving)
    /\ stat' = NewerStat(resolving.answer)
    /\ resolving' = Accepted(resolving)
    /\ UNCHANGED <<disk, content, flags, saving, reverting, fresh, events, known>>

\* The model has the content: onModelContentChanged, then setDirty(false).  What
\* the model had is replaced, and so is what was typed since model.update was
\* called: nothing looks at versionId again.
UpdateModel ==
    /\ Updating
    /\ LET file == resolving.answer
       IN /\ fresh' = fresh + 1
          /\ model' = Append(model, [version |-> fresh + 1, text |-> file.text])
          /\ versionId' = versionId + 1
          /\ seen' = seen \cup {file.text}
          /\ SetDirty(FALSE, fresh + 1)
          /\ stored' = IF stored.mtime <= file.mtime THEN file ELSE stored
          /\ outdated' = (stored.mtime > file.mtime)
          /\ unmarked' = FALSE
    /\ UNCHANGED <<disk, undone, stat, saving, events, blind>>
    /\ ResolveOver

\* The file cannot be read, or no longer while the model takes its content.
ResolveFails ==
    /\ resolving # None
    /\ Event
    /\ blind' = (blind \/ Updating)
    /\ UNCHANGED <<disk, content, stat, saving, stored, fresh>>
    /\ ResolveFailed

-----------------------------------------------------------------------------
(* Revert *)

\* revert up to its first await: the flags are cleared before the read.  It
\* waits for a resolve under way, and reads nothing during a save.
Revert(option) ==
    /\ Event
    /\ reverting = None
    /\ dirty \/ option = "forced"
    /\ SetDirty(FALSE, Current(model).version)
    /\ outdated' = TRUE
    /\ unmarked' = FALSE
    /\ UNCHANGED <<disk, content, stat, saving, fresh, blind, stored>>
    /\ IF option = "soft" \/ (resolving = None /\ running # None)
       THEN UNCHANGED <<resolving, reverting>>
       ELSE /\ reverting' = [was |-> flags, waits |-> resolving # None]
            /\ resolving' = IF resolving = None THEN NewRead ELSE resolving

-----------------------------------------------------------------------------
(* Other programs *)

\* A text of either size is written.
ForeignWrite ==
    /\ Event
    /\ \E text \in {fresh + 1, fresh + 2} :
          /\ disk' = [text |-> text, mtime |-> fresh + 1, own |-> FALSE]
          /\ fresh' = fresh + 2
    /\ UNCHANGED <<content, flags, stat, saving, resolving, reverting, known>>

ForeignDelete ==
    /\ Event
    /\ disk # None /\ disk' = None
    /\ UNCHANGED <<content, flags, stat, saving, resolving, reverting, fresh, known>>

-----------------------------------------------------------------------------

\* The next step of a save that needs neither the user nor a failure.
SaveStep(s) ==
    \/ ThrottleOver(s) \/ ParticipantsDone(s) \/ SaveCancelled(s)
    \/ Validate(s) \/ Write(s) \/ StatAfterWrite(s) \/ HandleSaveSuccess(s)

Next ==
    \/ Edit \/ Undo
    \/ \E option \in SaveOptions : Save(option)
    \/ \E s \in saves :
          \/ ThrottleOver(s) \/ ParticipantsDone(s) \/ SaveCancelled(s)
          \/ Validate(s) \/ Write(s) \/ StatAfterWrite(s) \/ HandleSaveSuccess(s)
          \/ CancelSave(s) \/ WriteFails(s)
    \/ Resolve \/ Read \/ Unresolved \/ ResolveFromContent \/ UpdateModel \/ ResolveFails
    \/ \E option \in RevertOptions : Revert(option)
    \/ ForeignWrite \/ ForeignDelete

\* Participants, snapshots and the file system answer at some time.
Fairness == WF_vars(\E s \in saves : SaveStep(s))

Spec == Init /\ [][Next]_vars /\ Fairness

-----------------------------------------------------------------------------
(* Properties *)

TypeOK ==
    /\ disk \in Files \cup {None} /\ stat \in Files /\ stored \in Files
    /\ model \in Seq(Versions) /\ model # <<>>
    /\ versionId \in Nat /\ savedVersionId \in Nat
    /\ dirty \in BOOLEAN /\ inConflictMode \in BOOLEAN /\ inErrorMode \in BOOLEAN /\ undone \in BOOLEAN
    /\ saves \subseteq Saves
    /\ running \in Nat \cup {None} /\ queued \in SaveOptions \cup {None}
    /\ resolving \in Reads \cup {None} /\ reverting \in Reverts \cup {None}
    /\ fresh \in Nat /\ events \in 0..MaxEvents
    /\ seen \subseteq Nat /\ blind \in BOOLEAN /\ outdated \in BOOLEAN /\ unmarked \in BOOLEAN
    /\ promised \in Nat

\* A working copy that is not dirty shows the text that it has last read from
\* or written to the file: doSetDirty, handleSaveSuccess and resolveFromContent
\* clear the flag for the right version only.  Until savedVersionId is set
\* again this is left open after a revert (the flag is cleared before the
\* read, and set back if the read fails), after a write whose version is no
\* longer the current one or that failed, and after an edit while the model
\* takes the content of the file.
CleanIsSaved == ~dirty /\ ~outdated => Current(model).text = stored.text

\* When the content of the file replaces what the model has, that is the version
\* that was saved or reverted to, for a reload as for a revert: resolveFromFile
\* gives up if the content has changed since it began, and a resolve does not
\* begin while the working copy is dirty.  Two kinds of edits are replaced all
\* the same, without having been marked as dirty (unmarked): those typed while
\* model.update is awaited, which resolveFromFile no longer looks for though it
\* means "to prevent loosing any changes"; and those typed during a revert whose
\* read fails, if the flags that it sets back say that nothing is dirty.
ReplacesSavedVersion ==
    Updating /\ ~Updating' /\ model' # model
        => Current(model).version = savedVersionId \/ unmarked

ReloadKeepsEdits == [][ReplacesSavedVersion]_vars

\* A file that passes the dirty write prevention holds a text that the user
\* has had before his eyes, or one of the size that is known.  Left open: the
\* stat is that of a text the model did not get, because model.update has
\* failed or is not over, or because another program wrote right after a save.
SeenBeforeOverwritten ==
    \A s \in saves : s.phase = "snapshot" /\ ~s.cancelled /\ ~s.overwrite /\ disk # None /\ ~ModifiedSince(s)
        => disk.text \in seen \/ Size(disk.text) = Size(s.stat.text) \/ blind \/ Updating

\* A save is refused as a conflict only if another program has written the
\* file, or an earlier write of this working copy has ended with an error: of a
\* write that succeeded it knows the stat, whatever order stats arrive in.  (A
\* file whose stat failed, or that was truncated by a write that failed, is not
\* its own here; the code does meet it as a conflict.)
ConflictIsReal == \A s \in saves : s.phase = "snapshot" /\ ~s.cancelled /\ ModifiedSince(s) => ~disk.own

\* What save was accepted for is stored, or given up with an error or because
\* it is no longer dirty: no save is lost in the queue of the sequentializer.
EverySaveEnds == (promised > 0) ~> (promised = 0)

\* "Force read from disk unless reverting soft": when the read of a revert is
\* answered and nothing has been typed meanwhile, the model has the text of
\* the file or is about to take it.
RevertReadsTheFile ==
    [][(reverting # None /\ ~reverting.waits /\ resolving.phase = "answer" /\ resolving.answer # None
            /\ resolving.versionId = versionId /\ reverting' = None)
        => dirty' \/ Current(model').text = resolving.answer.text]_vars

=============================================================================
