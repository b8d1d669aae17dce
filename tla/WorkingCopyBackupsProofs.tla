---------------------- MODULE WorkingCopyBackupsProofs ----------------------
(***************************************************************************)
(* Proofs about WorkingCopyBackups, for any number of events.              *)
(*                                                                         *)
(* Whether the early returns of the tracker and the service are right      *)
(* depends on which version stands for which text in four places: the      *)
(* pending operation, the one that io is busy with, the model's entry and  *)
(* the file.  The inductive invariant Inv says how the four are related;   *)
(* VersionTellsContent, NoStaleBackup and HotExitKeepsText follow from it. *)
(***************************************************************************)
EXTENDS WorkingCopyBackups, TLAPS

\* What is scheduled but not begun is what the tracker wants now, unless a
\* shutdown asked for it; a shutdown waits for one operation at most.
Scheduling ==
    /\ pending # None /\ pending.kind = "discard" => pending.phase = "queue"
    /\ pending # None /\ pending.final => shutdown = "busy" /\ pending.phase # "timer"
    /\ pending # None /\ Suspended => pending.final
    /\ io # None /\ io.final => shutdown = "busy" /\ pending = None
    /\ pending # None /\ ~pending.final =>
          pending.text = text /\ pending.version = contentVersion /\ pending.meta = stat

\* The version of x is not older than the model's entry.
AfterEntry(x) == entry # None => entry.version <= x.version

\* Backups are made in the order of their versions.
VersionOrder ==
    /\ entry # None => entry.version <= contentVersion
    /\ pending # None /\ pending.kind = "backup" => pending.version <= contentVersion /\ AfterEntry(pending)
    /\ io # None /\ io.kind = "backup" =>
          /\ io.version <= contentVersion /\ AfterEntry(io)
          /\ ~HasMeta(io)
          /\ pending # None /\ pending.kind = "backup" => io.version <= pending.version

\* The version of now stands for the text of now, and the metadata under it
\* are the current ones unless the text was saved since.
Stands(version, meta) == version = contentVersion => meta = stat \/ text = file.text

SameVersion ==
    /\ pending # None /\ pending.kind = "backup" =>
          /\ pending.version = contentVersion => pending.text = text
          /\ Stands(pending.version, pending.meta)
    /\ io # None /\ io.kind = "backup" =>
          /\ io.version = contentVersion => io.text = text
          /\ Stands(io.version, io.meta)
    /\ entry # None =>
          /\ Stands(entry.version, entry.meta)
          /\ entry.version = contentVersion /\ shutdown # "clear" =>
                /\ backup # None
                /\ \/ backup = Corrupt /\ text = file.text
                   \/ backup.text = text

\* What a shutdown waits for concerns the text of now, unless the text was
\* changed since it began.
FinalOperation(op) ==
    op # None /\ op.final => IF op.kind = "backup" THEN op.version = contentVersion ELSE ~dirty

ShutdownInTime ==
    ~late =>
        /\ FinalOperation(pending) /\ FinalOperation(io)
        /\ shutdown = "clear" => ~dirty

\* Whatever is left to be deleted is scheduled or being deleted.
DiscardUnderWay ==
    /\ ~dirty /\ ~hidden /\ ~Suspended /\ ~missed =>
          \/ pending # None /\ pending.kind = "discard"
          \/ pending = None /\ io # None /\ io.kind = "discard"
          \/ pending = None /\ io = None /\ backup \in {None, Corrupt}
    /\ shutdown = "confirm" /\ ~missed => dirty \/ hidden

GoneWithBackup ==
    shutdown = "gone" /\ dirty /\ text # file.text /\ ~late /\ ~doomed
        => io = None /\ backup # None /\ backup.text = text

Inv ==
    /\ TypeOK /\ Scheduling /\ VersionOrder /\ SameVersion /\ ShutdownInTime
    /\ DiscardUnderWay /\ GoneWithBackup

-----------------------------------------------------------------------------
(* Records *)

\* An operation, a backup and an entry have the fields that they were made
\* with, and none of them is None.
LEMMA RecordFacts ==
    /\ \A op \in Operations :
          /\ op # None
          /\ op.kind \in {"backup", "discard"} /\ op.phase \in {"timer", "snapshot", "queue"}
          /\ op.final \in BOOLEAN
          /\ op.text \in Nat /\ op.version \in Nat /\ op.meta \in Nat
    /\ \A b \in Backups : b # None /\ b.text \in Nat /\ b.meta \in Nat
    /\ \A e \in Entries : e # None /\ e.version \in Nat /\ e.meta \in Nat
  BY NoneAssumption DEF Operations, Backups, Entries

\* What the three updates of an operation change, and what not.
LEMMA InPhaseFacts ==
    ASSUME NEW op \in Operations, NEW phase \in {"timer", "snapshot", "queue"}
    PROVE  /\ InPhase(op, phase) \in Operations
           /\ InPhase(op, phase).phase = phase
           /\ InPhase(op, phase).kind = op.kind /\ InPhase(op, phase).final = op.final
           /\ InPhase(op, phase).text = op.text /\ InPhase(op, phase).version = op.version
           /\ InPhase(op, phase).meta = op.meta
  BY Zenon DEF InPhase, Operations

LEMMA UnderVersionFacts ==
    ASSUME NEW op \in Operations, NEW version \in Nat
    PROVE  /\ UnderVersion(op, version) \in Operations
           /\ UnderVersion(op, version).version = version
           /\ UnderVersion(op, version).kind = op.kind /\ UnderVersion(op, version).final = op.final
           /\ UnderVersion(op, version).text = op.text /\ UnderVersion(op, version).phase = op.phase
           /\ UnderVersion(op, version).meta = op.meta
  BY Zenon DEF UnderVersion, Operations

LEMMA NotFinalFacts ==
    ASSUME NEW op \in Operations
    PROVE  /\ NotFinal(op) \in Operations
           /\ NotFinal(op).final = FALSE
           /\ NotFinal(op).kind = op.kind /\ NotFinal(op).phase = op.phase
           /\ NotFinal(op).text = op.text /\ NotFinal(op).version = op.version
           /\ NotFinal(op).meta = op.meta
  BY Zenon DEF NotFinal, Operations

\* An operation of now has the text, the version and the metadata of now.
LEMMA OperationFacts ==
    ASSUME NEW kind \in {"backup", "discard"}, NEW phase \in {"timer", "snapshot", "queue"},
           NEW final \in BOOLEAN, text' \in Nat, contentVersion' \in Nat, stat' \in Nat
    PROVE  /\ Operation(kind, phase, final) \in Operations
           /\ Operation(kind, phase, final).kind = kind
           /\ Operation(kind, phase, final).phase = phase
           /\ Operation(kind, phase, final).final = final
           /\ Operation(kind, phase, final).text = text'
           /\ Operation(kind, phase, final).version = contentVersion'
           /\ Operation(kind, phase, final).meta = stat'
  BY DEF Operation, Operations

\* What the tracker does about an event of the working copy.
LEMMA OnDidChangeFacts ==
    ASSUME NEW modified \in BOOLEAN, late \in BOOLEAN, OnDidChange(modified),
           text' \in Nat, contentVersion' \in Nat, stat' \in Nat
    PROVE  /\ late' \in BOOLEAN /\ missed' \in BOOLEAN
           /\ late' <=> late \/ Suspended
           /\ missed' <=> Suspended
           /\ Suspended => pending' = pending
           /\ ~Suspended =>
                 /\ pending' \in Operations /\ pending' # None /\ ~pending'.final
                 /\ pending'.text = text' /\ pending'.version = contentVersion' /\ pending'.meta = stat'
                 /\ modified => pending'.kind = "backup"
                 /\ ~modified => pending'.kind = "discard" /\ pending'.phase = "queue"
<1>1. late' \in BOOLEAN /\ missed' \in BOOLEAN /\ (late' <=> late \/ Suspended) /\ (missed' <=> Suspended)
  BY Zenon DEF OnDidChange
<1>2. Suspended => pending' = pending
  BY Zenon DEF OnDidChange
<1>3. ASSUME ~Suspended
      PROVE  /\ pending' \in Operations /\ pending' # None /\ ~pending'.final
             /\ pending'.text = text' /\ pending'.version = contentVersion' /\ pending'.meta = stat'
             /\ modified => pending'.kind = "backup"
             /\ ~modified => pending'.kind = "discard" /\ pending'.phase = "queue"
  <2>1. CASE modified
    <3>1. pending' = Operation("backup", "timer", FALSE)
      BY <1>3, <2>1, Zenon DEF OnDidChange
    <3> QED BY <2>1, <3>1, OperationFacts, RecordFacts
  <2>2. CASE ~modified
    <3>1. pending' = Operation("discard", "queue", FALSE)
      BY <1>3, <2>2, Zenon DEF OnDidChange
    <3> QED BY <2>2, <3>1, OperationFacts, RecordFacts
  <2> QED BY <2>1, <2>2
<1> QED BY <1>1, <1>2, <1>3

\* The user types.
LEMMA EditStep == Inv /\ Edit => Inv'
<1> SUFFICES ASSUME Inv, Edit PROVE Inv' OBVIOUS
<1> USE DEF Inv
<1>0. text' \in Nat /\ contentVersion' \in Nat /\ stat' \in Nat /\ fresh' \in Nat /\ events' \in 0..MaxEvents /\ file' \in Backups
  BY RecordFacts, MaxEventsAssumption DEF TypeOK, Edit, Event, Backups
<1>1. dirty' \in BOOLEAN /\ hidden' \in BOOLEAN /\ doomed' \in BOOLEAN
  BY Zenon DEF TypeOK, Edit
<1>2. /\ late' \in BOOLEAN /\ missed' \in BOOLEAN
      /\ late' <=> late \/ Suspended
      /\ missed' <=> Suspended
      /\ Suspended => pending' = pending
      /\ ~Suspended =>
            /\ pending' \in Operations /\ pending' # None /\ ~pending'.final
            /\ pending'.text = text' /\ pending'.version = contentVersion' /\ pending'.meta = stat'
            /\ TRUE => pending'.kind = "backup"
            /\ ~TRUE => pending'.kind = "discard" /\ pending'.phase = "queue"
  BY <1>0, OnDidChangeFacts, Zenon DEF TypeOK, Edit
<1>3. TypeOK'
  BY <1>0, <1>1, <1>2 DEF TypeOK, Edit
<1>4. Scheduling'
  BY <1>0, <1>1, <1>2, RecordFacts DEF TypeOK, Scheduling, Suspended, Edit
<1>5. VersionOrder'
  BY <1>0, <1>1, <1>2, RecordFacts DEF TypeOK, Scheduling, VersionOrder, AfterEntry, HasMeta,
        HasVersion, Suspended, Edit
<1>6. SameVersion'
  BY <1>0, <1>1, <1>2, RecordFacts DEF TypeOK, Scheduling, VersionOrder, SameVersion, Stands,
        Suspended, Edit
<1>7. ShutdownInTime'
  BY <1>0, <1>1, <1>2, RecordFacts DEF TypeOK, Scheduling, ShutdownInTime, FinalOperation,
        Suspended, Edit
<1>8. DiscardUnderWay'
  BY <1>0, <1>1, <1>2, RecordFacts DEF TypeOK, Scheduling, DiscardUnderWay, Suspended, Edit
<1>9. GoneWithBackup'
  BY <1>0, <1>1, <1>2, RecordFacts DEF TypeOK, Scheduling, GoneWithBackup, Suspended, Edit
<1> QED BY <1>3, <1>4, <1>5, <1>6, <1>7, <1>8, <1>9

\* The user undoes all edits.
LEMMA UndoStep == Inv /\ Undo => Inv'
<1> SUFFICES ASSUME Inv, Undo PROVE Inv' OBVIOUS
<1> USE DEF Inv
<1>0. text' \in Nat /\ contentVersion' \in Nat /\ stat' \in Nat /\ fresh' \in Nat /\ events' \in 0..MaxEvents /\ file' \in Backups
  BY RecordFacts, MaxEventsAssumption DEF TypeOK, Undo, Event, Backups
<1>1. dirty' \in BOOLEAN /\ hidden' \in BOOLEAN /\ doomed' \in BOOLEAN
  BY Zenon DEF TypeOK, Undo
<1>2. /\ late' \in BOOLEAN /\ missed' \in BOOLEAN
      /\ late' <=> late \/ Suspended
      /\ missed' <=> Suspended
      /\ Suspended => pending' = pending
      /\ ~Suspended =>
            /\ pending' \in Operations /\ pending' # None /\ ~pending'.final
            /\ pending'.text = text' /\ pending'.version = contentVersion' /\ pending'.meta = stat'
            /\ FALSE => pending'.kind = "backup"
            /\ ~FALSE => pending'.kind = "discard" /\ pending'.phase = "queue"
  BY <1>0, OnDidChangeFacts, Zenon DEF TypeOK, Undo
<1>3. TypeOK'
  BY <1>0, <1>1, <1>2 DEF TypeOK, Undo
<1>4. Scheduling'
  BY <1>0, <1>1, <1>2, RecordFacts DEF TypeOK, Scheduling, Suspended, Undo
<1>5. VersionOrder'
  BY <1>0, <1>1, <1>2, RecordFacts DEF TypeOK, Scheduling, VersionOrder, AfterEntry, HasMeta,
        HasVersion, Suspended, Undo
<1>6. SameVersion'
  BY <1>0, <1>1, <1>2, RecordFacts DEF TypeOK, Scheduling, VersionOrder, SameVersion, Stands,
        Suspended, Undo
<1>7. ShutdownInTime'
  BY <1>0, <1>1, <1>2, RecordFacts DEF TypeOK, Scheduling, ShutdownInTime, FinalOperation,
        Suspended, Undo
<1>8. DiscardUnderWay'
  BY <1>0, <1>1, <1>2, RecordFacts DEF TypeOK, Scheduling, DiscardUnderWay, Suspended, Undo
<1>9. GoneWithBackup'
  BY <1>0, <1>1, <1>2, RecordFacts DEF TypeOK, Scheduling, GoneWithBackup, Suspended, Undo
<1> QED BY <1>3, <1>4, <1>5, <1>6, <1>7, <1>8, <1>9

\* A save.
LEMMA SaveStep == Inv /\ Save => Inv'
<1> SUFFICES ASSUME Inv, Save PROVE Inv' OBVIOUS
<1> USE DEF Inv
<1>0. text' \in Nat /\ contentVersion' \in Nat /\ stat' \in Nat /\ fresh' \in Nat /\ events' \in 0..MaxEvents /\ file' \in Backups
  BY RecordFacts, MaxEventsAssumption DEF TypeOK, Save, Event, Backups
<1>1. dirty' \in BOOLEAN /\ hidden' \in BOOLEAN /\ doomed' \in BOOLEAN
  BY Zenon DEF TypeOK, Save
<1>2. /\ late' \in BOOLEAN /\ missed' \in BOOLEAN
      /\ late' <=> late \/ Suspended
      /\ missed' <=> Suspended
      /\ Suspended => pending' = pending
      /\ ~Suspended =>
            /\ pending' \in Operations /\ pending' # None /\ ~pending'.final
            /\ pending'.text = text' /\ pending'.version = contentVersion' /\ pending'.meta = stat'
            /\ FALSE => pending'.kind = "backup"
            /\ ~FALSE => pending'.kind = "discard" /\ pending'.phase = "queue"
  BY <1>0, OnDidChangeFacts, Zenon DEF TypeOK, Save
<1>3. TypeOK'
  BY <1>0, <1>1, <1>2 DEF TypeOK, Save
<1>4. Scheduling'
  BY <1>0, <1>1, <1>2, RecordFacts DEF TypeOK, Scheduling, Suspended, Save
<1>5. VersionOrder'
  BY <1>0, <1>1, <1>2, RecordFacts DEF TypeOK, Scheduling, VersionOrder, AfterEntry, HasMeta,
        HasVersion, Suspended, Save
<1>6. SameVersion'
  BY <1>0, <1>1, <1>2, RecordFacts DEF TypeOK, Scheduling, VersionOrder, SameVersion, Stands,
        Suspended, Save
<1>7. ShutdownInTime'
  BY <1>0, <1>1, <1>2, RecordFacts DEF TypeOK, Scheduling, ShutdownInTime, FinalOperation,
        Suspended, Save
<1>8. DiscardUnderWay'
  BY <1>0, <1>1, <1>2, RecordFacts DEF TypeOK, Scheduling, DiscardUnderWay, Suspended, Save
<1>9. GoneWithBackup'
  BY <1>0, <1>1, <1>2, RecordFacts DEF TypeOK, Scheduling, GoneWithBackup, Suspended, Save
<1> QED BY <1>3, <1>4, <1>5, <1>6, <1>7, <1>8, <1>9

\* A soft revert.
LEMMA SoftRevertStep == Inv /\ SoftRevert => Inv'
<1> SUFFICES ASSUME Inv, SoftRevert PROVE Inv' OBVIOUS
<1> USE DEF Inv
<1>0. text' \in Nat /\ contentVersion' \in Nat /\ stat' \in Nat /\ fresh' \in Nat /\ events' \in 0..MaxEvents /\ file' \in Backups
  BY RecordFacts, MaxEventsAssumption DEF TypeOK, SoftRevert, Event, Backups
<1>1. dirty' \in BOOLEAN /\ hidden' \in BOOLEAN /\ doomed' \in BOOLEAN
  BY Zenon DEF TypeOK, SoftRevert
<1>2. /\ late' \in BOOLEAN /\ missed' \in BOOLEAN
      /\ late' <=> late \/ Suspended
      /\ missed' <=> Suspended
      /\ Suspended => pending' = pending
      /\ ~Suspended =>
            /\ pending' \in Operations /\ pending' # None /\ ~pending'.final
            /\ pending'.text = text' /\ pending'.version = contentVersion' /\ pending'.meta = stat'
            /\ FALSE => pending'.kind = "backup"
            /\ ~FALSE => pending'.kind = "discard" /\ pending'.phase = "queue"
  BY <1>0, OnDidChangeFacts, Zenon DEF TypeOK, SoftRevert
<1>3. TypeOK'
  BY <1>0, <1>1, <1>2 DEF TypeOK, SoftRevert
<1>4. Scheduling'
  BY <1>0, <1>1, <1>2, RecordFacts DEF TypeOK, Scheduling, Suspended, SoftRevert
<1>5. VersionOrder'
  BY <1>0, <1>1, <1>2, RecordFacts DEF TypeOK, Scheduling, VersionOrder, AfterEntry, HasMeta,
        HasVersion, Suspended, SoftRevert
<1>6. SameVersion'
  BY <1>0, <1>1, <1>2, RecordFacts DEF TypeOK, Scheduling, VersionOrder, SameVersion, Stands,
        Suspended, SoftRevert
<1>7. ShutdownInTime'
  BY <1>0, <1>1, <1>2, RecordFacts DEF TypeOK, Scheduling, ShutdownInTime, FinalOperation,
        Suspended, SoftRevert
<1>8. DiscardUnderWay'
  BY <1>0, <1>1, <1>2, RecordFacts DEF TypeOK, Scheduling, DiscardUnderWay, Suspended,
        SoftRevert
<1>9. GoneWithBackup'
  BY <1>0, <1>1, <1>2, RecordFacts DEF TypeOK, Scheduling, GoneWithBackup, Suspended, SoftRevert
<1> QED BY <1>3, <1>4, <1>5, <1>6, <1>7, <1>8, <1>9

\* markModified.
LEMMA MarkModifiedStep == Inv /\ MarkModified => Inv'
<1> SUFFICES ASSUME Inv, MarkModified PROVE Inv' OBVIOUS
<1> USE DEF Inv
<1>0. text' \in Nat /\ contentVersion' \in Nat /\ stat' \in Nat /\ fresh' \in Nat /\ events' \in 0..MaxEvents /\ file' \in Backups
  BY RecordFacts, MaxEventsAssumption DEF TypeOK, MarkModified, Event, Backups
<1>1. dirty' \in BOOLEAN /\ hidden' \in BOOLEAN /\ doomed' \in BOOLEAN
  BY Zenon DEF TypeOK, MarkModified
<1>2. /\ late' \in BOOLEAN /\ missed' \in BOOLEAN
      /\ late' <=> late \/ Suspended
      /\ missed' <=> Suspended
      /\ Suspended => pending' = pending
      /\ ~Suspended =>
            /\ pending' \in Operations /\ pending' # None /\ ~pending'.final
            /\ pending'.text = text' /\ pending'.version = contentVersion' /\ pending'.meta = stat'
            /\ TRUE => pending'.kind = "backup"
            /\ ~TRUE => pending'.kind = "discard" /\ pending'.phase = "queue"
  BY <1>0, OnDidChangeFacts, Zenon DEF TypeOK, MarkModified
<1>3. TypeOK'
  BY <1>0, <1>1, <1>2 DEF TypeOK, MarkModified
<1>4. Scheduling'
  BY <1>0, <1>1, <1>2, RecordFacts DEF TypeOK, Scheduling, Suspended, MarkModified
<1>5. VersionOrder'
  BY <1>0, <1>1, <1>2, RecordFacts DEF TypeOK, Scheduling, VersionOrder, AfterEntry, HasMeta,
        HasVersion, Suspended, MarkModified
<1>6. SameVersion'
  BY <1>0, <1>1, <1>2, RecordFacts DEF TypeOK, Scheduling, VersionOrder, SameVersion, Stands,
        Suspended, MarkModified
<1>7. ShutdownInTime'
  BY <1>0, <1>1, <1>2, RecordFacts DEF TypeOK, Scheduling, ShutdownInTime, FinalOperation,
        Suspended, MarkModified
<1>8. DiscardUnderWay'
  BY <1>0, <1>1, <1>2, RecordFacts DEF TypeOK, Scheduling, DiscardUnderWay, Suspended,
        MarkModified
<1>9. GoneWithBackup'
  BY <1>0, <1>1, <1>2, RecordFacts DEF TypeOK, Scheduling, GoneWithBackup, Suspended,
        MarkModified
<1> QED BY <1>3, <1>4, <1>5, <1>6, <1>7, <1>8, <1>9

\* The read of a revert is over.
LEMMA RevertedStep == Inv /\ Reverted => Inv'
<1> SUFFICES ASSUME Inv, Reverted PROVE Inv' OBVIOUS
<1> USE DEF Inv
<1>0. text' \in Nat /\ contentVersion' \in Nat /\ stat' \in Nat /\ fresh' \in Nat /\ events' \in 0..MaxEvents /\ file' \in Backups
  BY RecordFacts, MaxEventsAssumption DEF TypeOK, Reverted, Event, Backups
<1>1. dirty' \in BOOLEAN /\ hidden' \in BOOLEAN /\ doomed' \in BOOLEAN
  BY Zenon DEF TypeOK, Reverted
<1>2. /\ late' \in BOOLEAN /\ missed' \in BOOLEAN
      /\ late' <=> late \/ Suspended
      /\ missed' <=> Suspended
      /\ Suspended => pending' = pending
      /\ ~Suspended =>
            /\ pending' \in Operations /\ pending' # None /\ ~pending'.final
            /\ pending'.text = text' /\ pending'.version = contentVersion' /\ pending'.meta = stat'
            /\ dirty => pending'.kind = "backup"
            /\ ~dirty => pending'.kind = "discard" /\ pending'.phase = "queue"
  BY <1>0, OnDidChangeFacts, Zenon DEF TypeOK, Reverted
<1>3. TypeOK'
  BY <1>0, <1>1, <1>2 DEF TypeOK, Reverted
<1>4. Scheduling'
  BY <1>0, <1>1, <1>2, RecordFacts DEF TypeOK, Scheduling, Suspended, Reverted
<1>5. VersionOrder'
  BY <1>0, <1>1, <1>2, RecordFacts DEF TypeOK, Scheduling, VersionOrder, AfterEntry, HasMeta,
        HasVersion, Suspended, Reverted
<1>6. SameVersion'
  BY <1>0, <1>1, <1>2, RecordFacts DEF TypeOK, Scheduling, VersionOrder, SameVersion, Stands,
        Suspended, Reverted
<1>7. ShutdownInTime'
  BY <1>0, <1>1, <1>2, RecordFacts DEF TypeOK, Scheduling, ShutdownInTime, FinalOperation,
        Suspended, Reverted
<1>8. DiscardUnderWay'
  BY <1>0, <1>1, <1>2, RecordFacts DEF TypeOK, Scheduling, DiscardUnderWay, Suspended, Reverted
<1>9. GoneWithBackup'
  BY <1>0, <1>1, <1>2, RecordFacts DEF TypeOK, Scheduling, GoneWithBackup, Suspended, Reverted
<1> QED BY <1>3, <1>4, <1>5, <1>6, <1>7, <1>8, <1>9

\* A revert clears the flag.
LEMMA RevertStep == Inv /\ Revert => Inv'
<1> SUFFICES ASSUME Inv, Revert PROVE Inv' OBVIOUS
<1> USE DEF Inv
<1>1. dirty' \in BOOLEAN /\ hidden' \in BOOLEAN
  BY Zenon DEF Revert
<1>t. TypeOK'
  BY <1>1, RecordFacts, MaxEventsAssumption DEF TypeOK, Revert, Event
<1>a. Scheduling'
  BY <1>1, RecordFacts DEF TypeOK, Scheduling, Suspended, Revert, Event
<1>b. VersionOrder'
  BY <1>1, RecordFacts DEF TypeOK, Scheduling, VersionOrder, AfterEntry, HasMeta, HasVersion,
        Revert, Event, Suspended
<1>c. SameVersion'
  BY <1>1, RecordFacts DEF TypeOK, Scheduling, VersionOrder, SameVersion, Stands, Revert,
        Event, Suspended
<1>d. ShutdownInTime'
  BY <1>1, RecordFacts DEF TypeOK, Scheduling, ShutdownInTime, FinalOperation, Revert, Event,
        Suspended
<1>e. DiscardUnderWay'
  BY <1>1, RecordFacts DEF TypeOK, Scheduling, DiscardUnderWay, Suspended, Revert, Event
<1>f. GoneWithBackup'
  BY <1>1, RecordFacts DEF TypeOK, Scheduling, GoneWithBackup, Revert, Event, Suspended
<1> QED BY <1>t, <1>a, <1>b, <1>c, <1>d, <1>e, <1>f

\* A revert fails.
LEMMA RevertFailsStep == Inv /\ RevertFails => Inv'
<1> SUFFICES ASSUME Inv, RevertFails PROVE Inv' OBVIOUS
<1> USE DEF Inv
<1>1. /\ late' \in BOOLEAN /\ (late' <=> late \/ Suspended)
      /\ dirty' \in BOOLEAN /\ hidden' \in BOOLEAN /\ missed' \in BOOLEAN
  BY Zenon DEF TypeOK, RevertFails
<1>t. TypeOK'
  BY <1>1, RecordFacts, MaxEventsAssumption DEF TypeOK, RevertFails, Event
<1>a. Scheduling'
  BY <1>1, RecordFacts DEF TypeOK, Scheduling, Suspended, RevertFails, Event
<1>b. VersionOrder'
  BY <1>1, RecordFacts DEF TypeOK, Scheduling, VersionOrder, AfterEntry, HasMeta, HasVersion,
        RevertFails, Event, Suspended
<1>c. SameVersion'
  BY <1>1, RecordFacts DEF TypeOK, Scheduling, VersionOrder, SameVersion, Stands, RevertFails,
        Event, Suspended
<1>d. ShutdownInTime'
  BY <1>1, RecordFacts DEF TypeOK, Scheduling, ShutdownInTime, FinalOperation, RevertFails,
        Event, Suspended
<1>e. DiscardUnderWay'
  BY <1>1, RecordFacts DEF TypeOK, Scheduling, DiscardUnderWay, Suspended, RevertFails, Event
<1>f. GoneWithBackup'
  BY <1>1, RecordFacts DEF TypeOK, Scheduling, GoneWithBackup, RevertFails, Event, Suspended
<1> QED BY <1>t, <1>a, <1>b, <1>c, <1>d, <1>e, <1>f

\* The timer of a scheduled backup.
LEMMA TimerFiresStep == Inv /\ TimerFires => Inv'
<1> SUFFICES ASSUME Inv, TimerFires PROVE Inv' OBVIOUS
<1> USE DEF Inv
<1>1. /\ pending' \in Operations \cup {None}
      /\ dirty =>
            /\ pending' # None /\ pending'.kind = "backup" /\ ~pending'.final
            /\ pending'.text = text /\ pending'.version = contentVersion /\ pending'.meta = stat
      /\ ~dirty => pending' = None
  <2>1. text' = text /\ contentVersion' = contentVersion /\ stat' = stat
    BY Zenon DEF TimerFires, copy
  <2>2. dirty => pending' = Operation("backup", "snapshot", FALSE)
    BY Zenon DEF TimerFires
  <2>3. ~dirty => pending' = None
    BY Zenon DEF TimerFires
  <2>4. text' \in Nat /\ contentVersion' \in Nat /\ stat' \in Nat
    BY <2>1 DEF TypeOK
  <2>5. CASE dirty
    <3>1. pending' = Operation("backup", "snapshot", FALSE)
      BY <2>2, <2>5
    <3>2. /\ pending' \in Operations /\ pending'.kind = "backup" /\ ~pending'.final
          /\ pending'.text = text /\ pending'.version = contentVersion /\ pending'.meta = stat
      BY <2>1, <2>4, <3>1, OperationFacts
    <3> QED BY <2>5, <3>2, RecordFacts
  <2>6. CASE ~dirty
    BY <2>3, <2>6
  <2> QED BY <2>5, <2>6
<1>t. TypeOK'
  BY <1>1, RecordFacts, MaxEventsAssumption DEF TypeOK, TimerFires, copy
<1>a. Scheduling'
  BY <1>1, RecordFacts DEF TypeOK, Scheduling, Suspended, TimerFires, copy
<1>b. VersionOrder'
  BY <1>1, RecordFacts DEF TypeOK, Scheduling, VersionOrder, AfterEntry, HasMeta, HasVersion,
        TimerFires, copy, Suspended
<1>c. SameVersion'
  BY <1>1, RecordFacts DEF TypeOK, Scheduling, VersionOrder, SameVersion, Stands, TimerFires,
        copy, Suspended
<1>d. ShutdownInTime'
  BY <1>1, RecordFacts DEF TypeOK, Scheduling, ShutdownInTime, FinalOperation, TimerFires,
        copy, Suspended
<1>e. DiscardUnderWay'
  BY <1>1, RecordFacts DEF TypeOK, Scheduling, DiscardUnderWay, Suspended, TimerFires, copy
<1>f. GoneWithBackup'
  BY <1>1, RecordFacts DEF TypeOK, Scheduling, GoneWithBackup, TimerFires, copy, Suspended
<1> QED BY <1>t, <1>a, <1>b, <1>c, <1>d, <1>e, <1>f

\* The snapshot of a backup is there.
LEMMA SnapshotDoneStep == Inv /\ SnapshotDone => Inv'
<1> SUFFICES ASSUME Inv, SnapshotDone PROVE Inv' OBVIOUS
<1> USE DEF Inv
<1>1. /\ pending \in Operations /\ pending # None /\ pending.phase = "snapshot" /\ pending.kind = "backup"
      /\ UNCHANGED <<copy, io, backup, entry, fresh, events, missed, late>>
  BY RecordFacts DEF TypeOK, Scheduling, SnapshotDone
<1> DEFINE op == IF pending.final THEN pending ELSE UnderVersion(pending, contentVersion)
<1>2. /\ op \in Operations /\ op.kind = "backup" /\ (op.final <=> pending.final)
      /\ op.text = pending.text /\ op.version = pending.version /\ op.meta = pending.meta
  <2>1. CASE pending.final
    BY <1>1, <2>1
  <2>2. CASE ~pending.final
    <3>1. contentVersion \in Nat /\ pending.version = contentVersion
      BY <1>1, <2>2 DEF TypeOK, Scheduling
    <3> QED BY <1>1, <2>2, <3>1, UnderVersionFacts
  <2> QED BY <2>1, <2>2
<1>3. BackupExists(op) <=> HasMeta(pending)
  BY <1>2 DEF BackupExists, HasMeta, HasVersion
<1>4. \/ /\ pending' = None /\ shutdown' = (IF pending.final THEN "gone" ELSE shutdown)
         /\ HasMeta(pending) \/ (~dirty /\ ~pending.final)
         /\ doomed' \in BOOLEAN /\ (doomed' <=> (doomed \/ (dirty /\ Deleting)))
      \/ /\ pending' \in Operations /\ pending' # None /\ pending'.phase = "queue"
         /\ pending'.kind = "backup" /\ (pending'.final <=> pending.final)
         /\ pending'.text = pending.text /\ pending'.version = pending.version
         /\ pending'.meta = pending.meta
         /\ shutdown' = shutdown /\ doomed' = doomed
  <2>1. CASE BackupExists(op) \/ (~dirty /\ ~op.final)
    <3>1. /\ pending' = None /\ shutdown' = (IF pending.final THEN "gone" ELSE shutdown)
          /\ doomed' = (doomed \/ (dirty /\ Deleting))
      BY <2>1, Zenon DEF SnapshotDone, NothingToDo
    <3>2. doomed' \in BOOLEAN /\ (doomed' <=> (doomed \/ (dirty /\ Deleting)))
      BY <3>1, Zenon DEF TypeOK
    <3>3. HasMeta(pending) \/ (~dirty /\ ~pending.final)
      BY <2>1, <1>2, <1>3, Zenon
    <3> QED BY <3>1, <3>2, <3>3, Zenon
  <2>2. CASE ~(BackupExists(op) \/ (~dirty /\ ~op.final))
    <3>1. pending' = InPhase(op, "queue") /\ shutdown' = shutdown /\ doomed' = doomed
      BY <2>2, Zenon DEF SnapshotDone
    <3> HIDE DEF op
    <3> QED BY <3>1, <1>2, InPhaseFacts, RecordFacts
  <2> QED BY <2>1, <2>2
<1> HIDE DEF op
<1>t. TypeOK'
  BY <1>1, <1>4, RecordFacts, MaxEventsAssumption DEF TypeOK, copy
<1>a. Scheduling'
  BY <1>1, <1>4, RecordFacts DEF TypeOK, Scheduling, Suspended, copy
<1>b. VersionOrder'
  BY <1>1, <1>4, RecordFacts DEF TypeOK, Scheduling, VersionOrder, AfterEntry, HasMeta,
        HasVersion, copy, Suspended
<1>c. SameVersion'
  BY <1>1, <1>4, RecordFacts DEF TypeOK, Scheduling, VersionOrder, SameVersion, Stands, copy,
        Suspended
<1>d. ShutdownInTime'
  BY <1>1, <1>4, RecordFacts DEF TypeOK, Scheduling, ShutdownInTime, FinalOperation, copy,
        Suspended
<1>e. DiscardUnderWay'
  BY <1>1, <1>4, RecordFacts DEF TypeOK, Scheduling, DiscardUnderWay, Suspended, copy
<1>f. GoneWithBackup'
  BY <1>1, <1>4, RecordFacts DEF TypeOK, Scheduling, GoneWithBackup, VersionOrder, SameVersion,
        AfterEntry, HasMeta, HasVersion, Stands, ShutdownInTime, FinalOperation, Deleting,
        copy, Suspended
<1> QED BY <1>t, <1>a, <1>b, <1>c, <1>d, <1>e, <1>f

\* The queue reaches an operation.
LEMMA BeginStep == Inv /\ Begin => Inv'
<1> SUFFICES ASSUME Inv, Begin PROVE Inv' OBVIOUS
<1> USE DEF Inv
<1>1. /\ pending \in Operations /\ pending # None /\ pending.phase = "queue" /\ io = None
      /\ UNCHANGED <<copy, backup, entry, fresh, events, missed, doomed, late>>
  BY RecordFacts DEF TypeOK, Begin
<1>2. \/ /\ pending' = None /\ io' = None /\ shutdown' = (IF pending.final THEN "gone" ELSE shutdown)
         /\ pending.kind = "backup" /\ HasMeta(pending)
      \/ /\ pending' = None /\ io' = pending /\ shutdown' = shutdown
         /\ pending.kind = "backup" => ~HasMeta(pending)
  BY <1>1, Zenon DEF Begin, NothingToDo, BackupExists
<1>t. TypeOK'
  BY <1>1, <1>2, RecordFacts, MaxEventsAssumption DEF TypeOK, copy
<1>a. Scheduling'
  BY <1>1, <1>2, RecordFacts DEF TypeOK, Scheduling, Suspended, copy
<1>b. VersionOrder'
  BY <1>1, <1>2, RecordFacts DEF TypeOK, Scheduling, VersionOrder, AfterEntry, HasMeta,
        HasVersion, copy, Suspended
<1>c. SameVersion'
  BY <1>1, <1>2, RecordFacts DEF TypeOK, Scheduling, VersionOrder, SameVersion, Stands, copy,
        Suspended
<1>d. ShutdownInTime'
  BY <1>1, <1>2, RecordFacts DEF TypeOK, Scheduling, ShutdownInTime, FinalOperation, copy,
        Suspended
<1>e. DiscardUnderWay'
  BY <1>1, <1>2, RecordFacts DEF TypeOK, Scheduling, DiscardUnderWay, Suspended, copy
<1>f. GoneWithBackup'
  BY <1>1, <1>2, RecordFacts DEF TypeOK, Scheduling, GoneWithBackup, VersionOrder, SameVersion,
        AfterEntry, HasMeta, HasVersion, Stands, ShutdownInTime, FinalOperation, copy, Suspended
<1> QED BY <1>t, <1>a, <1>b, <1>c, <1>d, <1>e, <1>f

\* A file operation is over.
LEMMA EndStep == Inv /\ End => Inv'
<1> SUFFICES ASSUME Inv, End PROVE Inv' OBVIOUS
<1> USE DEF Inv
<1>1. /\ io \in Operations /\ io # None /\ io' = None
      /\ shutdown' = (IF io.final THEN "gone" ELSE shutdown)
      /\ UNCHANGED <<copy, pending, fresh, events, missed, doomed, late>>
  BY RecordFacts DEF TypeOK, End
<1>2. \/ /\ io.kind = "backup"
         /\ backup' \in Backups /\ backup' # None /\ backup'.text = io.text /\ backup'.meta = io.meta
         /\ entry' \in Entries /\ entry' # None /\ entry'.version = io.version /\ entry'.meta = io.meta
      \/ io.kind = "discard" /\ backup' = None /\ entry' = None
  BY <1>1, RecordFacts DEF End, EntryOf, Backups, Entries
<1>t. TypeOK'
  BY <1>1, <1>2, RecordFacts, MaxEventsAssumption DEF TypeOK, copy
<1>a. Scheduling'
  BY <1>1, <1>2, RecordFacts DEF TypeOK, Scheduling, Suspended, copy
<1>b. VersionOrder'
  BY <1>1, <1>2, RecordFacts DEF TypeOK, Scheduling, VersionOrder, AfterEntry, HasMeta,
        HasVersion, copy, Suspended
<1>c. SameVersion'
  BY <1>1, <1>2, RecordFacts DEF TypeOK, Scheduling, VersionOrder, SameVersion, Stands, copy,
        Suspended
<1>d. ShutdownInTime'
  BY <1>1, <1>2, RecordFacts DEF TypeOK, Scheduling, ShutdownInTime, FinalOperation, copy,
        Suspended
<1>e. DiscardUnderWay'
  BY <1>1, <1>2, RecordFacts DEF TypeOK, Scheduling, DiscardUnderWay, Suspended, copy
<1>f. GoneWithBackup'
  BY <1>1, <1>2, RecordFacts DEF TypeOK, Scheduling, GoneWithBackup, VersionOrder, SameVersion,
        AfterEntry, HasMeta, HasVersion, Stands, ShutdownInTime, FinalOperation, copy, Suspended
<1> QED BY <1>t, <1>a, <1>b, <1>c, <1>d, <1>e, <1>f

\* There is no snapshot.
LEMMA SnapshotFailsStep == Inv /\ SnapshotFails => Inv'
<1> SUFFICES ASSUME Inv, SnapshotFails PROVE Inv' OBVIOUS
<1> USE DEF Inv
<1>1. late' \in BOOLEAN /\ missed' \in BOOLEAN
  BY Zenon DEF TypeOK, SnapshotFails, ShutdownError
<1>t. TypeOK'
  BY <1>1, RecordFacts, MaxEventsAssumption DEF TypeOK, SnapshotFails, copy, Event,
        ShutdownError
<1>a. Scheduling'
  BY <1>1, RecordFacts DEF TypeOK, Scheduling, Suspended, SnapshotFails, copy, Event,
        ShutdownError
<1>b. VersionOrder'
  BY <1>1, RecordFacts DEF TypeOK, Scheduling, VersionOrder, AfterEntry, HasMeta, HasVersion,
        SnapshotFails, copy, Event, ShutdownError, Suspended
<1>c. SameVersion'
  BY <1>1, RecordFacts DEF TypeOK, Scheduling, VersionOrder, SameVersion, Stands,
        SnapshotFails, copy, Event, ShutdownError, Suspended
<1>d. ShutdownInTime'
  BY <1>1, RecordFacts DEF TypeOK, Scheduling, ShutdownInTime, FinalOperation, SnapshotFails,
        copy, Event, ShutdownError, Suspended
<1>e. DiscardUnderWay'
  BY <1>1, RecordFacts DEF TypeOK, Scheduling, DiscardUnderWay, Suspended, SnapshotFails, copy,
        Event, ShutdownError
<1>f. GoneWithBackup'
  BY <1>1, RecordFacts DEF TypeOK, Scheduling, GoneWithBackup, SnapshotFails, copy, Event,
        ShutdownError, Suspended
<1> QED BY <1>t, <1>a, <1>b, <1>c, <1>d, <1>e, <1>f

\* A file operation fails.
LEMMA EndFailsStep == Inv /\ EndFails => Inv'
<1> SUFFICES ASSUME Inv, EndFails PROVE Inv' OBVIOUS
<1> USE DEF Inv
<1>1. /\ io \in Operations /\ io # None /\ io' = None /\ missed' = TRUE
      /\ events' \in 0..MaxEvents
      /\ UNCHANGED <<copy, pending, entry, fresh, doomed>>
  BY RecordFacts, MaxEventsAssumption DEF TypeOK, EndFails, Event
<1>2. Corrupt \in Backups /\ Corrupt # None
  BY RecordFacts DEF Corrupt, Backups
<1>3. \/ /\ io.kind = "backup" /\ backup' \in {backup, Corrupt}
         /\ io.final => \/ shutdown' = "no" /\ late' = FALSE
                        \/ shutdown' = "gone" /\ late' = TRUE
         /\ ~io.final => shutdown' = shutdown /\ late' = late
      \/ /\ io.kind = "discard" /\ backup' = backup /\ late' = late
         /\ shutdown' = (IF io.final THEN "gone" ELSE shutdown)
  BY Zenon DEF EndFails, ShutdownError
<1>t. TypeOK'
  BY <1>1, <1>2, <1>3, RecordFacts, MaxEventsAssumption DEF TypeOK, copy, Event
<1>a. Scheduling'
  BY <1>1, <1>2, <1>3, RecordFacts DEF TypeOK, Scheduling, Suspended, copy, Event
<1>b. VersionOrder'
  BY <1>1, <1>2, <1>3, RecordFacts DEF TypeOK, Scheduling, VersionOrder, AfterEntry, HasMeta,
        HasVersion, copy, Event, Suspended
<1>c. SameVersion'
  BY <1>1, <1>2, <1>3, RecordFacts DEF TypeOK, Scheduling, VersionOrder, SameVersion,
        AfterEntry, HasMeta, HasVersion, Stands, copy, Event, Suspended
<1>d. ShutdownInTime'
  BY <1>1, <1>2, <1>3, RecordFacts DEF TypeOK, Scheduling, ShutdownInTime, FinalOperation,
        copy, Event, Suspended
<1>e. DiscardUnderWay'
  BY <1>1, <1>2, <1>3, RecordFacts DEF TypeOK, Scheduling, DiscardUnderWay, Suspended, copy,
        Event
<1>f. GoneWithBackup'
  BY <1>1, <1>2, <1>3, RecordFacts DEF TypeOK, Scheduling, GoneWithBackup, VersionOrder,
        SameVersion, AfterEntry, HasMeta, HasVersion, Stands, ShutdownInTime, FinalOperation,
        copy, Event, Suspended
<1> QED BY <1>t, <1>a, <1>b, <1>c, <1>d, <1>e, <1>f

\* A shutdown with hot exit.
LEMMA ShutdownHotExitStep == Inv /\ ShutdownHotExit => Inv'
<1> SUFFICES ASSUME Inv, ShutdownHotExit PROVE Inv' OBVIOUS
<1> USE DEF Inv
<1>1. /\ shutdown = "no" /\ dirty /\ events' \in 0..MaxEvents
      /\ UNCHANGED <<copy, io, backup, entry, fresh, late>>
  BY MaxEventsAssumption DEF TypeOK, ShutdownHotExit, Event, Suspended
<1>2. missed' \in BOOLEAN /\ (missed' <=> (missed \/ pending # None))
  BY Zenon DEF TypeOK, ShutdownHotExit
<1>3. \/ /\ entry # None /\ entry.version = contentVersion
         /\ pending' = None /\ shutdown' = "gone"
         /\ doomed' \in BOOLEAN /\ (doomed' <=> (doomed \/ Deleting))
      \/ /\ pending' \in Operations /\ pending' # None
         /\ pending'.kind = "backup" /\ pending'.phase = "snapshot" /\ pending'.final
         /\ pending'.text = text /\ pending'.version = contentVersion /\ pending'.meta = stat
         /\ shutdown' = "busy" /\ doomed' = doomed
  <2>1. CASE HasBackupSync
    <3>1. pending' = None /\ shutdown' = "gone" /\ doomed' = (doomed \/ Deleting)
      BY <2>1, Zenon DEF ShutdownHotExit
    <3>2. doomed' \in BOOLEAN /\ (doomed' <=> (doomed \/ Deleting))
      BY <3>1, Zenon DEF TypeOK
    <3> QED BY <2>1, <3>1, <3>2, Zenon DEF HasBackupSync
  <2>2. CASE ~HasBackupSync
    <3>1. pending' = Operation("backup", "snapshot", TRUE) /\ shutdown' = "busy" /\ doomed' = doomed
      BY <2>2, Zenon DEF ShutdownHotExit
    <3>2. text' = text /\ contentVersion' = contentVersion /\ stat' = stat
      BY <1>1, Zenon DEF copy
    <3> QED BY <3>1, <3>2, OperationFacts, RecordFacts DEF TypeOK
  <2> QED BY <2>1, <2>2
<1>t. TypeOK'
  BY <1>1, <1>2, <1>3, RecordFacts, MaxEventsAssumption DEF TypeOK, copy
<1>a. Scheduling'
  BY <1>1, <1>2, <1>3, RecordFacts DEF TypeOK, Scheduling, Suspended, copy
<1>b. VersionOrder'
  BY <1>1, <1>2, <1>3, RecordFacts DEF TypeOK, Scheduling, VersionOrder, AfterEntry, HasMeta,
        HasVersion, copy, Suspended
<1>c. SameVersion'
  BY <1>1, <1>2, <1>3, RecordFacts DEF TypeOK, Scheduling, VersionOrder, SameVersion, Stands,
        copy, Suspended
<1>d. ShutdownInTime'
  BY <1>1, <1>2, <1>3, RecordFacts DEF TypeOK, Scheduling, ShutdownInTime, FinalOperation,
        copy, Suspended
<1>e. DiscardUnderWay'
  BY <1>1, <1>2, <1>3, RecordFacts DEF TypeOK, Scheduling, DiscardUnderWay, Suspended, copy
<1>f. GoneWithBackup'
  BY <1>1, <1>2, <1>3, RecordFacts DEF TypeOK, Scheduling, GoneWithBackup, VersionOrder,
        SameVersion, AfterEntry, HasMeta, HasVersion, Stands, ShutdownInTime, FinalOperation,
        Deleting, copy, Suspended
<1> QED BY <1>t, <1>a, <1>b, <1>c, <1>d, <1>e, <1>f

\* A shutdown without hot exit.
LEMMA ShutdownConfirmStep == Inv /\ ShutdownConfirm => Inv'
<1> SUFFICES ASSUME Inv, ShutdownConfirm PROVE Inv' OBVIOUS
<1> USE DEF Inv
<1>1. missed' \in BOOLEAN /\ (missed' <=> (missed \/ pending # None))
  BY Zenon DEF TypeOK, ShutdownConfirm
<1>t. TypeOK'
  BY <1>1, RecordFacts, MaxEventsAssumption DEF TypeOK, ShutdownConfirm, copy, Event
<1>a. Scheduling'
  BY <1>1, RecordFacts DEF TypeOK, Scheduling, Suspended, ShutdownConfirm, copy, Event
<1>b. VersionOrder'
  BY <1>1, RecordFacts DEF TypeOK, Scheduling, VersionOrder, AfterEntry, HasMeta, HasVersion,
        ShutdownConfirm, copy, Event, Suspended
<1>c. SameVersion'
  BY <1>1, RecordFacts DEF TypeOK, Scheduling, VersionOrder, SameVersion, Stands,
        ShutdownConfirm, copy, Event, Suspended
<1>d. ShutdownInTime'
  BY <1>1, RecordFacts DEF TypeOK, Scheduling, ShutdownInTime, FinalOperation, ShutdownConfirm,
        copy, Event, Suspended
<1>e. DiscardUnderWay'
  BY <1>1, RecordFacts DEF TypeOK, Scheduling, DiscardUnderWay, Suspended, ShutdownConfirm,
        copy, Event
<1>f. GoneWithBackup'
  BY <1>1, RecordFacts DEF TypeOK, Scheduling, GoneWithBackup, ShutdownConfirm, copy, Event,
        Suspended
<1> QED BY <1>t, <1>a, <1>b, <1>c, <1>d, <1>e, <1>f

\* The user does not wait.
LEMMA StopWaitingStep == Inv /\ StopWaiting => Inv'
<1> SUFFICES ASSUME Inv, StopWaiting PROVE Inv' OBVIOUS
<1> USE DEF Inv
<1>1. /\ shutdown = "busy" /\ dirty /\ pending' = None /\ shutdown' = "confirm" /\ events' \in 0..MaxEvents
      /\ UNCHANGED <<copy, backup, entry, fresh, missed, doomed, late>>
  BY MaxEventsAssumption DEF TypeOK, StopWaiting, Event
<1>2. \/ io = None /\ io' = None
      \/ /\ io \in Operations /\ io # None /\ io' \in Operations /\ io' # None /\ ~io'.final
         /\ io'.kind = io.kind /\ io'.phase = io.phase
         /\ io'.text = io.text /\ io'.version = io.version /\ io'.meta = io.meta
  BY NotFinalFacts, RecordFacts, Zenon DEF StopWaiting, TypeOK
<1>t. TypeOK'
  BY <1>1, <1>2, RecordFacts, MaxEventsAssumption DEF TypeOK, copy
<1>a. Scheduling'
  BY <1>1, <1>2, RecordFacts DEF TypeOK, Scheduling, Suspended, copy
<1>b. VersionOrder'
  BY <1>1, <1>2, RecordFacts DEF TypeOK, Scheduling, VersionOrder, AfterEntry, HasMeta,
        HasVersion, copy, Suspended
<1>c. SameVersion'
  BY <1>1, <1>2, RecordFacts DEF TypeOK, Scheduling, VersionOrder, SameVersion, Stands, copy,
        Suspended
<1>d. ShutdownInTime'
  BY <1>1, <1>2, RecordFacts DEF TypeOK, Scheduling, ShutdownInTime, FinalOperation, copy,
        Suspended
<1>e. DiscardUnderWay'
  BY <1>1, <1>2, RecordFacts DEF TypeOK, Scheduling, DiscardUnderWay, Suspended, copy
<1>f. GoneWithBackup'
  BY <1>1, <1>2, RecordFacts DEF TypeOK, Scheduling, GoneWithBackup, copy, Suspended
<1> QED BY <1>t, <1>a, <1>b, <1>c, <1>d, <1>e, <1>f

\* The user saves, or does not.
LEMMA ConfirmSaveOrRevertStep == Inv /\ ConfirmSaveOrRevert => Inv'
<1> SUFFICES ASSUME Inv, ConfirmSaveOrRevert PROVE Inv' OBVIOUS
<1> USE DEF Inv
<1>1. /\ shutdown = "confirm" /\ shutdown' = "busy" /\ dirty' = FALSE
      /\ UNCHANGED <<text, hidden, contentVersion, io, backup, entry, events, missed, doomed, late>>
  BY Zenon DEF ConfirmSaveOrRevert
<1>2. /\ file' \in Backups /\ stat' \in Nat /\ fresh' \in Nat
      /\ file'.text = text \/ (file' = file /\ stat' = stat)
  BY RecordFacts DEF ConfirmSaveOrRevert, TypeOK, Backups
<1>3. /\ pending' \in Operations /\ pending' # None
      /\ pending'.kind = "discard" /\ pending'.phase = "queue" /\ pending'.final
  <2>1. pending' = Operation("discard", "queue", TRUE)
    BY Zenon DEF ConfirmSaveOrRevert
  <2> QED BY <1>1, <1>2, <2>1, OperationFacts, RecordFacts DEF TypeOK
<1>t. TypeOK'
  BY <1>1, <1>2, <1>3, RecordFacts, MaxEventsAssumption DEF TypeOK
<1>a. Scheduling'
  BY <1>1, <1>2, <1>3, RecordFacts DEF TypeOK, Scheduling, Suspended
<1>b. VersionOrder'
  BY <1>1, <1>2, <1>3, RecordFacts DEF TypeOK, Scheduling, VersionOrder, AfterEntry, HasMeta,
        HasVersion, Suspended
<1>c. SameVersion'
  BY <1>1, <1>2, <1>3, RecordFacts DEF TypeOK, Scheduling, VersionOrder, SameVersion, Stands,
        Suspended
<1>d. ShutdownInTime'
  BY <1>1, <1>2, <1>3, RecordFacts DEF TypeOK, Scheduling, ShutdownInTime, FinalOperation,
        Suspended
<1>e. DiscardUnderWay'
  BY <1>1, <1>2, <1>3, RecordFacts DEF TypeOK, Scheduling, DiscardUnderWay, Suspended
<1>f. GoneWithBackup'
  BY <1>1, <1>2, <1>3, RecordFacts DEF TypeOK, Scheduling, GoneWithBackup, Suspended
<1> QED BY <1>t, <1>a, <1>b, <1>c, <1>d, <1>e, <1>f

\* The shutdown is vetoed.
LEMMA VetoStep == Inv /\ Veto => Inv'
<1> SUFFICES ASSUME Inv, Veto PROVE Inv' OBVIOUS
<1> USE DEF Inv
<1>t. TypeOK'
  BY RecordFacts, MaxEventsAssumption DEF TypeOK, Veto, copy
<1>a. Scheduling'
  BY RecordFacts DEF TypeOK, Scheduling, Suspended, Veto, copy
<1>b. VersionOrder'
  BY RecordFacts DEF TypeOK, Scheduling, VersionOrder, AfterEntry, HasMeta, HasVersion, Veto,
        copy, Suspended
<1>c. SameVersion'
  BY RecordFacts DEF TypeOK, Scheduling, VersionOrder, SameVersion, Stands, Veto, copy,
        Suspended
<1>d. ShutdownInTime'
  BY RecordFacts DEF TypeOK, Scheduling, ShutdownInTime, FinalOperation, Veto, copy, Suspended
<1>e. DiscardUnderWay'
  BY RecordFacts DEF TypeOK, Scheduling, DiscardUnderWay, Suspended, Veto, copy
<1>f. GoneWithBackup'
  BY RecordFacts DEF TypeOK, Scheduling, GoneWithBackup, Veto, copy, Suspended
<1> QED BY <1>t, <1>a, <1>b, <1>c, <1>d, <1>e, <1>f

\* A shutdown with nothing to save.
LEMMA ShutdownUnmodifiedStep == Inv /\ ShutdownUnmodified => Inv'
<1> SUFFICES ASSUME Inv, ShutdownUnmodified PROVE Inv' OBVIOUS
<1> USE DEF Inv
<1>1. missed' \in BOOLEAN /\ (missed' <=> (missed \/ pending # None))
  BY Zenon DEF TypeOK, ShutdownUnmodified
<1>t. TypeOK'
  BY <1>1, RecordFacts, MaxEventsAssumption DEF TypeOK, ShutdownUnmodified, copy, Event
<1>a. Scheduling'
  BY <1>1, RecordFacts DEF TypeOK, Scheduling, Suspended, ShutdownUnmodified, copy, Event
<1>b. VersionOrder'
  BY <1>1, RecordFacts DEF TypeOK, Scheduling, VersionOrder, AfterEntry, HasMeta, HasVersion,
        ShutdownUnmodified, copy, Event, Suspended
<1>c. SameVersion'
  BY <1>1, RecordFacts DEF TypeOK, Scheduling, VersionOrder, SameVersion, Stands,
        ShutdownUnmodified, copy, Event, Suspended
<1>d. ShutdownInTime'
  BY <1>1, RecordFacts DEF TypeOK, Scheduling, ShutdownInTime, FinalOperation,
        ShutdownUnmodified, copy, Event, Suspended
<1>e. DiscardUnderWay'
  BY <1>1, RecordFacts DEF TypeOK, Scheduling, DiscardUnderWay, Suspended, ShutdownUnmodified,
        copy, Event
<1>f. GoneWithBackup'
  BY <1>1, RecordFacts DEF TypeOK, Scheduling, GoneWithBackup, ShutdownUnmodified, copy, Event,
        Suspended
<1> QED BY <1>t, <1>a, <1>b, <1>c, <1>d, <1>e, <1>f

\* The model is cleared.
LEMMA ClearStep == Inv /\ Clear => Inv'
<1> SUFFICES ASSUME Inv, Clear PROVE Inv' OBVIOUS
<1> USE DEF Inv
<1>t. TypeOK'
  BY RecordFacts, MaxEventsAssumption DEF TypeOK, Clear, copy
<1>a. Scheduling'
  BY RecordFacts DEF TypeOK, Scheduling, Suspended, Clear, copy
<1>b. VersionOrder'
  BY RecordFacts DEF TypeOK, Scheduling, VersionOrder, AfterEntry, HasMeta, HasVersion, Clear,
        copy, Suspended
<1>c. SameVersion'
  BY RecordFacts DEF TypeOK, Scheduling, VersionOrder, SameVersion, Stands, Clear, copy,
        Suspended
<1>d. ShutdownInTime'
  BY RecordFacts DEF TypeOK, Scheduling, ShutdownInTime, FinalOperation, Clear, copy, Suspended
<1>e. DiscardUnderWay'
  BY RecordFacts DEF TypeOK, Scheduling, DiscardUnderWay, Suspended, Clear, copy
<1>f. GoneWithBackup'
  BY RecordFacts DEF TypeOK, Scheduling, GoneWithBackup, ShutdownInTime, Clear, copy, Suspended
<1> QED BY <1>t, <1>a, <1>b, <1>c, <1>d, <1>e, <1>f

\* The next session begins with what is on disk: every version is 0, and the
\* text is that of the backup.
LEMMA RestartStep ==
    ASSUME Inv, NEW b \in Backups \cup {None}, Restart(b), events' \in 0..MaxEvents
    PROVE  Inv'
<1> USE DEF Inv
<1>1. /\ backup' = b /\ io' = None /\ fresh' = fresh /\ file' = file
      /\ hidden' = FALSE /\ contentVersion' = 0 /\ shutdown' = "no"
      /\ missed' = FALSE /\ doomed' = FALSE /\ late' = FALSE
  BY Zenon DEF Restart
<1>2. \/ b # None /\ b # Corrupt /\ text' = b.text /\ stat' = b.meta /\ dirty' = TRUE
      \/ b \in {None, Corrupt} /\ text' = file.text /\ stat' = file.meta /\ dirty' = FALSE
  BY Zenon DEF Restart
<1>3. \/ b = None /\ entry' = None
      \/ b # None /\ entry' \in Entries /\ entry' # None /\ entry'.version = 0 /\ entry'.meta = b.meta
  BY RecordFacts DEF Restart, Entries
<1>4. text' \in Nat /\ stat' \in Nat /\ dirty' \in BOOLEAN
  BY <1>2, RecordFacts DEF TypeOK
<1>5. \/ ~dirty' /\ pending' = None
      \/ /\ dirty' /\ pending' \in Operations /\ pending' # None /\ ~pending'.final
         /\ pending'.kind = "backup" /\ pending'.phase = "timer"
         /\ pending'.text = text' /\ pending'.version = 0 /\ pending'.meta = stat'
  <2>1. CASE dirty'
    <3>1. pending' = Operation("backup", "timer", FALSE)
      BY <2>1, Zenon DEF Restart
    <3> QED BY <1>1, <1>4, <2>1, <3>1, OperationFacts, RecordFacts
  <2>2. CASE ~dirty'
    BY <2>2, Zenon DEF Restart
  <2> QED BY <2>1, <2>2
<1>t. TypeOK'
  BY <1>1, <1>3, <1>4, <1>5 DEF TypeOK
<1>a. Scheduling'
  BY <1>1, <1>5 DEF Scheduling, Suspended
<1>b. VersionOrder'
  BY <1>1, <1>3, <1>5 DEF VersionOrder, AfterEntry
<1>c. SameVersion'
  BY <1>1, <1>2, <1>3, <1>5 DEF SameVersion, Stands
<1>d. ShutdownInTime'
  BY <1>1, <1>5 DEF ShutdownInTime, FinalOperation
<1>e. DiscardUnderWay'
  BY <1>1, <1>2, <1>5 DEF DiscardUnderWay, Suspended
<1>f. GoneWithBackup'
  BY <1>1 DEF GoneWithBackup
<1> QED BY <1>t, <1>a, <1>b, <1>c, <1>d, <1>e, <1>f

\* Reopening after a shutdown.
LEMMA ReopenStep == Inv /\ Reopen => Inv'
<1> SUFFICES ASSUME Inv, Reopen PROVE Inv' OBVIOUS
<1>1. events' \in 0..MaxEvents /\ backup \in Backups \cup {None}
  BY MaxEventsAssumption DEF Inv, TypeOK, Reopen, Event
<1>2. Restart(backup)
  BY DEF Reopen
<1> QED BY <1>1, <1>2, RestartStep

\* Reopening after a crash, in the middle of a file operation or not.
LEMMA CrashStep == Inv /\ Crash => Inv'
<1> SUFFICES ASSUME Inv, Crash PROVE Inv' OBVIOUS
<1>1. events' \in 0..MaxEvents
  BY MaxEventsAssumption DEF Inv, TypeOK, Crash, Event
<1>2. \E b \in Backups \cup {None} : Restart(b)
  <2>1. CASE Restart(backup)
    <3>1. backup \in Backups \cup {None}
      BY Zenon DEF Inv, TypeOK
    <3> QED BY <2>1, <3>1
  <2>2. CASE io # None /\ Restart(Corrupt)
    <3>1. Corrupt \in Backups
      BY DEF Corrupt, Backups
    <3> QED BY <2>2, <3>1
  <2>3. CASE io # None /\ Restart([text |-> io.text, meta |-> io.meta])
    <3>1. io \in Operations
      BY <2>3, Zenon DEF Inv, TypeOK
    <3>2. [text |-> io.text, meta |-> io.meta] \in Backups
      BY <3>1, RecordFacts DEF Backups
    <3> QED BY <2>3, <3>2
  <2>4. CASE Restart(None)
    BY <2>4
  <2> QED BY <2>1, <2>2, <2>3, <2>4, Zenon DEF Crash
<1> QED BY <1>1, <1>2, RestartStep

-----------------------------------------------------------------------------

LEMMA InitInv == Init => Inv
<1> SUFFICES ASSUME Init PROVE Inv OBVIOUS
<1>1. [text |-> 1, meta |-> 1] \in Backups
  BY DEF Backups
<1>2. dirty \in BOOLEAN /\ hidden \in BOOLEAN /\ missed \in BOOLEAN /\ doomed \in BOOLEAN /\ late \in BOOLEAN
  BY Zenon DEF Init
<1>3. TypeOK
  BY <1>1, <1>2, MaxEventsAssumption DEF Init, TypeOK
<1>4. Scheduling /\ VersionOrder /\ SameVersion /\ ShutdownInTime /\ DiscardUnderWay /\ GoneWithBackup
  BY DEF Init, Scheduling, VersionOrder, SameVersion, ShutdownInTime, FinalOperation, DiscardUnderWay,
         GoneWithBackup
<1> QED BY <1>3, <1>4 DEF Inv

LEMMA StutterInv == Inv /\ UNCHANGED vars => Inv'
  BY DEF Inv, vars, copy, TypeOK, Scheduling, VersionOrder, AfterEntry, HasMeta, HasVersion, SameVersion,
         Stands, ShutdownInTime, FinalOperation, DiscardUnderWay, GoneWithBackup, Suspended

\* The relations between pending operation, file operation, model of the
\* backups and backup file hold in every state.
THEOREM Invariance == Spec => []Inv
<1>1. Inv /\ [Next]_vars => Inv'
  <2> SUFFICES ASSUME Inv, [Next]_vars PROVE Inv' OBVIOUS
  <2>1. CASE Edit \/ Undo \/ Save \/ SoftRevert \/ MarkModified \/ Revert \/ Reverted \/ RevertFails
    BY <2>1, EditStep, UndoStep, SaveStep, SoftRevertStep, MarkModifiedStep, RevertStep, RevertedStep,
       RevertFailsStep
  <2>2. CASE TimerFires \/ SnapshotDone \/ Begin \/ End \/ SnapshotFails \/ EndFails
    BY <2>2, TimerFiresStep, SnapshotDoneStep, BeginStep, EndStep, SnapshotFailsStep, EndFailsStep
  <2>3. CASE \/ ShutdownHotExit \/ ShutdownConfirm \/ StopWaiting \/ ConfirmSaveOrRevert \/ Veto
             \/ ShutdownUnmodified \/ Clear
    BY <2>3, ShutdownHotExitStep, ShutdownConfirmStep, StopWaitingStep, ConfirmSaveOrRevertStep, VetoStep,
       ShutdownUnmodifiedStep, ClearStep
  <2>4. CASE Reopen \/ Crash
    BY <2>4, ReopenStep, CrashStep
  <2>5. CASE UNCHANGED vars
    BY <2>5, StutterInv
  <2> QED BY <2>1, <2>2, <2>3, <2>4, <2>5 DEF Next
<1> QED BY InitInv, <1>1, PTL DEF Spec

\* The version that the model of the backups knows tells the content of the
\* backup file, so that WorkingCopyBackupService.backup and hasBackupSync may
\* return early: for any sequence of edits, saves, reverts, shutdowns,
\* failures and crashes.
THEOREM VersionIsReliable == Spec => []VersionTellsContent
<1>1. Inv => VersionTellsContent
  BY DEF Inv, SameVersion, VersionTellsContent
<1> QED BY Invariance, <1>1, PTL

\* A working copy that is not dirty, with nothing scheduled, has no backup
\* that a later session would restore.
THEOREM StaleBackupsAreDeleted == Spec => []NoStaleBackup
<1>1. Inv => NoStaleBackup
  BY DEF Inv, DiscardUnderWay, NoStaleBackup
<1> QED BY Invariance, <1>1, PTL

\* A window that has closed without asking left the unsaved text in the
\* backup: whichever way onFinalBeforeShutdown has ended, and whatever the
\* queue of file operations was busy with.
THEOREM HotExitLosesNothing == Spec => []HotExitKeepsText
<1>1. Inv => HotExitKeepsText
  BY DEF Inv, GoneWithBackup, HotExitKeepsText
<1> QED BY Invariance, <1>1, PTL

=============================================================================
