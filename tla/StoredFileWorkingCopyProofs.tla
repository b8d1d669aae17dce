--------------------- MODULE StoredFileWorkingCopyProofs ---------------------
(***************************************************************************)
(* Proofs about StoredFileWorkingCopy, for any number of events.           *)
(*                                                                         *)
(* The code decides by numbers: by versions whether the working copy is    *)
(* clean, by modification times and sizes whether the file is the one it   *)
(* knows.  The inductive invariant Inv says which text each number stands  *)
(* for, in the model, in the save and the resolve under way, in the known  *)
(* stat and on disk, and which of these texts the user has seen; the four  *)
(* properties follow from it.                                              *)
(***************************************************************************)
EXTENDS StoredFileWorkingCopy, TLAPS

\* The sequentializer runs one save at a time.
OneSave ==
    /\ running = None => saves = {}
    /\ \A s \in saves : saves = {s} /\ s.id = running

\* The files that somebody knows the stat of.
Known(f) ==
    \/ f = stat \/ f = stored \/ (disk # None /\ f = disk)
    \/ \E s \in saves : f = s.stat
    \/ resolving # None /\ (f = resolving.etag \/ (resolving.answer # None /\ f = resolving.answer))

\* A modification time stands for one text, and the file on disk is the newest.
TimesTellTexts ==
    \A f \in Files : Known(f) =>
        /\ f.mtime <= fresh
        /\ disk # None => f.mtime <= disk.mtime
        /\ \A g \in Files : Known(g) /\ f.mtime = g.mtime => f.text = g.text

\* What the model has or a save writes was seen by the user.
TextsAreSeen ==
    /\ \A i \in DOMAIN model : model[i].text \in seen
    /\ \A s \in saves : s.phase \in {"snapshot", "write", "stat", "written"} => s.text \in seen

\* The text of f was seen, or is about to be.
Seen(f) == f.text \in seen \/ blind
SeenSoon(f) == Seen(f) \/ (Updating /\ f.text = resolving.answer.text)

StatsAreSeen ==
    /\ SeenSoon(stat)
    /\ \A s \in saves : s.phase = "snapshot" => SeenSoon(s.stat)
    /\ resolving # None => Seen(resolving.etag) /\ (Updating => resolving.answer # None)

\* What the working copy itself has written it knows, or is about to.
OwnFileIsKnown ==
    disk # None /\ disk.own =>
        /\ \/ disk.mtime <= stat.mtime
           \/ \E s \in saves : s.phase = "stat" \/ (s.phase = "written" /\ disk.mtime <= s.stat.mtime)
        /\ \A s \in saves : s.phase = "snapshot" => disk.mtime <= s.stat.mtime

\* A version stands for one text, and savedVersionId for the stored one.
VersionsTellTexts ==
    /\ \A i \in DOMAIN model : model[i].version <= fresh
    /\ \A i, j \in DOMAIN model : model[i].version = model[j].version => model[i].text = model[j].text
    /\ ~outdated =>
          /\ savedVersionId <= fresh
          /\ \A i \in DOMAIN model : model[i].version = savedVersionId => model[i].text = stored.text
          /\ ~dirty => Current(model).version = savedVersionId

\* The versionId of a save stands for the text that it writes.
SavesTellTexts ==
    \A s \in saves :
        /\ s.id <= versionId
        /\ s.id = versionId /\ s.phase \in {"snapshot", "write", "stat", "written"} => s.text = Current(model).text
        /\ s.id = versionId /\ s.phase \in {"stat", "written"} => stored.text = s.text

Inv ==
    /\ TypeOK /\ OneSave /\ TimesTellTexts /\ TextsAreSeen /\ StatsAreSeen /\ OwnFileIsKnown
    /\ VersionsTellTexts /\ SavesTellTexts

-----------------------------------------------------------------------------
(* Records and sequences *)

\* Files, saves, resolves and reverts have the fields that they were made
\* with, and none of them is None.
LEMMA RecordFacts ==
    /\ \A f \in Files : f # None /\ f.text \in Nat /\ f.mtime \in Nat /\ f.own \in BOOLEAN
    /\ \A v \in Versions : v.version \in Nat /\ v.text \in Nat
    /\ \A s \in Saves :
          /\ s.id \in Nat /\ s.phase \in {"throttled", "participants", "snapshot", "write", "stat", "written"}
          /\ s.cancelled \in BOOLEAN /\ s.text \in Nat /\ s.stat \in Files /\ s.overwrite \in BOOLEAN
    /\ \A r \in Reads :
          /\ r # None /\ r.phase \in {"read", "answer", "update"} /\ r.versionId \in Nat
          /\ r.etag \in Files /\ r.answer \in Files \cup {None}
    /\ \A r \in Reverts : r # None /\ r.waits \in BOOLEAN
    /\ \A n \in Nat : n # None
    /\ \A o \in SaveOptions : o # None
  BY NoneAssumption DEF Files, Versions, Saves, Reads, Reverts

LEMMA RevertFacts ==
    ASSUME NEW r \in Reverts
    PROVE  /\ r.was[1] \in BOOLEAN /\ r.was[2] \in Nat /\ r.was[3] \in BOOLEAN /\ r.was[4] \in BOOLEAN
           /\ Resolving(r) \in Reverts
<1>1. r.was \in BOOLEAN \X Nat \X BOOLEAN \X BOOLEAN
  BY DEF Reverts
<1>2. Resolving(r) \in Reverts
  BY Zenon DEF Resolving, Reverts
<1> QED BY <1>1, <1>2

\* What the updates of a save change, and what not.
LEMMA InPhaseFacts ==
    ASSUME NEW s \in Saves, NEW phase \in {"throttled", "participants", "snapshot", "write", "stat", "written"}
    PROVE  /\ InPhase(s, phase) \in Saves /\ InPhase(s, phase).phase = phase
           /\ InPhase(s, phase).id = s.id /\ InPhase(s, phase).cancelled = s.cancelled
           /\ InPhase(s, phase).text = s.text /\ InPhase(s, phase).stat = s.stat
           /\ InPhase(s, phase).overwrite = s.overwrite
  BY Zenon DEF InPhase, Saves

LEMMA CancelledFacts ==
    ASSUME NEW s \in Saves
    PROVE  /\ Cancelled(s) \in Saves /\ Cancelled(s).phase = s.phase /\ Cancelled(s).id = s.id
           /\ Cancelled(s).text = s.text /\ Cancelled(s).stat = s.stat
  BY Zenon DEF Cancelled, Saves

LEMMA WithStatFacts ==
    ASSUME NEW s \in Saves, NEW f \in Files
    PROVE  /\ WithStat(s, f) \in Saves /\ WithStat(s, f).phase = "written" /\ WithStat(s, f).stat = f
           /\ WithStat(s, f).id = s.id /\ WithStat(s, f).text = s.text
  BY Zenon DEF WithStat, Saves

LEMMA DisownedFacts ==
    ASSUME NEW f \in Files
    PROVE  /\ Disowned(f) \in Files /\ ~Disowned(f).own
           /\ Disowned(f).text = f.text /\ Disowned(f).mtime = f.mtime
  BY Zenon DEF Disowned, Files

LEMMA AnsweredFacts ==
    ASSUME NEW r \in Reads, NEW f \in Files \cup {None}
    PROVE  /\ Answered(r, f) \in Reads /\ Answered(r, f).phase = "answer" /\ Answered(r, f).answer = f
           /\ Answered(r, f).versionId = r.versionId /\ Answered(r, f).etag = r.etag
  BY Zenon DEF Answered, Reads

LEMMA AcceptedFacts ==
    ASSUME NEW r \in Reads
    PROVE  /\ Accepted(r) \in Reads /\ Accepted(r).phase = "update" /\ Accepted(r).answer = r.answer
           /\ Accepted(r).versionId = r.versionId /\ Accepted(r).etag = r.etag
  BY Zenon DEF Accepted, Reads

\* A save begins with the version and the stat of now.
LEMMA NewSaveFacts ==
    ASSUME TypeOK, NEW o
    PROVE  /\ NewSave(o) \in Saves /\ NewSave(o).id = versionId /\ NewSave(o).stat = stat
           /\ NewSave(o).phase \in {"throttled", "participants"}
<1>1. (o = "overwrite") \in BOOLEAN
  OBVIOUS
<1>2. (IF o = "auto" /\ undone THEN "throttled" ELSE "participants") \in {"throttled", "participants"}
  OBVIOUS
<1> QED BY <1>1, <1>2 DEF NewSave, Saves, TypeOK

\* So does a resolve.
LEMMA NewReadFacts ==
    ASSUME versionId' \in Nat, stat' \in Files
    PROVE  /\ NewRead \in Reads /\ NewRead.phase = "read" /\ NewRead.versionId = versionId'
           /\ NewRead.etag = stat' /\ NewRead.answer = None
  BY DEF NewRead, Reads

\* The current version is one of the stack.
LEMMA CurrentFacts ==
    ASSUME NEW m \in Seq(Versions), m # <<>>
    PROVE  /\ Len(m) \in DOMAIN m /\ Current(m) = m[Len(m)] /\ Current(m) \in Versions
           /\ \A i \in DOMAIN m : m[i] \in Versions
  BY DEF Current

\* Typing puts a version on the stack.
LEMMA PushFacts ==
    ASSUME NEW m \in Seq(Versions), NEW v \in Versions
    PROVE  /\ Append(m, v) \in Seq(Versions) /\ Append(m, v) # <<>> /\ Current(Append(m, v)) = v
           /\ \A i \in DOMAIN Append(m, v) : Append(m, v)[i] = v \/ (i \in DOMAIN m /\ Append(m, v)[i] = m[i])
  BY DEF Current

\* Undo takes one off.
LEMMA TakeFacts ==
    ASSUME NEW m \in Seq(Versions), NEW n \in 1..Len(m)
    PROVE  /\ SubSeq(m, 1, n) \in Seq(Versions) /\ SubSeq(m, 1, n) # <<>>
           /\ \A i \in DOMAIN SubSeq(m, 1, n) : i \in DOMAIN m /\ SubSeq(m, 1, n)[i] = m[i]
<1>1. /\ SubSeq(m, 1, n) \in Seq(Versions) /\ Len(SubSeq(m, 1, n)) = n
      /\ \A i \in 1..n : SubSeq(m, 1, n)[i] = m[i]
  OBVIOUS
<1> QED BY <1>1

\* The newer of two stats is one of them, and not older than either.
LEMMA NewerStatFacts ==
    ASSUME TypeOK, NEW f \in Files
    PROVE  /\ NewerStat(f) \in {stat, f} /\ NewerStat(f) \in Files
           /\ stat.mtime <= NewerStat(f).mtime /\ f.mtime <= NewerStat(f).mtime
  BY RecordFacts DEF NewerStat, TypeOK

-----------------------------------------------------------------------------
(* Modification times *)

\* A step that learns of no file that was unknown.
LEMMA KeepTimes ==
    ASSUME TimesTellTexts, fresh \in Nat, fresh' \in Nat, fresh <= fresh',
           disk \in Files \cup {None}, disk' \in Files \cup {None},
           \A f \in Files : Known(f)' => \E g \in Files : Known(g) /\ f.mtime = g.mtime /\ f.text = g.text,
           disk' # None => disk # None /\ disk'.mtime = disk.mtime
    PROVE  TimesTellTexts'
<1> SUFFICES ASSUME NEW f \in Files, Known(f)'
             PROVE  /\ f.mtime <= fresh'
                    /\ disk' # None => f.mtime <= disk'.mtime
                    /\ \A g \in Files : Known(g)' /\ f.mtime = g.mtime => f.text = g.text
  BY DEF TimesTellTexts
<1> HIDE DEF Known
<1>1. PICK h \in Files : Known(h) /\ f.mtime = h.mtime /\ f.text = h.text
  OBVIOUS
<1>2. f.mtime <= fresh' /\ (disk' # None => f.mtime <= disk'.mtime)
  BY <1>1, RecordFacts DEF TimesTellTexts
<1>3. ASSUME NEW g \in Files, Known(g)', f.mtime = g.mtime PROVE f.text = g.text
  <2>1. PICK k \in Files : Known(k) /\ g.mtime = k.mtime /\ g.text = k.text
    BY <1>3
  <2> QED BY <1>1, <1>3, <2>1 DEF TimesTellTexts
<1> QED BY <1>2, <1>3

\* A step that writes the file.
LEMMA NewTime ==
    ASSUME TimesTellTexts, fresh \in Nat, fresh' \in Nat, fresh < fresh',
           disk' \in Files, disk'.mtime = fresh + 1,
           \A f \in Files : Known(f)' => Known(f) \/ f = disk'
    PROVE  TimesTellTexts'
<1> SUFFICES ASSUME NEW f \in Files, Known(f)'
             PROVE  /\ f.mtime <= fresh'
                    /\ f.mtime <= disk'.mtime
                    /\ \A g \in Files : Known(g)' /\ f.mtime = g.mtime => f.text = g.text
  BY DEF TimesTellTexts
<1> HIDE DEF Known
<1>1. \A g \in Files : Known(g) => g.mtime <= fresh
  BY DEF TimesTellTexts
<1>2. f.mtime <= fresh' /\ f.mtime <= disk'.mtime
  BY <1>1, RecordFacts
<1>3. ASSUME NEW g \in Files, Known(g)', f.mtime = g.mtime PROVE f.text = g.text
  BY <1>1, <1>3, RecordFacts DEF TimesTellTexts
<1> QED BY <1>2, <1>3

-----------------------------------------------------------------------------
(* Edits *)

\* onModelContentChanged with a stack whose versions stand for one text each.
LEMMA ContentChangedStep ==
    ASSUME Inv, NEW m \in Seq(Versions), m # <<>>, ContentChanged(m),
           fresh' \in Nat, fresh <= fresh', undone' \in BOOLEAN,
           \A i \in DOMAIN m : m[i].version <= fresh' /\ m[i].text \in seen \cup {Current(m).text},
           \A i, j \in DOMAIN m : m[i].version = m[j].version => m[i].text = m[j].text,
           ~outdated => \A i \in DOMAIN m : m[i].version = savedVersionId => m[i].text = stored.text
    PROVE  Inv'
<1> USE DEF Inv
<1>1. /\ model' = m /\ versionId' = versionId + 1 /\ seen' = seen \cup {Current(m).text}
      /\ savedVersionId' = savedVersionId
      /\ UNCHANGED <<disk, stat, saves, running, queued, promised, resolving, reverting, blind, stored>>
  BY DEF ContentChanged, SetDirty, flags, saving
<1>2. events' \in 0..MaxEvents
  BY MaxEventsAssumption DEF ContentChanged, Event, TypeOK
<1>3. /\ dirty' \in BOOLEAN /\ inConflictMode' \in BOOLEAN /\ inErrorMode' \in BOOLEAN /\ outdated' \in BOOLEAN
      /\ unmarked' \in BOOLEAN
      /\ ~outdated' => ~outdated /\ (~dirty' => Current(m).version = savedVersionId)
  <2>0. unmarked' \in BOOLEAN
    BY Zenon DEF ContentChanged, Updating
  <2>1. CASE Updating
    BY <2>0, <2>1, Zenon DEF ContentChanged, TypeOK, flags
  <2>2. CASE ~Updating
    <3>1. outdated' = outdated /\ SetDirty(Current(m).version # savedVersionId, savedVersionId)
      BY <2>2, Zenon DEF ContentChanged
    <3> QED BY <2>0, <3>1, Zenon DEF SetDirty, TypeOK
  <2> QED BY <2>1, <2>2
<1>4. Current(m) \in Versions /\ Current(model) \in Versions
  BY CurrentFacts DEF TypeOK
<1>5. seen' \subseteq Nat /\ versionId' \in Nat
  <2>1. Current(m).text \in Nat
    BY <1>4, RecordFacts
  <2>2. seen' \subseteq Nat
    BY <1>1, <2>1, Zenon DEF TypeOK
  <2> QED BY <1>1, <2>2 DEF TypeOK
<1>a. TypeOK'
  BY <1>1, <1>2, <1>3, <1>5 DEF TypeOK
<1>b. OneSave'
  BY <1>1 DEF OneSave
<1>c. TimesTellTexts'
  <2>1. \A f \in Files : Known(f)' <=> Known(f)
    BY <1>1 DEF Known
  <2> QED BY <1>1, <2>1, KeepTimes, Zenon DEF TypeOK
<1>d. TextsAreSeen'
  BY <1>1 DEF TextsAreSeen
<1>e. StatsAreSeen'
  BY <1>1 DEF StatsAreSeen, SeenSoon, Seen, Updating
<1>f. OwnFileIsKnown'
  BY <1>1 DEF OwnFileIsKnown
<1>g. VersionsTellTexts'
  BY <1>1, <1>3, <1>4, RecordFacts DEF VersionsTellTexts, TypeOK
<1>h. SavesTellTexts'
  BY <1>1, RecordFacts DEF SavesTellTexts, TypeOK
<1> QED BY <1>a, <1>b, <1>c, <1>d, <1>e, <1>f, <1>g, <1>h

\* The user types: the new version is none that was used before.
LEMMA EditStep == Inv /\ Edit => Inv'
<1> SUFFICES ASSUME Inv, Edit PROVE Inv' OBVIOUS
<1> DEFINE v == [version |-> fresh + 1, text |-> fresh + 1]
           m == Append(model, v)
<1>1. /\ fresh \in Nat /\ fresh' = fresh + 1 /\ undone' \in BOOLEAN /\ ContentChanged(m)
      /\ model \in Seq(Versions) /\ model # <<>> /\ v \in Versions
  BY DEF Inv, TypeOK, Edit, Versions
<1>2. v.version = fresh + 1 /\ v.text = fresh + 1
  OBVIOUS
<1> HIDE DEF v
<1>3. /\ m \in Seq(Versions) /\ m # <<>> /\ Current(m) = v
      /\ \A i \in DOMAIN m : m[i] = v \/ (i \in DOMAIN model /\ m[i] = model[i])
  BY <1>1, PushFacts
<1> HIDE DEF m
<1>4. \A i \in DOMAIN model : model[i] \in Versions /\ model[i].version \in Nat
  BY <1>1, CurrentFacts, RecordFacts
<1>5. \A i \in DOMAIN m : m[i].version <= fresh' /\ m[i].text \in seen \cup {Current(m).text}
  BY <1>1, <1>2, <1>3, <1>4 DEF Inv, VersionsTellTexts, TextsAreSeen
<1>6. \A i, j \in DOMAIN m : m[i].version = m[j].version => m[i].text = m[j].text
  BY <1>1, <1>2, <1>3, <1>4 DEF Inv, VersionsTellTexts
<1>7. ~outdated => \A i \in DOMAIN m : m[i].version = savedVersionId => m[i].text = stored.text
  BY <1>1, <1>2, <1>3, <1>4 DEF Inv, VersionsTellTexts, TypeOK
<1> QED BY <1>1, <1>3, <1>5, <1>6, <1>7, ContentChangedStep

\* The user undoes an edit.
LEMMA UndoStep == Inv /\ Undo => Inv'
<1> SUFFICES ASSUME Inv, Undo PROVE Inv' OBVIOUS
<1> DEFINE n == Len(model) - 1
           m == SubSeq(model, 1, n)
<1>1. /\ fresh \in Nat /\ fresh' = fresh /\ ContentChanged(m)
      /\ model \in Seq(Versions) /\ Len(model) > 1
  BY DEF Inv, TypeOK, Undo
<1>2. undone' \in BOOLEAN
  BY Zenon DEF Undo
<1>3. /\ m \in Seq(Versions) /\ m # <<>>
      /\ \A i \in DOMAIN m : i \in DOMAIN model /\ m[i] = model[i]
  <2>1. n \in 1..Len(model)
    BY <1>1
  <2> HIDE DEF n
  <2> QED BY <1>1, <2>1, TakeFacts
<1> HIDE DEF m
<1>4. \A i \in DOMAIN m : m[i].version <= fresh' /\ m[i].text \in seen \cup {Current(m).text}
  BY <1>1, <1>3 DEF Inv, VersionsTellTexts, TextsAreSeen
<1>5. \A i, j \in DOMAIN m : m[i].version = m[j].version => m[i].text = m[j].text
  BY <1>3 DEF Inv, VersionsTellTexts
<1>6. ~outdated => \A i \in DOMAIN m : m[i].version = savedVersionId => m[i].text = stored.text
  BY <1>3 DEF Inv, VersionsTellTexts
<1> QED BY <1>1, <1>2, <1>3, <1>4, <1>5, <1>6, ContentChangedStep

-----------------------------------------------------------------------------
(* Saves *)

\* A save goes on with what it is about: throttled, cancelled, or validated.
LEMMA GoOnStep ==
    ASSUME Inv, NEW s \in saves, NEW t \in Saves, saves' = {t},
           t.id = s.id, t.text = s.text, t.stat = s.stat,
           \/ t.phase = s.phase
           \/ s.phase = "throttled" /\ t.phase = "participants"
           \/ s.phase = "snapshot" /\ t.phase = "write",
           UNCHANGED <<disk, content, flags, stat, running, resolving, reverting, fresh, known>>,
           events' \in 0..MaxEvents, promised' \in Nat, queued' \in SaveOptions \cup {None}
    PROVE  Inv'
<1> USE DEF Inv
<1>1. UNCHANGED <<disk, model, versionId, undone, seen, dirty, savedVersionId, inConflictMode, inErrorMode,
                  stat, running, resolving, reverting, fresh, blind, stored, outdated, unmarked>>
  BY DEF content, flags, known
<1>2. s \in Saves /\ saves = {s} /\ s.id = running
  BY DEF TypeOK, OneSave
<1>a. TypeOK'
  BY <1>1 DEF TypeOK
<1>b. OneSave'
  BY <1>1, <1>2, RecordFacts DEF OneSave
<1>c. TimesTellTexts'
  <2>1. \A f \in Files : Known(f)' <=> Known(f)
    BY <1>1, <1>2 DEF Known
  <2>2. fresh' \in Nat /\ fresh <= fresh'
    BY <1>1 DEF TypeOK
  <2> QED BY <1>1, <2>1, <2>2, KeepTimes, Zenon DEF TypeOK
<1>d. TextsAreSeen'
  BY <1>1, <1>2 DEF TextsAreSeen
<1>e. StatsAreSeen'
  BY <1>1, <1>2 DEF StatsAreSeen, SeenSoon, Seen, Updating
<1>f. OwnFileIsKnown'
  BY <1>1, <1>2 DEF OwnFileIsKnown
<1>g. VersionsTellTexts'
  BY <1>1 DEF VersionsTellTexts
<1>h. SavesTellTexts'
  BY <1>1, <1>2 DEF SavesTellTexts
<1> QED BY <1>a, <1>b, <1>c, <1>d, <1>e, <1>f, <1>g, <1>h

LEMMA Exchange ==
    ASSUME OneSave, NEW s \in saves, NEW t
    PROVE  saves = {s} /\ (saves \ {s}) \cup {t} = {t} /\ saves \ {s} = {}
  BY DEF OneSave

LEMMA ThrottleOverStep == ASSUME Inv, NEW s \in saves, ThrottleOver(s) PROVE Inv'
<1>1. s \in Saves /\ InPhase(s, "participants") \in Saves /\ saves' = {InPhase(s, "participants")}
  BY Exchange, InPhaseFacts DEF Inv, TypeOK, ThrottleOver
<1>2. /\ InPhase(s, "participants").id = s.id /\ InPhase(s, "participants").text = s.text
      /\ InPhase(s, "participants").stat = s.stat /\ InPhase(s, "participants").phase = "participants"
  BY <1>1, InPhaseFacts
<1>3. /\ s.phase = "throttled"
      /\ UNCHANGED <<disk, content, flags, stat, running, resolving, reverting, fresh, known>>
      /\ events' \in 0..MaxEvents /\ promised' \in Nat /\ queued' \in SaveOptions \cup {None}
  BY DEF ThrottleOver, Inv, TypeOK
<1> QED BY <1>1, <1>2, <1>3, GoOnStep, Zenon

LEMMA SettledType == ASSUME TypeOK, NEW n PROVE Settled(n) \in Nat
  BY DEF Settled, TypeOK

LEMMA CancelSaveStep == ASSUME Inv, NEW s \in saves, CancelSave(s) PROVE Inv'
<1>1. s \in Saves /\ Cancelled(s) \in Saves /\ saves' = {Cancelled(s)}
  BY Exchange, CancelledFacts DEF Inv, TypeOK, CancelSave
<1>2. /\ Cancelled(s).id = s.id /\ Cancelled(s).text = s.text
      /\ Cancelled(s).stat = s.stat /\ Cancelled(s).phase = s.phase
  BY <1>1, CancelledFacts
<1>3. /\ UNCHANGED <<disk, content, flags, stat, running, resolving, reverting, fresh, known>>
      /\ events' \in 0..MaxEvents /\ queued' \in SaveOptions \cup {None}
  BY MaxEventsAssumption DEF CancelSave, Inv, TypeOK, Event
<1>4. promised' \in Nat
  BY SettledType DEF CancelSave, Inv
<1> QED BY <1>1, <1>2, <1>3, <1>4, GoOnStep, Zenon

\* The end of a save, and the begin of the one that was queued.
LEMMA DoneFacts ==
    ASSUME TypeOK, OneSave, NEW s \in saves, NEW kept \in Nat, Done(s, kept)
    PROVE  /\ saves' \subseteq Saves /\ running' \in Nat \cup {None} /\ queued' \in SaveOptions \cup {None}
           /\ promised' \in Nat
           /\ running' = None => saves' = {}
           /\ \A t \in saves' : /\ saves' = {t} /\ t.id = running' /\ t.id = versionId /\ t.stat = stat
                                /\ t.phase \in {"throttled", "participants"}
<1>1. saves = {s} /\ s.id = running /\ s \in Saves /\ running \in Nat /\ saves \ {s} = {}
  BY RecordFacts DEF TypeOK, OneSave
<1>2. CASE queued # None /\ (dirty' \/ queued = "forced")
  <2>1. saves' = {NewSave(queued)} /\ running' = versionId /\ queued' = None /\ promised' = kept
    BY <1>1, <1>2 DEF Done
  <2> QED BY <2>1, NewSaveFacts, RecordFacts DEF TypeOK
<1>3. CASE ~(queued # None /\ (dirty' \/ queued = "forced"))
  <2>1. saves' = {} /\ running' = None /\ queued' = None /\ promised' \in {0, kept}
    BY <1>1, <1>3 DEF Done
  <2> QED BY <2>1
<1> QED BY <1>2, <1>3

\* Nothing changes but what is queued or promised.
LEMMA KeepInv ==
    ASSUME Inv, UNCHANGED <<disk, content, flags, stat, saves, running, resolving, reverting, fresh, known>>,
           events' \in 0..MaxEvents, promised' \in Nat, queued' \in SaveOptions \cup {None}
    PROVE  Inv'
<1> USE DEF Inv
<1>1. UNCHANGED <<disk, model, versionId, undone, seen, dirty, savedVersionId, inConflictMode, inErrorMode,
                  stat, saves, running, resolving, reverting, fresh, blind, stored, outdated, unmarked>>
  BY DEF content, flags, known
<1>2. TypeOK'
  BY <1>1 DEF TypeOK
<1>3. OneSave' /\ TextsAreSeen' /\ StatsAreSeen' /\ OwnFileIsKnown'
  BY <1>1 DEF OneSave, TextsAreSeen, StatsAreSeen, SeenSoon, Seen, Updating, OwnFileIsKnown
<1>4. TimesTellTexts'
  BY <1>1, Zenon DEF TimesTellTexts, Known
<1>5. VersionsTellTexts' /\ SavesTellTexts'
  BY <1>1 DEF VersionsTellTexts, SavesTellTexts
<1> QED BY <1>2, <1>3, <1>4, <1>5

\* A save that is called: it joins the running one, is queued behind it, or
\* begins.
LEMMA SaveStepInv == ASSUME Inv, NEW o \in SaveOptions, Save(o) PROVE Inv'
<1> USE DEF Inv
<1>1. /\ UNCHANGED <<disk, content, flags, stat, resolving, reverting, fresh, known>>
      /\ events' \in 0..MaxEvents /\ promised' \in Nat
  BY MaxEventsAssumption DEF Save, Event, TypeOK
<1>2. CASE UNCHANGED <<saves, running, queued>> /\ running = versionId
  <2>1. UNCHANGED <<disk, content, flags, stat, saves, running, resolving, reverting, fresh, known>>
    BY <1>1, <1>2
  <2>2. queued' \in SaveOptions \cup {None}
    BY <1>2 DEF TypeOK
  <2> QED BY <1>1, <2>1, <2>2, KeepInv
<1>3. CASE /\ running # None
           /\ saves' = {IF s.id = running THEN Cancelled(s) ELSE s : s \in saves}
           /\ queued' = o /\ UNCHANGED running
  <2>1. CASE saves = {}
    <3>1. saves' = {}
      BY <1>3, <2>1, Zenon
    <3>2. UNCHANGED <<disk, content, flags, stat, saves, running, resolving, reverting, fresh, known>>
      BY <1>1, <1>3, <2>1, <3>1
    <3>3. queued' \in SaveOptions \cup {None}
      BY <1>3
    <3> QED BY <1>1, <3>2, <3>3, KeepInv
  <2>2. CASE saves # {}
    <3>1. PICK s \in saves : s \in Saves /\ saves = {s} /\ s.id = running
      BY <2>2 DEF OneSave, TypeOK
    <3>2. saves' = {Cancelled(s)}
      BY <1>3, <3>1, Zenon
    <3>3. /\ Cancelled(s) \in Saves /\ Cancelled(s).id = s.id /\ Cancelled(s).text = s.text
          /\ Cancelled(s).stat = s.stat /\ Cancelled(s).phase = s.phase
      BY <3>1, CancelledFacts
    <3>4. queued' \in SaveOptions \cup {None} /\ running' = running
      BY <1>3
    <3> QED BY <1>1, <3>2, <3>3, <3>4, GoOnStep, Zenon
  <2> QED BY <2>1, <2>2
<1>4. CASE running = None /\ saves' = saves \cup {NewSave(o)} /\ running' = versionId /\ UNCHANGED queued
  <2>1. saves = {} /\ saves' = {NewSave(o)}
    BY <1>4 DEF OneSave
  <2>2. UNCHANGED <<disk, model, versionId, undone, seen, dirty, savedVersionId, inConflictMode, inErrorMode,
                    stat, queued, resolving, reverting, fresh, blind, stored, outdated, unmarked>>
    BY <1>1, <1>4 DEF content, flags, known
  <2> DEFINE t == NewSave(o)
  <2>3. t \in Saves /\ t.id = versionId /\ t.stat = stat /\ t.phase \in {"throttled", "participants"}
    BY NewSaveFacts
  <2> HIDE DEF t
  <2>4. saves' = {t} /\ running' = versionId
    BY <2>1, <1>4 DEF t
  <2>a. TypeOK'
    BY <1>1, <2>2, <2>3, <2>4 DEF TypeOK
  <2>b. OneSave'
    BY <2>2, <2>3, <2>4, RecordFacts DEF OneSave, TypeOK
  <2>c. TimesTellTexts'
    <3>1. \A f \in Files : Known(f)' => Known(f)
      BY <2>2, <2>3, <2>4 DEF Known
    <3>2. fresh' \in Nat /\ fresh <= fresh'
      BY <2>2 DEF TypeOK
    <3> QED BY <2>2, <3>1, <3>2, KeepTimes, Zenon DEF TypeOK
  <2>d. TextsAreSeen' /\ StatsAreSeen'
    BY <2>2, <2>3, <2>4 DEF TextsAreSeen, StatsAreSeen, SeenSoon, Seen, Updating
  <2>e. OwnFileIsKnown'
    BY <2>1, <2>2, <2>3, <2>4 DEF OwnFileIsKnown
  <2>f. VersionsTellTexts'
    BY <2>2 DEF VersionsTellTexts
  <2>g. SavesTellTexts'
    BY <2>2, <2>3, <2>4 DEF SavesTellTexts, TypeOK
  <2> QED BY <2>a, <2>b, <2>c, <2>d, <2>e, <2>f, <2>g
<1> QED BY <1>2, <1>3, <1>4 DEF Save

\* The participants are over: from now on the save is about the current text.
LEMMA ParticipantsDoneStep == ASSUME Inv, NEW s \in saves, ParticipantsDone(s) PROVE Inv'
<1> USE DEF Inv
<1> DEFINE t == [id |-> versionId, phase |-> "snapshot", cancelled |-> FALSE, text |-> Current(model).text,
                 stat |-> stat, overwrite |-> s.overwrite]
<1>1. /\ s \in Saves /\ saves = {s} /\ s.phase = "participants"
      /\ saves' = {t} /\ running' = versionId
      /\ UNCHANGED <<disk, model, versionId, undone, seen, dirty, savedVersionId, inConflictMode, stat,
                     queued, promised, resolving, reverting, fresh, events, blind, stored, outdated, unmarked>>
  BY Exchange DEF ParticipantsDone, TypeOK, content, known
<1>2. inErrorMode' \in BOOLEAN
  BY Zenon DEF ParticipantsDone
<1>3. Current(model) \in Versions /\ Len(model) \in DOMAIN model /\ Current(model) = model[Len(model)]
  BY CurrentFacts DEF TypeOK
<1>4. /\ t \in Saves /\ t.id = versionId /\ t.phase = "snapshot" /\ t.text = Current(model).text
      /\ t.stat = stat
  BY <1>1, <1>3, RecordFacts DEF Saves, TypeOK
<1> HIDE DEF t
<1>a. TypeOK'
  BY <1>1, <1>2, <1>4 DEF TypeOK
<1>b. OneSave'
  BY <1>1, <1>4, RecordFacts DEF OneSave, TypeOK
<1>c. TimesTellTexts'
  <2>1. \A f \in Files : Known(f)' => Known(f)
    BY <1>1, <1>4 DEF Known
  <2>2. fresh' \in Nat /\ fresh <= fresh'
    BY <1>1 DEF TypeOK
  <2> QED BY <1>1, <2>1, <2>2, KeepTimes, Zenon DEF TypeOK
<1>d. TextsAreSeen' /\ StatsAreSeen'
  BY <1>1, <1>3, <1>4 DEF TextsAreSeen, StatsAreSeen, SeenSoon, Seen, Updating
<1>e. OwnFileIsKnown'
  BY <1>1, <1>4 DEF OwnFileIsKnown
<1>f. VersionsTellTexts'
  BY <1>1 DEF VersionsTellTexts
<1>g. SavesTellTexts'
  BY <1>1, <1>4 DEF SavesTellTexts, TypeOK
<1> QED BY <1>a, <1>b, <1>c, <1>d, <1>e, <1>f, <1>g

\* The file as a save leaves it that has not succeeded.
FileLeft(s) ==
    \/ UNCHANGED <<disk, stored, fresh, outdated>> /\ (disk # None => s.phase \notin {"stat", "written"})
    \/ fresh' = fresh + 1 /\ disk' = File(fresh + 1, FALSE) /\ stored' = disk' /\ outdated' = TRUE
    \/ disk # None /\ disk' = Disowned(disk) /\ UNCHANGED <<stored, fresh, outdated>>

\* What such a save leaves alone.
TextsLeft ==
    UNCHANGED <<model, versionId, undone, seen, stat, resolving, reverting, blind, unmarked, savedVersionId>>

\* A save is over that has not changed the file, or has failed to.
LEMMA SaveEndsStep ==
    ASSUME Inv, NEW s \in saves, NEW kept \in Nat, Done(s, kept),
           TextsLeft,
           events' \in 0..MaxEvents,
           dirty' \in BOOLEAN, inConflictMode' \in BOOLEAN, inErrorMode' \in BOOLEAN,
           dirty => dirty', FileLeft(s)
    PROVE  Inv'
<1> USE DEF Inv
<1>1. UNCHANGED <<model, versionId, undone, seen, savedVersionId, stat, resolving, reverting, blind, unmarked>>
  BY DEF TextsLeft
<1>2. /\ saves' \subseteq Saves /\ running' \in Nat \cup {None} /\ queued' \in SaveOptions \cup {None}
      /\ promised' \in Nat
      /\ running' = None => saves' = {}
      /\ \A t \in saves' : /\ saves' = {t} /\ t.id = running' /\ t.id = versionId /\ t.stat = stat
                           /\ t.phase \in {"throttled", "participants"}
  BY DoneFacts
<1>3. s \in Saves /\ saves = {s} /\ fresh \in Nat
  BY DEF OneSave, TypeOK
<1>4. /\ disk' \in Files \cup {None} /\ stored' \in Files /\ fresh' \in Nat /\ fresh <= fresh'
      /\ outdated' \in BOOLEAN
      /\ disk' # None /\ disk'.own => disk' = disk /\ s.phase \notin {"stat", "written"}
      /\ ~outdated' => ~outdated /\ stored' = stored
  <2>1. CASE UNCHANGED <<disk, stored, fresh, outdated>> /\ (disk # None => s.phase \notin {"stat", "written"})
    BY <2>1 DEF TypeOK
  <2>2. CASE fresh' = fresh + 1 /\ disk' = File(fresh + 1, FALSE) /\ stored' = disk' /\ outdated' = TRUE
    <3>1. disk' \in Files /\ disk'.own = FALSE
      BY <1>3, <2>2 DEF File, Files
    <3>2. outdated' \in BOOLEAN /\ outdated'
      BY <2>2, Zenon
    <3>3. fresh' \in Nat /\ fresh <= fresh'
      BY <1>3, <2>2
    <3> QED BY <2>2, <3>1, <3>2, <3>3, Zenon
  <2>3. CASE disk # None /\ disk' = Disowned(disk) /\ UNCHANGED <<stored, fresh, outdated>>
    <3>1. disk' \in Files /\ ~disk'.own
      BY <2>3, DisownedFacts DEF TypeOK
    <3> QED BY <2>3, <3>1 DEF TypeOK
  <2> QED BY <2>1, <2>2, <2>3 DEF FileLeft
<1>a. TypeOK'
  BY <1>1, <1>2, <1>4 DEF TypeOK
<1>b. OneSave'
  BY <1>2 DEF OneSave
<1>c. TimesTellTexts'
  <2>1. CASE UNCHANGED <<disk, stored, fresh>>
    <3>1. \A f \in Files : Known(f)' => Known(f)
      BY <1>1, <1>2, <2>1 DEF Known
    <3> QED BY <1>3, <1>4, <2>1, <3>1, KeepTimes, Zenon DEF TypeOK
  <2>2. CASE fresh' = fresh + 1 /\ disk' = File(fresh + 1, FALSE) /\ stored' = disk'
    <3>1. disk' \in Files /\ disk'.mtime = fresh + 1
      BY <1>3, <2>2 DEF File, Files
    <3>2. \A f \in Files : Known(f)' => Known(f) \/ f = disk'
      BY <1>1, <1>2, <2>2 DEF Known
    <3>3. fresh < fresh'
      BY <1>3, <2>2
    <3> QED BY <1>3, <1>4, <3>1, <3>2, <3>3, NewTime, Zenon
  <2>3. CASE disk # None /\ disk' = Disowned(disk) /\ UNCHANGED <<stored, fresh>>
    <3>1. disk \in Files /\ disk' # None /\ disk'.mtime = disk.mtime /\ disk'.text = disk.text
      BY <2>3, DisownedFacts, RecordFacts DEF TypeOK
    <3>2. \A f \in Files : Known(f)' => Known(f) \/ f = disk'
      BY <1>1, <1>2, <2>3 DEF Known
    <3>3. Known(disk)
      BY <2>3 DEF Known
    <3>4. \A f \in Files : Known(f)' => \E g \in Files : Known(g) /\ f.mtime = g.mtime /\ f.text = g.text
      BY <3>1, <3>2, <3>3, Zenon
    <3> QED BY <1>3, <1>4, <2>3, <3>1, <3>4, KeepTimes, Zenon DEF TypeOK
  <2> QED BY <2>1, <2>2, <2>3 DEF FileLeft
<1>d. TextsAreSeen' /\ StatsAreSeen'
  BY <1>1, <1>2 DEF TextsAreSeen, StatsAreSeen, SeenSoon, Seen, Updating
<1>e. OwnFileIsKnown'
  BY <1>1, <1>2, <1>3, <1>4 DEF OwnFileIsKnown
<1>f. VersionsTellTexts'
  BY <1>1, <1>3, <1>4, CurrentFacts, RecordFacts DEF VersionsTellTexts, TypeOK
<1>h. SavesTellTexts'
  BY <1>1, <1>2 DEF SavesTellTexts, TypeOK
<1> QED BY <1>a, <1>b, <1>c, <1>d, <1>e, <1>f, <1>h

\* A cancelled save returns.
LEMMA SaveCancelledStep == ASSUME Inv, NEW s \in saves, SaveCancelled(s) PROVE Inv'
<1> DEFINE kept == IF queued = None THEN Settled(s.id) ELSE promised
<1>1. kept \in Nat
  BY SettledType DEF Inv, TypeOK
<1>2. Done(s, kept)
  BY Zenon DEF SaveCancelled
<1> HIDE DEF kept
<1>3. /\ s.phase \in {"participants", "snapshot"}
      /\ UNCHANGED <<model, versionId, undone, seen, stat, resolving, reverting, blind, savedVersionId, dirty, inConflictMode,
                     inErrorMode, disk, stored, fresh, outdated, unmarked, events>>
  BY DEF SaveCancelled, known, flags, content
<1>4. /\ dirty' \in BOOLEAN /\ inConflictMode' \in BOOLEAN /\ inErrorMode' \in BOOLEAN
      /\ (dirty => dirty') /\ events' \in 0..MaxEvents
  BY <1>3, Zenon DEF Inv, TypeOK
<1>5. TextsLeft
  BY DEF SaveCancelled, known, flags, content, TextsLeft
<1>6. FileLeft(s)
  BY <1>3 DEF FileLeft
<1> QED BY <1>1, <1>2, <1>4, <1>5, <1>6, SaveEndsStep, Zenon

\* What handleSaveError does to the flags.
LEMMA SaveErrorFacts ==
    ASSUME TypeOK, NEW s, NEW conflict \in BOOLEAN, HandleSaveError(s, conflict)
    PROVE  /\ dirty' \in BOOLEAN /\ inConflictMode' \in BOOLEAN /\ inErrorMode' \in BOOLEAN
           /\ dirty => dirty'
           /\ Settled(s.id) \in Nat /\ Done(s, Settled(s.id))
<1>1. Settled(s.id) \in Nat
  BY SettledType
<1>2. Done(s, Settled(s.id))
  BY DEF HandleSaveError
<1>3. CASE UNCHANGED flags
  <2>1. dirty' = dirty /\ inConflictMode' = inConflictMode /\ inErrorMode' = inErrorMode
    BY <1>3 DEF flags
  <2> QED BY <1>1, <1>2, <2>1, Zenon DEF TypeOK
<1>4. CASE dirty' = TRUE /\ inErrorMode' = TRUE /\ inConflictMode' = (inConflictMode \/ conflict)
  BY <1>1, <1>2, <1>4, Zenon DEF TypeOK
<1> QED BY <1>3, <1>4, Zenon DEF HandleSaveError

\* writeFile validates: the save is a conflict, or goes on.
LEMMA ValidateStep == ASSUME Inv, NEW s \in saves, Validate(s) PROVE Inv'
<1>1. CASE ModifiedSince(s)
  <2>1. /\ s.phase = "snapshot" /\ HandleSaveError(s, TRUE)
        /\ UNCHANGED <<model, versionId, undone, seen, stat, resolving, reverting, blind, disk, stored, fresh, outdated, unmarked, events>>
    BY <1>1, Zenon DEF Validate, known, content
  <2>2. TypeOK /\ TRUE \in BOOLEAN
    BY DEF Inv
  <2>3. /\ dirty' \in BOOLEAN /\ inConflictMode' \in BOOLEAN /\ inErrorMode' \in BOOLEAN
        /\ dirty => dirty'
        /\ Settled(s.id) \in Nat /\ Done(s, Settled(s.id))
    BY <2>1, <2>2, SaveErrorFacts, Zenon
  <2>4. events' \in 0..MaxEvents
    BY <2>1 DEF Inv, TypeOK
  <2>5. TextsLeft
    BY <1>1 DEF Validate, HandleSaveError, flags, known, content, TextsLeft
  <2>6. FileLeft(s)
    BY <2>1 DEF FileLeft
  <2> QED BY <2>3, <2>4, <2>5, <2>6, SaveEndsStep, Zenon
<1>2. CASE ~ModifiedSince(s)
  <2>1. s \in Saves /\ InPhase(s, "write") \in Saves /\ saves' = {InPhase(s, "write")}
    BY <1>2, Exchange, InPhaseFacts DEF Inv, TypeOK, Validate
  <2>2. /\ InPhase(s, "write").id = s.id /\ InPhase(s, "write").text = s.text
        /\ InPhase(s, "write").stat = s.stat /\ InPhase(s, "write").phase = "write"
    BY <2>1, InPhaseFacts
  <2>3. /\ s.phase = "snapshot"
        /\ UNCHANGED <<disk, content, flags, stat, running, resolving, reverting, fresh, known>>
        /\ events' \in 0..MaxEvents /\ promised' \in Nat /\ queued' \in SaveOptions \cup {None}
    BY <1>2 DEF Validate, Inv, TypeOK
  <2> QED BY <2>1, <2>2, <2>3, GoOnStep, Zenon
<1> QED BY <1>1, <1>2

\* The file is written: the working copy does not know its stat yet.
LEMMA WriteStep == ASSUME Inv, NEW s \in saves, Write(s) PROVE Inv'
<1> USE DEF Inv
<1> DEFINE t == InPhase(s, "stat")
<1>1. /\ s \in Saves /\ saves = {s} /\ s.phase = "write" /\ saves' = {t} /\ s.id = running
      /\ fresh' = fresh + 1 /\ stored' = disk' /\ outdated' = TRUE
      /\ UNCHANGED <<model, versionId, undone, seen, dirty, savedVersionId, inConflictMode, inErrorMode, stat,
                     running, queued, promised, resolving, reverting, events, blind, unmarked>>
  BY Exchange DEF Write, TypeOK, OneSave, content, flags
<1>2. t \in Saves /\ t.id = s.id /\ t.phase = "stat" /\ t.text = s.text /\ t.stat = s.stat
  BY <1>1, InPhaseFacts
<1> HIDE DEF t
<1>3. outdated' \in BOOLEAN
  BY <1>1, Zenon
<1>4. /\ disk' \in Files /\ disk'.mtime = fresh + 1 /\ disk'.text = s.text /\ disk' # None
      /\ fresh \in Nat /\ fresh' \in Nat /\ fresh < fresh'
  <2>1. disk' = [text |-> s.text, mtime |-> fresh + 1, own |-> TRUE] /\ s.text \in Nat /\ fresh \in Nat
    BY <1>1, RecordFacts DEF Write, File, TypeOK
  <2>2. disk' \in Files
    BY <2>1 DEF Files
  <2>3. disk'.mtime = fresh + 1 /\ disk'.text = s.text
    BY <2>1
  <2>4. fresh' \in Nat /\ fresh < fresh'
    BY <1>1, <2>1
  <2> QED BY <2>1, <2>2, <2>3, <2>4, RecordFacts
<1>a. TypeOK'
  BY <1>1, <1>2, <1>3, <1>4 DEF TypeOK
<1>b. OneSave'
  BY <1>1, <1>2, RecordFacts DEF OneSave, TypeOK
<1>c. TimesTellTexts'
  <2>1. \A f \in Files : Known(f)' => Known(f) \/ f = disk'
    BY <1>1, <1>2 DEF Known
  <2> QED BY <1>4, <2>1, NewTime, Zenon
<1>d. TextsAreSeen' /\ StatsAreSeen'
  BY <1>1, <1>2 DEF TextsAreSeen, StatsAreSeen, SeenSoon, Seen, Updating
<1>e. OwnFileIsKnown'
  BY <1>1, <1>2 DEF OwnFileIsKnown
<1>f. VersionsTellTexts'
  BY <1>1, <1>4, CurrentFacts, RecordFacts DEF VersionsTellTexts, TypeOK
<1>h. SavesTellTexts'
  BY <1>1, <1>2, <1>4 DEF SavesTellTexts
<1> QED BY <1>a, <1>b, <1>c, <1>d, <1>e, <1>f, <1>h

\* writeFile has got the stat of what is on disk, or finds nothing.
LEMMA StatAfterWriteStep == ASSUME Inv, NEW s \in saves, StatAfterWrite(s) PROVE Inv'
<1> USE DEF Inv
<1>1. CASE disk = None
  <2>1. /\ HandleSaveError(s, FALSE)
        /\ UNCHANGED <<model, versionId, undone, seen, stat, resolving, reverting, blind, disk, stored, fresh, outdated, unmarked, events>>
    BY <1>1, Zenon DEF StatAfterWrite, known, content
  <2>2. FALSE \in BOOLEAN
    OBVIOUS
  <2>3. /\ dirty' \in BOOLEAN /\ inConflictMode' \in BOOLEAN /\ inErrorMode' \in BOOLEAN
        /\ dirty => dirty'
        /\ Settled(s.id) \in Nat /\ Done(s, Settled(s.id))
    BY <2>1, <2>2, SaveErrorFacts, Zenon
  <2>4. events' \in 0..MaxEvents
    BY <2>1 DEF TypeOK
  <2>5. TextsLeft
    BY <1>1 DEF StatAfterWrite, HandleSaveError, flags, known, content, TextsLeft
  <2>6. FileLeft(s)
    BY <1>1, <2>1 DEF FileLeft
  <2> QED BY <1>1, <2>3, <2>4, <2>5, <2>6, SaveEndsStep, Zenon
<1>2. CASE disk # None
  <2> DEFINE t == WithStat(s, disk)
  <2>1. /\ s \in Saves /\ saves = {s} /\ s.phase = "stat" /\ saves' = {t} /\ s.id = running
        /\ disk \in Files
        /\ UNCHANGED <<disk, model, versionId, undone, seen, dirty, savedVersionId, inConflictMode, inErrorMode,
                       stat, running, queued, promised, resolving, reverting, fresh, events, blind, stored,
                       outdated, unmarked>>
    BY <1>2, Exchange DEF StatAfterWrite, TypeOK, OneSave, content, flags, known
  <2>2. t \in Saves /\ t.id = s.id /\ t.phase = "written" /\ t.text = s.text /\ t.stat = disk
    BY <2>1, WithStatFacts
  <2> HIDE DEF t
  <2>3. fresh' \in Nat /\ fresh \in Nat /\ fresh <= fresh'
    BY <2>1 DEF TypeOK
  <2>a. TypeOK'
    BY <2>1, <2>2 DEF TypeOK
  <2>b. OneSave'
    BY <2>1, <2>2, RecordFacts DEF OneSave, TypeOK
  <2>c. TimesTellTexts'
    <3>1. \A f \in Files : Known(f)' => Known(f)
      BY <1>2, <2>1, <2>2 DEF Known
    <3> QED BY <2>1, <2>3, <3>1, KeepTimes, Zenon DEF TypeOK
  <2>d. TextsAreSeen' /\ StatsAreSeen'
    BY <2>1, <2>2 DEF TextsAreSeen, StatsAreSeen, SeenSoon, Seen, Updating
  <2>e. OwnFileIsKnown'
    BY <2>1, <2>2, RecordFacts DEF OwnFileIsKnown
  <2>f. VersionsTellTexts'
    BY <2>1 DEF VersionsTellTexts
  <2>h. SavesTellTexts'
    BY <2>1, <2>2 DEF SavesTellTexts
  <2> QED BY <2>a, <2>b, <2>c, <2>d, <2>e, <2>f, <2>h
<1> QED BY <1>1, <1>2

\* The file system fails, with or without having changed the file.
LEMMA WriteFailsStep == ASSUME Inv, NEW s \in saves, WriteFails(s) PROVE Inv'
<1>1. /\ HandleSaveError(s, FALSE)
      /\ UNCHANGED <<model, versionId, undone, seen, stat, resolving, reverting, blind>>
  BY Zenon DEF WriteFails, content
<1>2. events' \in 0..MaxEvents
  BY MaxEventsAssumption DEF WriteFails, Event, Inv, TypeOK
<1>3. FALSE \in BOOLEAN /\ TypeOK
  BY DEF Inv
<1>4. /\ dirty' \in BOOLEAN /\ inConflictMode' \in BOOLEAN /\ inErrorMode' \in BOOLEAN
      /\ dirty => dirty'
      /\ Settled(s.id) \in Nat /\ Done(s, Settled(s.id))
  BY <1>1, <1>3, SaveErrorFacts, Zenon
<1>5. \/ s.phase = "write" /\ UNCHANGED <<disk, stored, fresh, outdated>>
      \/ fresh' = fresh + 1 /\ disk' = File(fresh + 1, FALSE) /\ stored' = disk' /\ outdated' = TRUE
      \/ disk # None /\ disk' = Disowned(disk) /\ UNCHANGED <<stored, fresh, outdated>>
  BY Zenon DEF WriteFails
<1>6. FileLeft(s)
  <2>1. s.phase = "write" => s.phase \notin {"stat", "written"}
    OBVIOUS
  <2> QED BY <1>5, <2>1, Zenon DEF FileLeft
<1>7. TextsLeft
  BY DEF WriteFails, HandleSaveError, flags, content, TextsLeft
<1> QED BY <1>2, <1>4, <1>6, <1>7, SaveEndsStep, Zenon

\* The save has succeeded: dirty is cleared if its version is the current one.
LEMMA HandleSaveSuccessStep == ASSUME Inv, NEW s \in saves, HandleSaveSuccess(s) PROVE Inv'
<1> USE DEF Inv
<1>1. /\ s \in Saves /\ saves = {s} /\ s.phase = "written" /\ s.stat \in Files
      /\ UNCHANGED <<disk, model, versionId, undone, seen, stored, resolving, reverting, fresh, events>>
  BY RecordFacts DEF HandleSaveSuccess, TypeOK, OneSave, content
<1>2. Settled(s.id) \in Nat /\ Done(s, Settled(s.id))
  BY SettledType DEF HandleSaveSuccess
<1>3. /\ saves' \subseteq Saves /\ running' \in Nat \cup {None} /\ queued' \in SaveOptions \cup {None}
      /\ promised' \in Nat
      /\ running' = None => saves' = {}
      /\ \A t \in saves' : /\ saves' = {t} /\ t.id = running' /\ t.id = versionId /\ t.stat = stat
                           /\ t.phase \in {"throttled", "participants"}
  BY <1>2, DoneFacts
<1>4. /\ stat' \in {stat, s.stat} /\ stat' \in Files
      /\ stat.mtime <= stat'.mtime /\ s.stat.mtime <= stat'.mtime
  BY <1>1, NewerStatFacts DEF HandleSaveSuccess
<1>5. blind' \in BOOLEAN /\ (blind' <=> (blind \/ s.stat.text # s.text))
  BY Zenon DEF HandleSaveSuccess, TypeOK
<1>6. Current(model) \in Versions /\ Len(model) \in DOMAIN model /\ Current(model) = model[Len(model)]
  BY CurrentFacts DEF TypeOK
<1>7. /\ dirty' \in BOOLEAN /\ inConflictMode' \in BOOLEAN /\ inErrorMode' \in BOOLEAN /\ outdated' \in BOOLEAN
      /\ unmarked' \in BOOLEAN
      /\ \/ s.id = versionId /\ ~dirty' /\ savedVersionId' = Current(model).version
         \/ UNCHANGED <<dirty, savedVersionId, outdated>>
  <2>1. CASE SavedVersion(s)
    BY <2>1, Zenon DEF HandleSaveSuccess, SetDirty, SavedVersion
  <2>2. CASE ~SavedVersion(s)
    BY <2>2, Zenon DEF HandleSaveSuccess, flags, TypeOK
  <2> QED BY <2>1, <2>2
<1>8. savedVersionId' \in Nat
  BY <1>6, <1>7, RecordFacts DEF TypeOK
<1>a. TypeOK'
  BY <1>1, <1>3, <1>4, <1>5, <1>7, <1>8 DEF TypeOK
<1>b. OneSave'
  BY <1>3 DEF OneSave
<1>c. TimesTellTexts'
  <2>1. \A f \in Files : Known(f)' => Known(f)
    BY <1>1, <1>3, <1>4 DEF Known
  <2>2. fresh \in Nat /\ fresh' \in Nat /\ fresh <= fresh'
    BY <1>1 DEF TypeOK
  <2> QED BY <1>1, <2>1, <2>2, KeepTimes, Zenon DEF TypeOK
<1>d. TextsAreSeen'
  BY <1>1, <1>3 DEF TextsAreSeen
<1>e. StatsAreSeen'
  BY <1>1, <1>3, <1>4, <1>5 DEF StatsAreSeen, TextsAreSeen, SeenSoon, Seen, Updating
<1>f. OwnFileIsKnown'
  <2> SUFFICES ASSUME disk # None, disk.own
               PROVE  disk.mtime <= stat'.mtime /\ \A t \in saves' : t.phase # "snapshot"
    BY <1>1 DEF OwnFileIsKnown
  <2>1. disk.mtime \in Nat /\ stat.mtime \in Nat /\ s.stat.mtime \in Nat /\ stat'.mtime \in Nat
    BY <1>1, <1>4, RecordFacts DEF TypeOK
  <2>2. disk.mtime <= stat.mtime \/ disk.mtime <= s.stat.mtime
    BY <1>1 DEF OwnFileIsKnown
  <2> QED BY <1>3, <1>4, <2>1, <2>2
<1>g. VersionsTellTexts'
  BY <1>1, <1>6, <1>7, RecordFacts DEF VersionsTellTexts, SavesTellTexts, TypeOK
<1>h. SavesTellTexts'
  BY <1>1, <1>3 DEF SavesTellTexts, TypeOK
<1> QED BY <1>a, <1>b, <1>c, <1>d, <1>e, <1>f, <1>g, <1>h

-----------------------------------------------------------------------------
(* Resolves and reverts *)

\* A resolve or a revert that changes neither the file nor the model, and
\* leaves no savedVersionId behind that is not the current version unless it
\* says so.
LEMMA ReadStep ==
    ASSUME Inv, UNCHANGED <<disk, model, versionId, undone, seen, saves, running, queued, promised, fresh, stored>>,
           events' \in 0..MaxEvents,
           resolving' \in Reads \cup {None}, reverting' \in Reverts \cup {None},
           dirty' \in BOOLEAN, inConflictMode' \in BOOLEAN, inErrorMode' \in BOOLEAN,
           savedVersionId' \in Nat, outdated' \in BOOLEAN, unmarked' \in BOOLEAN, blind' \in BOOLEAN, blind => blind',
           outdated' \/ UNCHANGED <<dirty, savedVersionId, outdated>>,
           stat' \in Files, Known(stat'), stat.mtime <= stat'.mtime,
           StatsAreSeen',
           resolving' # None =>
              /\ Known(resolving'.etag)
              /\ resolving'.answer # None => Known(resolving'.answer)
    PROVE  Inv'
<1> USE DEF Inv
<1>1. Current(model) \in Versions /\ Len(model) \in DOMAIN model /\ Current(model) = model[Len(model)]
  BY CurrentFacts DEF TypeOK
<1>a. TypeOK'
  BY DEF TypeOK
<1>b. OneSave'
  BY DEF OneSave
<1>c. TimesTellTexts'
  <2>1. \A f \in Files : Known(f)' => Known(f)
    <3> SUFFICES ASSUME NEW f \in Files, Known(f)' PROVE Known(f)
      OBVIOUS
    <3>1. CASE f = stat'
      BY <3>1
    <3>2. CASE resolving' # None /\ (f = resolving'.etag \/ (resolving'.answer # None /\ f = resolving'.answer))
      BY <3>2
    <3>3. CASE f = stored \/ (disk # None /\ f = disk) \/ \E s \in saves : f = s.stat
      BY <3>3 DEF Known
    <3> QED BY <3>1, <3>2, <3>3 DEF Known
  <2>2. fresh \in Nat /\ fresh' \in Nat /\ fresh <= fresh'
    BY DEF TypeOK
  <2> QED BY <2>1, <2>2, KeepTimes, Zenon DEF TypeOK
<1>d. TextsAreSeen'
  BY DEF TextsAreSeen
<1>e. OwnFileIsKnown'
  <2> SUFFICES ASSUME disk # None, disk.own
               PROVE  /\ \/ disk.mtime <= stat'.mtime
                         \/ \E s \in saves : s.phase = "stat" \/ (s.phase = "written" /\ disk.mtime <= s.stat.mtime)
                      /\ \A s \in saves : s.phase = "snapshot" => disk.mtime <= s.stat.mtime
    BY DEF OwnFileIsKnown
  <2>1. disk.mtime \in Nat /\ stat.mtime \in Nat /\ stat'.mtime \in Nat
    BY RecordFacts DEF TypeOK
  <2> QED BY <2>1 DEF OwnFileIsKnown
<1>f. VersionsTellTexts'
  <2>1. CASE outdated'
    BY <2>1 DEF VersionsTellTexts
  <2>2. CASE UNCHANGED <<dirty, savedVersionId, outdated>>
    BY <2>2 DEF VersionsTellTexts
  <2> QED BY <2>1, <2>2
<1>g. SavesTellTexts'
  BY DEF SavesTellTexts
<1> QED BY <1>a, <1>b, <1>c, <1>d, <1>e, <1>f, <1>g

\* A resolve that begins knows the stat of now.
LEMMA NewReadStarts ==
    ASSUME versionId' \in Nat, stat' \in Files, resolving' = NewRead
    PROVE  /\ resolving' \in Reads /\ resolving' # None /\ resolving'.phase = "read"
           /\ resolving'.versionId = versionId' /\ resolving'.etag = stat' /\ resolving'.answer = None
  BY NewReadFacts, RecordFacts

\* The manager reloads a working copy that is not dirty.
LEMMA ResolveStep == Inv /\ Resolve => Inv'
<1> SUFFICES ASSUME Inv, Resolve PROVE Inv' OBVIOUS
<1> USE DEF Inv
<1>1. /\ UNCHANGED <<disk, model, versionId, undone, seen, saves, running, queued, promised, fresh, stored>>
      /\ UNCHANGED <<dirty, savedVersionId, inConflictMode, inErrorMode, stat, reverting, blind, outdated, unmarked>>
      /\ resolving = None /\ ~dirty /\ resolving' = NewRead
  BY DEF Resolve, content, flags, saving, known
<1>2. events' \in 0..MaxEvents
  BY MaxEventsAssumption DEF Resolve, Event, TypeOK
<1>3. /\ resolving' \in Reads /\ resolving' # None /\ resolving'.phase = "read"
      /\ resolving'.versionId = versionId' /\ resolving'.etag = stat' /\ resolving'.answer = None
  BY <1>1, NewReadStarts DEF TypeOK
<1>4. StatsAreSeen'
  BY <1>1, <1>3 DEF StatsAreSeen, SeenSoon, Seen, Updating
<1>6. Known(stat) /\ stat.mtime <= stat.mtime
  BY RecordFacts DEF Known, TypeOK
<1> QED BY <1>1, <1>2, <1>3, <1>4, <1>6, ReadStep DEF TypeOK

\* The file system answers a read.
LEMMA ReadAnswered == Inv /\ Read => Inv'
<1> SUFFICES ASSUME Inv, Read PROVE Inv' OBVIOUS
<1> USE DEF Inv
<1>1. /\ UNCHANGED <<disk, model, versionId, undone, seen, saves, running, queued, promised, fresh, stored>>
      /\ UNCHANGED <<dirty, savedVersionId, inConflictMode, inErrorMode, stat, reverting, blind, outdated, unmarked, events>>
      /\ resolving # None /\ resolving.phase = "read" /\ resolving' = Answered(resolving, disk)
  BY DEF Read, content, flags, saving, known
<1>2. /\ resolving \in Reads /\ resolving' \in Reads /\ resolving' # None
      /\ resolving'.phase = "answer" /\ resolving'.answer = disk
      /\ resolving'.versionId = resolving.versionId /\ resolving'.etag = resolving.etag
  <2>1. resolving \in Reads /\ disk \in Files \cup {None}
    BY <1>1, Zenon DEF TypeOK
  <2>2. /\ Answered(resolving, disk) \in Reads /\ Answered(resolving, disk).phase = "answer"
        /\ Answered(resolving, disk).answer = disk
        /\ Answered(resolving, disk).versionId = resolving.versionId
        /\ Answered(resolving, disk).etag = resolving.etag
    BY <2>1, AnsweredFacts
  <2> QED BY <1>1, <2>1, <2>2, RecordFacts
<1>3. StatsAreSeen'
  BY <1>1, <1>2 DEF StatsAreSeen, SeenSoon, Seen, Updating
<1>5. Known(stat) /\ stat.mtime <= stat.mtime
  BY RecordFacts DEF Known, TypeOK
<1>6. Known(resolving'.etag) /\ (resolving'.answer # None => Known(resolving'.answer))
  BY <1>1, <1>2 DEF Known
<1> QED BY <1>1, <1>2, <1>3, <1>5, <1>6, ReadStep DEF TypeOK

\* A resolve is over: the next one is that of a revert that has waited.
LEMMA ResolveOverFacts ==
    ASSUME TypeOK, ResolveOver, versionId' \in Nat, stat' \in Files
    PROVE  /\ reverting' \in Reverts \cup {None} /\ resolving' \in Reads \cup {None}
           /\ resolving' # None =>
                 /\ ~dirty' /\ resolving'.phase = "read" /\ resolving'.versionId = versionId'
                 /\ resolving'.etag = stat' /\ resolving'.answer = None
<1>1. CASE reverting # None /\ reverting.waits /\ ~dirty' /\ running = None
  <2>1. resolving' = NewRead /\ reverting' = Resolving(reverting) /\ reverting \in Reverts
    BY <1>1, Zenon DEF ResolveOver, TypeOK
  <2>2. reverting' \in Reverts
    BY <2>1, RevertFacts
  <2>3. /\ resolving' \in Reads /\ resolving'.phase = "read" /\ resolving'.versionId = versionId'
        /\ resolving'.etag = stat' /\ resolving'.answer = None
    BY <2>1, NewReadStarts
  <2> QED BY <1>1, <2>2, <2>3
<1>2. CASE ~(reverting # None /\ reverting.waits /\ ~dirty' /\ running = None)
  <2>1. resolving' = None /\ reverting' = None
    BY <1>2, Zenon DEF ResolveOver
  <2> QED BY <2>1
<1> QED BY <1>1, <1>2

\* The answer ends the resolve: the stat may be that of the same file again.
LEMMA UnresolvedStep == Inv /\ Unresolved => Inv'
<1> SUFFICES ASSUME Inv, Unresolved PROVE Inv' OBVIOUS
<1> USE DEF Inv
<1>1. /\ UNCHANGED <<disk, model, versionId, undone, seen, saves, running, queued, promised, fresh, stored>>
      /\ UNCHANGED <<dirty, savedVersionId, inConflictMode, inErrorMode, blind, outdated, unmarked, events>>
      /\ resolving # None /\ resolving.phase = "answer" /\ ResolveOver
  BY DEF Unresolved, content, flags, saving, known
<1>2. /\ resolving \in Reads /\ resolving.etag \in Files /\ Known(resolving.etag)
      /\ resolving.answer # None => resolving.answer \in Files /\ Known(resolving.answer)
  BY <1>1, RecordFacts DEF TypeOK, Known
<1>3. \/ stat' = stat
      \/ /\ resolving.answer # None /\ resolving.answer.mtime = resolving.etag.mtime
         /\ stat' = NewerStat(resolving.answer)
  BY DEF Unresolved, NotModified
<1>4. stat' \in Files /\ stat.mtime <= stat'.mtime /\ (stat' = stat \/ stat' = resolving.answer)
  <2>1. CASE stat' = stat
    BY <2>1, RecordFacts DEF TypeOK
  <2>2. CASE resolving.answer # None /\ stat' = NewerStat(resolving.answer)
    BY <1>2, <2>2, NewerStatFacts
  <2> QED BY <1>3, <2>1, <2>2
<1>5. Known(stat')
  <2>1. Known(stat)
    BY DEF Known
  <2> QED BY <1>2, <1>3, <1>4, <2>1
<1>6. Seen(stat')
  <2>1. Seen(stat) /\ Seen(resolving.etag)
    BY <1>1 DEF StatsAreSeen, SeenSoon, Updating
  <2>2. CASE stat' = stat
    BY <2>1, <2>2
  <2>3. CASE stat' # stat
    <3>1. stat' = resolving.answer /\ resolving.answer # None /\ resolving.answer.mtime = resolving.etag.mtime
      BY <1>3, <1>4, <2>3
    <3>2. resolving.answer.text = resolving.etag.text
      BY <1>2, <3>1 DEF TimesTellTexts
    <3> QED BY <2>1, <3>1, <3>2 DEF Seen
  <2> QED BY <2>2, <2>3
<1>7. versionId' \in Nat
  BY <1>1 DEF TypeOK
<1>8. /\ reverting' \in Reverts \cup {None} /\ resolving' \in Reads \cup {None}
      /\ resolving' # None =>
            /\ ~dirty' /\ resolving'.phase = "read" /\ resolving'.versionId = versionId'
            /\ resolving'.etag = stat' /\ resolving'.answer = None
  BY <1>1, <1>4, <1>7, ResolveOverFacts
<1>9. StatsAreSeen'
  BY <1>1, <1>6, <1>8 DEF StatsAreSeen, SeenSoon, Seen, Updating
<1>11. resolving' # None => Known(resolving'.etag) /\ resolving'.answer = None
  BY <1>5, <1>8
<1>12. TypeOK
  OBVIOUS
<1> QED BY <1>1, <1>4, <1>5, <1>8, <1>9, <1>11, ReadStep DEF TypeOK

\* The model is asked to take the content of the file, whose stat is known
\* from now on.
LEMMA ResolveFromContentStep == Inv /\ ResolveFromContent => Inv'
<1> SUFFICES ASSUME Inv, ResolveFromContent PROVE Inv' OBVIOUS
<1> USE DEF Inv
<1>1. /\ UNCHANGED <<disk, model, versionId, undone, seen, saves, running, queued, promised, fresh, stored>>
      /\ UNCHANGED <<dirty, savedVersionId, inConflictMode, inErrorMode, blind, outdated, unmarked, events, reverting>>
      /\ resolving # None /\ resolving.phase = "answer" /\ resolving.answer # None
      /\ stat' = NewerStat(resolving.answer) /\ resolving' = Accepted(resolving)
  BY DEF ResolveFromContent, content, flags, saving, known
<1>2. resolving \in Reads /\ resolving.answer \in Files /\ Known(resolving.answer) /\ Known(resolving.etag)
  BY <1>1, RecordFacts DEF TypeOK, Known
<1>3. /\ resolving' \in Reads /\ resolving' # None /\ resolving'.phase = "update"
      /\ resolving'.answer = resolving.answer
      /\ resolving'.versionId = resolving.versionId /\ resolving'.etag = resolving.etag
  BY <1>1, <1>2, AcceptedFacts, RecordFacts
<1>4. stat' \in Files /\ stat.mtime <= stat'.mtime /\ (stat' = stat \/ stat' = resolving.answer)
  BY <1>1, <1>2, NewerStatFacts
<1>5. Known(stat')
  <2>1. Known(stat)
    BY DEF Known
  <2> QED BY <1>2, <1>4, <2>1
<1>6. StatsAreSeen'
  BY <1>1, <1>3, <1>4 DEF StatsAreSeen, SeenSoon, Seen, Updating
<1> QED BY <1>1, <1>2, <1>3, <1>4, <1>5, <1>6, ReadStep DEF TypeOK

\* A resolve fails: a revert sets the flags back, to what nobody vouches for.
LEMMA ResolveFailsStep == Inv /\ ResolveFails => Inv'
<1> SUFFICES ASSUME Inv, ResolveFails PROVE Inv' OBVIOUS
<1> USE DEF Inv
<1>1. /\ UNCHANGED <<disk, model, versionId, undone, seen, saves, running, queued, promised, fresh, stored>>
      /\ stat' = stat /\ resolving # None /\ ResolveFailed
  BY DEF ResolveFails, content, saving
<1>2. events' \in 0..MaxEvents
  BY MaxEventsAssumption DEF ResolveFails, Event, TypeOK
<1>3. blind' \in BOOLEAN /\ (blind' <=> (blind \/ Updating))
  BY Zenon DEF ResolveFails, TypeOK
<1>4. Known(stat) /\ stat.mtime <= stat.mtime /\ stat' \in Files /\ versionId' \in Nat
  BY <1>1, RecordFacts DEF Known, TypeOK
<1>5. Seen(stat)' /\ \A s \in saves : s.phase = "snapshot" => Seen(s.stat)'
  BY <1>1, <1>3 DEF StatsAreSeen, SeenSoon, Seen
<1>6. CASE reverting # None /\ ~reverting.waits
  <2>1. /\ dirty' = reverting.was[1] /\ savedVersionId' = reverting.was[2]
        /\ inConflictMode' = reverting.was[3] /\ inErrorMode' = reverting.was[4]
        /\ outdated' = TRUE /\ resolving' = None /\ reverting' = None /\ reverting \in Reverts
    BY <1>1, <1>6, Zenon DEF ResolveFailed, TypeOK
  <2>2. /\ dirty' \in BOOLEAN /\ savedVersionId' \in Nat /\ inConflictMode' \in BOOLEAN /\ inErrorMode' \in BOOLEAN
        /\ outdated' \in BOOLEAN /\ outdated' /\ unmarked' \in BOOLEAN
    BY <1>1, <1>6, <2>1, RevertFacts, Zenon DEF ResolveFailed
  <2>3. StatsAreSeen'
    BY <1>1, <1>5, <2>1 DEF StatsAreSeen, SeenSoon, Seen, Updating
  <2> QED BY <1>1, <1>2, <1>3, <1>4, <2>1, <2>2, <2>3, ReadStep
<1>7. CASE ~(reverting # None /\ ~reverting.waits)
  <2>1. UNCHANGED <<dirty, savedVersionId, inConflictMode, inErrorMode, outdated, unmarked>> /\ ResolveOver
    BY <1>1, <1>7, Zenon DEF ResolveFailed, flags
  <2>2. /\ reverting' \in Reverts \cup {None} /\ resolving' \in Reads \cup {None}
        /\ resolving' # None =>
              /\ ~dirty' /\ resolving'.phase = "read" /\ resolving'.versionId = versionId'
              /\ resolving'.etag = stat' /\ resolving'.answer = None
    BY <1>4, <2>1, ResolveOverFacts
  <2>3. StatsAreSeen'
    BY <1>1, <1>5, <2>2 DEF StatsAreSeen, SeenSoon, Seen, Updating
  <2>5. resolving' # None => Known(resolving'.etag) /\ resolving'.answer = None
    BY <1>1, <1>4, <2>2
  <2> QED BY <1>1, <1>2, <1>3, <1>4, <2>1, <2>2, <2>3, <2>5, ReadStep DEF TypeOK
<1> QED BY <1>6, <1>7

\* revert clears the flags before it reads.
LEMMA RevertStep == ASSUME Inv, NEW o \in RevertOptions, Revert(o) PROVE Inv'
<1> USE DEF Inv
<1>1. /\ UNCHANGED <<disk, model, versionId, undone, seen, saves, running, queued, promised, fresh, stored>>
      /\ stat' = stat /\ blind' = blind /\ savedVersionId' = Current(model).version
  BY DEF Revert, content, saving, SetDirty
<1>2. events' \in 0..MaxEvents
  BY MaxEventsAssumption DEF Revert, Event, TypeOK
<1>3. /\ dirty' \in BOOLEAN /\ inConflictMode' \in BOOLEAN /\ inErrorMode' \in BOOLEAN
      /\ outdated' \in BOOLEAN /\ outdated' /\ unmarked' \in BOOLEAN
  BY Zenon DEF Revert, SetDirty
<1>4. Known(stat) /\ stat.mtime <= stat.mtime /\ stat' \in Files /\ versionId' \in Nat
  BY <1>1, RecordFacts DEF Known, TypeOK
<1>5. savedVersionId' \in Nat
  BY <1>1, CurrentFacts, RecordFacts DEF TypeOK
<1>6. reverting' \in Reverts \cup {None}
  <2>1. CASE reverting' = reverting
    BY <2>1, Zenon DEF TypeOK
  <2>2. CASE reverting' = [was |-> flags, waits |-> resolving # None]
    <3>1. flags \in BOOLEAN \X Nat \X BOOLEAN \X BOOLEAN
      BY DEF flags, TypeOK
    <3>2. (resolving # None) \in BOOLEAN
      BY Zenon
    <3> QED BY <2>2, <3>1, <3>2 DEF Reverts
  <2> QED BY <2>1, <2>2, Zenon DEF Revert
<1>7. \/ resolving' = resolving
      \/ resolving = None /\ resolving' = NewRead
  BY Zenon DEF Revert
<1>8. /\ resolving' \in Reads \cup {None}
      /\ resolving' # resolving =>
            /\ resolving' # None /\ resolving = None /\ resolving'.phase = "read"
            /\ resolving'.versionId = versionId' /\ resolving'.etag = stat' /\ resolving'.answer = None
  BY <1>4, <1>7, NewReadStarts DEF TypeOK
<1>9. StatsAreSeen'
  BY <1>1, <1>8 DEF StatsAreSeen, SeenSoon, Seen, Updating
<1>11. resolving' # None => Known(resolving'.etag) /\ (resolving'.answer # None => Known(resolving'.answer))
  BY <1>1, <1>4, <1>8 DEF Known
<1> QED BY <1>1, <1>2, <1>3, <1>4, <1>5, <1>6, <1>8, <1>9, <1>11, ReadStep DEF TypeOK

\* The model takes the content: the user has it before his eyes, and it is
\* what savedVersionId stands for unless a save has written meanwhile.
LEMMA UpdateModelStep == Inv /\ UpdateModel => Inv'
<1> SUFFICES ASSUME Inv, UpdateModel PROVE Inv' OBVIOUS
<1> USE DEF Inv
<1> DEFINE file == resolving.answer
           v == [version |-> fresh + 1, text |-> file.text]
<1>1. /\ resolving # None /\ resolving.phase = "update" /\ ResolveOver
      /\ fresh' = fresh + 1 /\ model' = Append(model, v) /\ versionId' = versionId + 1
      /\ seen' = seen \cup {file.text} /\ savedVersionId' = fresh + 1
      /\ stored' = (IF stored.mtime <= file.mtime THEN file ELSE stored)
      /\ UNCHANGED <<disk, undone, stat, saves, running, queued, promised, events, blind>>
  BY DEF UpdateModel, Updating, SetDirty, saving
<1>2. /\ dirty' \in BOOLEAN /\ ~dirty' /\ inConflictMode' \in BOOLEAN /\ inErrorMode' \in BOOLEAN
      /\ outdated' \in BOOLEAN /\ (outdated' <=> stored.mtime > file.mtime) /\ unmarked' \in BOOLEAN
  <2>1. /\ dirty' \in BOOLEAN /\ ~dirty' /\ inConflictMode' \in BOOLEAN /\ inErrorMode' \in BOOLEAN
        /\ unmarked' \in BOOLEAN
    BY Zenon DEF UpdateModel, SetDirty
  <2>2. outdated' = (stored.mtime > file.mtime)
    BY Zenon DEF UpdateModel
  <2>3. (stored.mtime > file.mtime) \in BOOLEAN
    OBVIOUS
  <2> QED BY <2>1, <2>2, <2>3
<1>3. resolving \in Reads /\ file \in Files /\ Known(file) /\ file.text \in Nat /\ file.mtime \in Nat
  BY <1>1, RecordFacts DEF TypeOK, StatsAreSeen, Updating, Known
<1>4. /\ v \in Versions /\ v.version = fresh + 1 /\ v.text = file.text
      /\ fresh \in Nat /\ fresh' \in Nat /\ fresh <= fresh' /\ versionId' \in Nat
  BY <1>1, <1>3 DEF Versions, TypeOK
<1> HIDE DEF v
<1>5. /\ model' \in Seq(Versions) /\ model' # <<>> /\ Current(model') = v
      /\ \A i \in DOMAIN model' : model'[i] = v \/ (i \in DOMAIN model /\ model'[i] = model[i])
  BY <1>1, <1>4, PushFacts DEF TypeOK
<1>6. /\ reverting' \in Reverts \cup {None} /\ resolving' \in Reads \cup {None}
      /\ resolving' # None =>
            /\ ~dirty' /\ resolving'.phase = "read" /\ resolving'.versionId = versionId'
            /\ resolving'.etag = stat' /\ resolving'.answer = None
  BY <1>1, <1>4, ResolveOverFacts DEF TypeOK
<1>7. seen' \subseteq Nat
  BY <1>1, <1>3, Zenon DEF TypeOK
<1>8. stored' \in Files /\ (stored' = stored \/ stored' = file) /\ (~outdated' => stored' = file)
  BY <1>1, <1>2, <1>3, RecordFacts DEF TypeOK
<1>9. \A i \in DOMAIN model : model[i] \in Versions /\ model[i].version \in Nat
  BY CurrentFacts, RecordFacts DEF TypeOK
<1> HIDE DEF file
<1>a. TypeOK'
  BY <1>1, <1>2, <1>4, <1>5, <1>6, <1>7, <1>8 DEF TypeOK
<1>b. OneSave'
  BY <1>1 DEF OneSave
<1>c. TimesTellTexts'
  <2>1. \A f \in Files : Known(f)' => Known(f)
    <3> SUFFICES ASSUME NEW f \in Files, Known(f)' PROVE Known(f)
      OBVIOUS
    <3>1. CASE f = stored'
      <4>1. Known(stored)
        BY DEF Known
      <4> QED BY <1>3, <1>8, <3>1, <4>1
    <3>2. CASE f = stat \/ (disk # None /\ f = disk) \/ \E s \in saves : f = s.stat
      BY <3>2 DEF Known
    <3> QED BY <1>1, <1>6, <3>1, <3>2 DEF Known
  <2> QED BY <1>1, <1>4, <2>1, KeepTimes, Zenon DEF TypeOK
<1>d. TextsAreSeen'
  BY <1>1, <1>4, <1>5 DEF TextsAreSeen
<1>e. StatsAreSeen'
  <2>1. Seen(stat)' /\ \A s \in saves : s.phase = "snapshot" => Seen(s.stat)'
    BY <1>1 DEF StatsAreSeen, SeenSoon, Seen, file
  <2> QED BY <1>1, <1>6, <2>1 DEF StatsAreSeen, SeenSoon, Seen, Updating
<1>f. OwnFileIsKnown'
  BY <1>1 DEF OwnFileIsKnown
<1>g. VersionsTellTexts'
  <2>1. \A i \in DOMAIN model' : model'[i].version <= fresh'
    BY <1>1, <1>4, <1>5, <1>9 DEF VersionsTellTexts
  <2>2. \A i, j \in DOMAIN model' : model'[i].version = model'[j].version => model'[i].text = model'[j].text
    BY <1>4, <1>5, <1>9 DEF VersionsTellTexts
  <2>3. ~outdated' => \A i \in DOMAIN model' : model'[i].version = savedVersionId' => model'[i].text = stored'.text
    BY <1>1, <1>4, <1>5, <1>8, <1>9 DEF VersionsTellTexts
  <2> QED BY <1>1, <1>4, <1>5, <2>1, <2>2, <2>3 DEF VersionsTellTexts
<1>h. SavesTellTexts'
  BY <1>1, RecordFacts DEF SavesTellTexts, TypeOK
<1> QED BY <1>a, <1>b, <1>c, <1>d, <1>e, <1>f, <1>g, <1>h

-----------------------------------------------------------------------------
(* Other programs *)

LEMMA ForeignWriteStep == Inv /\ ForeignWrite => Inv'
<1> SUFFICES ASSUME Inv, ForeignWrite PROVE Inv' OBVIOUS
<1> USE DEF Inv
<1>1. UNCHANGED <<model, versionId, undone, seen, dirty, savedVersionId, inConflictMode, inErrorMode, stat, saves,
                  running, queued, promised, resolving, reverting, blind, stored, outdated, unmarked>>
  BY DEF ForeignWrite, content, flags, saving, known
<1>2. events' \in 0..MaxEvents
  BY MaxEventsAssumption DEF ForeignWrite, Event, TypeOK
<1>3. PICK text \in {fresh + 1, fresh + 2} :
          disk' = [text |-> text, mtime |-> fresh + 1, own |-> FALSE] /\ fresh' = fresh + 2
  BY DEF ForeignWrite
<1>4. fresh \in Nat /\ fresh' \in Nat /\ fresh < fresh' /\ text \in Nat
  BY <1>3 DEF TypeOK
<1>5. disk' \in Files /\ disk'.mtime = fresh + 1 /\ disk'.own = FALSE
  BY <1>3, <1>4 DEF Files
<1>a. TypeOK'
  BY <1>1, <1>2, <1>4, <1>5 DEF TypeOK
<1>b. OneSave' /\ TextsAreSeen' /\ StatsAreSeen' /\ SavesTellTexts'
  BY <1>1 DEF OneSave, TextsAreSeen, StatsAreSeen, SeenSoon, Seen, Updating, SavesTellTexts
<1>c. TimesTellTexts'
  <2>1. \A f \in Files : Known(f)' => Known(f) \/ f = disk'
    BY <1>1 DEF Known
  <2> QED BY <1>4, <1>5, <2>1, NewTime, Zenon
<1>d. OwnFileIsKnown'
  BY <1>5 DEF OwnFileIsKnown
<1>e. VersionsTellTexts'
  BY <1>1, <1>4, CurrentFacts, RecordFacts DEF VersionsTellTexts, TypeOK
<1> QED BY <1>a, <1>b, <1>c, <1>d, <1>e

LEMMA ForeignDeleteStep == Inv /\ ForeignDelete => Inv'
<1> SUFFICES ASSUME Inv, ForeignDelete PROVE Inv' OBVIOUS
<1> USE DEF Inv
<1>1. /\ UNCHANGED <<model, versionId, undone, seen, dirty, savedVersionId, inConflictMode, inErrorMode, stat, saves,
                     running, queued, promised, resolving, reverting, fresh, blind, stored, outdated, unmarked>>
      /\ disk' = None
  BY DEF ForeignDelete, content, flags, saving, known
<1>2. events' \in 0..MaxEvents
  BY MaxEventsAssumption DEF ForeignDelete, Event, TypeOK
<1>a. TypeOK'
  BY <1>1, <1>2 DEF TypeOK
<1>b. OneSave' /\ TextsAreSeen' /\ StatsAreSeen' /\ SavesTellTexts'
  BY <1>1 DEF OneSave, TextsAreSeen, StatsAreSeen, SeenSoon, Seen, Updating, SavesTellTexts
<1>c. TimesTellTexts'
  <2>1. \A f \in Files : Known(f)' => Known(f)
    BY <1>1 DEF Known
  <2>2. fresh \in Nat /\ fresh' \in Nat /\ fresh <= fresh'
    BY <1>1 DEF TypeOK
  <2> QED BY <1>1, <2>1, <2>2, KeepTimes, Zenon DEF TypeOK
<1>d. OwnFileIsKnown' /\ VersionsTellTexts'
  BY <1>1 DEF OwnFileIsKnown, VersionsTellTexts
<1> QED BY <1>a, <1>b, <1>c, <1>d

-----------------------------------------------------------------------------

LEMMA InitInv == Init => Inv
<1> SUFFICES ASSUME Init PROVE Inv OBVIOUS
<1> DEFINE v == [version |-> 1, text |-> 1]
<1>1. disk = [text |-> 1, mtime |-> 1, own |-> TRUE] /\ stat = disk /\ stored = disk
  BY DEF Init
<1>2. disk \in Files
  BY <1>1 DEF Files
<1>3. disk.text = 1 /\ disk.mtime = 1
  BY <1>1
<1>4. v \in Versions /\ v.version = 1 /\ v.text = 1
  BY DEF Versions
<1>5. model = <<v>>
  BY DEF Init
<1> HIDE DEF v
<1>6. /\ model \in Seq(Versions) /\ model # <<>> /\ Current(model) = v
      /\ \A i \in DOMAIN model : model[i] = v
  BY <1>4, <1>5 DEF Current
<1>7. /\ dirty \in BOOLEAN /\ inConflictMode \in BOOLEAN /\ inErrorMode \in BOOLEAN /\ undone \in BOOLEAN
      /\ blind \in BOOLEAN /\ outdated \in BOOLEAN /\ unmarked \in BOOLEAN
  BY Zenon DEF Init
<1>8. /\ versionId = 0 /\ savedVersionId = 1 /\ saves = {} /\ running = None /\ queued = None
      /\ resolving = None /\ reverting = None /\ fresh = 1 /\ events = 0 /\ seen = {1} /\ promised = 0
  BY DEF Init
<1>a. TypeOK
  BY <1>1, <1>2, <1>6, <1>7, <1>8, MaxEventsAssumption DEF TypeOK
<1>b. OneSave /\ SavesTellTexts
  BY <1>8 DEF OneSave, SavesTellTexts
<1>c. TimesTellTexts
  <2>1. \A f \in Files : Known(f) => f = disk
    BY <1>1, <1>8 DEF Known
  <2> QED BY <1>3, <1>8, <2>1 DEF TimesTellTexts
<1>d. TextsAreSeen /\ StatsAreSeen
  BY <1>1, <1>3, <1>4, <1>6, <1>8 DEF TextsAreSeen, StatsAreSeen, SeenSoon, Seen
<1>e. OwnFileIsKnown
  BY <1>1, <1>3, <1>8 DEF OwnFileIsKnown
<1>f. VersionsTellTexts
  BY <1>1, <1>3, <1>4, <1>6, <1>8 DEF VersionsTellTexts
<1> QED BY <1>a, <1>b, <1>c, <1>d, <1>e, <1>f DEF Inv

LEMMA NextInv == Inv /\ [Next]_vars => Inv'
<1> SUFFICES ASSUME Inv, [Next]_vars PROVE Inv' OBVIOUS
<1>1. CASE Edit \/ Undo
  BY <1>1, EditStep, UndoStep
<1>2. ASSUME NEW o \in SaveOptions, Save(o) PROVE Inv'
  BY <1>2, SaveStepInv
<1>3. ASSUME NEW s \in saves,
             \/ ThrottleOver(s) \/ ParticipantsDone(s) \/ SaveCancelled(s)
             \/ Validate(s) \/ Write(s) \/ StatAfterWrite(s) \/ HandleSaveSuccess(s)
             \/ CancelSave(s) \/ WriteFails(s)
      PROVE  Inv'
  BY <1>3, ThrottleOverStep, ParticipantsDoneStep, SaveCancelledStep, ValidateStep, WriteStep,
     StatAfterWriteStep, HandleSaveSuccessStep, CancelSaveStep, WriteFailsStep
<1>4. CASE Resolve \/ Read \/ Unresolved \/ ResolveFromContent \/ UpdateModel \/ ResolveFails
  BY <1>4, ResolveStep, ReadAnswered, UnresolvedStep, ResolveFromContentStep, UpdateModelStep, ResolveFailsStep
<1>5. ASSUME NEW o \in RevertOptions, Revert(o) PROVE Inv'
  BY <1>5, RevertStep
<1>6. CASE ForeignWrite \/ ForeignDelete
  BY <1>6, ForeignWriteStep, ForeignDeleteStep
<1>7. CASE UNCHANGED vars
  <2>1. /\ UNCHANGED <<disk, content, flags, stat, saves, running, resolving, reverting, fresh, known>>
        /\ events' = events /\ promised' = promised /\ queued' = queued
    BY <1>7 DEF vars, saving
  <2>2. events' \in 0..MaxEvents /\ promised' \in Nat /\ queued' \in SaveOptions \cup {None}
    BY <2>1 DEF Inv, TypeOK
  <2> QED BY <2>1, <2>2, KeepInv, Zenon
<1> QED BY <1>1, <1>2, <1>3, <1>4, <1>5, <1>6, <1>7 DEF Next

\* Versions, modification times and texts belong together in every state.
THEOREM Invariance == Spec => []Inv
  BY InitInv, NextInv, PTL DEF Spec

\* A working copy that is not dirty shows what it has last read from or
\* written to the file, however edits, saves, reverts and reloads interleave.
THEOREM CleanWorkingCopyIsSaved == Spec => []CleanIsSaved
<1>1. Inv => CleanIsSaved
  <2> SUFFICES ASSUME Inv, ~dirty, ~outdated PROVE Current(model).text = stored.text
    BY DEF CleanIsSaved
  <2>1. Len(model) \in DOMAIN model /\ Current(model) = model[Len(model)]
    BY CurrentFacts DEF Inv, TypeOK
  <2> QED BY <2>1 DEF Inv, VersionsTellTexts
<1> QED BY Invariance, <1>1, PTL

\* A save is refused only because of a file that another program has written,
\* or that an earlier write of the working copy left when it ended in an error.
THEOREM ConflictsAreReal == Spec => []ConflictIsReal
<1>1. Inv => ConflictIsReal
  <2> SUFFICES ASSUME Inv, NEW s \in saves, s.phase = "snapshot", ModifiedSince(s), disk.own PROVE FALSE
    BY DEF ConflictIsReal
  <2>1. disk \in Files /\ s \in Saves /\ disk # None /\ s.stat.mtime < disk.mtime
    BY Zenon DEF ModifiedSince, Inv, TypeOK
  <2>2. disk.mtime \in Nat /\ s.stat.mtime \in Nat
    BY <2>1, RecordFacts
  <2>3. disk.mtime <= s.stat.mtime
    BY <2>1 DEF Inv, OwnFileIsKnown
  <2> QED BY <2>1, <2>2, <2>3
<1> QED BY Invariance, <1>1, PTL

\* What a save may overwrite without a conflict the user has seen, or it has
\* the size of what he has seen.
THEOREM OverwrittenTextsWereSeen == Spec => []SeenBeforeOverwritten
<1>1. Inv => SeenBeforeOverwritten
  <2> SUFFICES ASSUME Inv, NEW s \in saves, s.phase = "snapshot", ~s.overwrite, disk # None, ~ModifiedSince(s),
                      Size(disk.text) # Size(s.stat.text)
               PROVE  disk.text \in seen \/ blind \/ Updating
    BY DEF SeenBeforeOverwritten
  <2>1. disk \in Files /\ s \in Saves /\ ~(s.stat.mtime < disk.mtime)
    BY DEF ModifiedSince, Inv, TypeOK
  <2>2. s.stat \in Files /\ disk.mtime \in Nat /\ s.stat.mtime \in Nat
    BY <2>1, RecordFacts
  <2>3. Known(disk) /\ Known(s.stat)
    BY DEF Known
  <2>4. s.stat.mtime = disk.mtime
    BY <2>1, <2>2, <2>3 DEF Inv, TimesTellTexts
  <2>5. s.stat.text = disk.text
    BY <2>1, <2>2, <2>3, <2>4 DEF Inv, TimesTellTexts
  <2> QED BY <2>5 DEF Inv, StatsAreSeen, SeenSoon, Seen
<1> QED BY Invariance, <1>1, PTL

-----------------------------------------------------------------------------
(* What a resolve replaces *)

\* A working copy that is not dirty has the saved version, or an edit was not
\* marked.  A resolve that is still about the current version, or whose content
\* the model is taking, has found the saved version: edits have changed
\* versionId, and while the model takes the content they are not marked.
MarkInv ==
    /\ ~dirty /\ ~unmarked => Current(model).version = savedVersionId
    /\ resolving # None => resolving.versionId <= versionId
    /\ resolving # None /\ (resolving.versionId = versionId \/ Updating)
          => Current(model).version = savedVersionId \/ unmarked

\* A step that changes neither what is read nor what is marked.
LEMMA MarkKept ==
    ASSUME MarkInv, UNCHANGED <<model, versionId, savedVersionId, resolving, unmarked>>, dirty => dirty'
    PROVE  MarkInv'
  BY DEF MarkInv, Updating

\* A step after which the current version is the saved one, and no resolve is
\* under way that has begun with another one.
LEMMA MarkSaved ==
    ASSUME Current(model').version = savedVersionId',
           resolving' # None => resolving'.versionId <= versionId'
    PROVE  MarkInv'
  BY DEF MarkInv

\* A resolve is over and none begins but for a working copy that is not dirty.
LEMMA MarkOver ==
    ASSUME MarkInv, TypeOK, ResolveOver, UNCHANGED <<model, versionId, savedVersionId, unmarked, dirty>>, stat' \in Files
    PROVE  MarkInv'
<1>1. versionId' \in Nat
  BY DEF TypeOK
<1>2. resolving' # None => ~dirty' /\ resolving'.phase = "read" /\ resolving'.versionId = versionId'
  BY <1>1, ResolveOverFacts
<1> QED BY <1>1, <1>2 DEF MarkInv, Updating

LEMMA MarkEdit ==
    ASSUME Inv, MarkInv, NEW m, ContentChanged(m) PROVE MarkInv'
<1>1. /\ model' = m /\ versionId' = versionId + 1 /\ resolving' = resolving /\ (unmarked' <=> Updating)
      /\ savedVersionId' = savedVersionId
  BY DEF ContentChanged, SetDirty, flags
<1>2. ~Updating => (dirty' <=> Current(m).version # savedVersionId)
  BY Zenon DEF ContentChanged, SetDirty
<1>3. versionId \in Nat /\ (resolving # None => resolving.versionId \in Nat /\ resolving.versionId <= versionId)
  BY RecordFacts DEF Inv, TypeOK, MarkInv
<1> QED BY <1>1, <1>2, <1>3 DEF MarkInv, Updating

LEMMA MarkSaves ==
    ASSUME Inv, MarkInv, NEW s \in saves,
           \/ ThrottleOver(s) \/ ParticipantsDone(s) \/ SaveCancelled(s)
           \/ Validate(s) \/ Write(s) \/ StatAfterWrite(s) \/ HandleSaveSuccess(s)
           \/ CancelSave(s) \/ WriteFails(s)
    PROVE  MarkInv'
<1>1. UNCHANGED <<model, versionId, resolving>>
  BY DEF ThrottleOver, ParticipantsDone, SaveCancelled, Validate, Write, StatAfterWrite, HandleSaveSuccess,
         CancelSave, WriteFails, content
<1>2. ASSUME NEW conflict \in BOOLEAN, HandleSaveError(s, conflict) PROVE savedVersionId' = savedVersionId /\ (dirty => dirty')
  BY <1>2 DEF HandleSaveError, flags
<1>3. CASE ThrottleOver(s) \/ ParticipantsDone(s) \/ SaveCancelled(s) \/ Write(s) \/ CancelSave(s)
  <2>1. UNCHANGED <<savedVersionId, dirty, unmarked>>
    BY <1>3 DEF ThrottleOver, ParticipantsDone, SaveCancelled, Write, CancelSave, flags, known
  <2> QED BY <1>1, <2>1, MarkKept
<1>4. CASE Validate(s) \/ StatAfterWrite(s) \/ WriteFails(s)
  <2>1. unmarked' = unmarked
    BY <1>4 DEF Validate, StatAfterWrite, WriteFails, known
  <2>2. savedVersionId' = savedVersionId /\ (dirty => dirty')
    BY <1>2, <1>4 DEF Validate, StatAfterWrite, WriteFails, flags
  <2> QED BY <1>1, <2>1, <2>2, MarkKept
<1>5. CASE HandleSaveSuccess(s)
  <2>1. CASE SavedVersion(s)
    <3>1. savedVersionId' = Current(model).version
      BY <1>5, <2>1 DEF HandleSaveSuccess, SetDirty
    <3> QED BY <1>1, <3>1, MarkSaved DEF MarkInv
  <2>2. CASE ~SavedVersion(s)
    <3>1. UNCHANGED <<savedVersionId, dirty, unmarked>>
      BY <1>5, <2>2 DEF HandleSaveSuccess, flags
    <3> QED BY <1>1, <3>1, MarkKept
  <2> QED BY <2>1, <2>2
<1> QED BY <1>3, <1>4, <1>5

LEMMA MarkReads ==
    ASSUME Inv, MarkInv, Resolve \/ Read \/ Unresolved \/ ResolveFromContent \/ UpdateModel \/ ResolveFails
    PROVE  MarkInv'
<1>0. TypeOK /\ Inv'
  BY ResolveStep, ReadAnswered, UnresolvedStep, ResolveFromContentStep, UpdateModelStep, ResolveFailsStep DEF Inv
<1>1. CASE Resolve
  <2>1. UNCHANGED <<model, versionId, savedVersionId, dirty, unmarked, stat>> /\ ~dirty /\ resolving' = NewRead
    BY <1>1 DEF Resolve, content, flags, known
  <2>2. resolving'.phase = "read" /\ resolving'.versionId = versionId' /\ versionId' \in Nat
    BY <1>0, <2>1, NewReadStarts DEF TypeOK
  <2> QED BY <2>1, <2>2 DEF MarkInv, Updating
<1>2. CASE Read
  <2>1. /\ UNCHANGED <<model, versionId, savedVersionId, dirty, unmarked>> /\ resolving # None
        /\ resolving' = Answered(resolving, disk)
    BY <1>2 DEF Read, content, flags, known
  <2>2. resolving \in Reads /\ disk \in Files \cup {None}
    BY <1>0, <2>1, Zenon DEF TypeOK
  <2>3. resolving'.phase = "answer" /\ resolving'.versionId = resolving.versionId
    BY <2>1, <2>2, AnsweredFacts
  <2> QED BY <2>1, <2>3 DEF MarkInv, Updating
<1>3. CASE Unresolved
  <2>1. UNCHANGED <<model, versionId, savedVersionId, dirty, unmarked>> /\ ResolveOver
    BY <1>3 DEF Unresolved, content, flags, known
  <2> QED BY <1>0, <2>1, MarkOver DEF Inv, TypeOK
<1>4. CASE ResolveFromContent
  <2>1. /\ UNCHANGED <<model, versionId, savedVersionId, dirty, unmarked>> /\ resolving # None
        /\ resolving' = Accepted(resolving) /\ resolving.versionId = versionId
    BY <1>4 DEF ResolveFromContent, UnchangedSince, content, flags, known
  <2>2. resolving \in Reads
    BY <1>0, <2>1, Zenon DEF TypeOK
  <2>3. resolving'.versionId = resolving.versionId
    BY <2>1, <2>2, AcceptedFacts
  <2> QED BY <2>1, <2>3 DEF MarkInv
<1>5. CASE UpdateModel
  <2> DEFINE v == [version |-> fresh + 1, text |-> resolving.answer.text]
  <2>1. model' = Append(model, v) /\ savedVersionId' = fresh + 1 /\ ResolveOver
    BY <1>5 DEF UpdateModel, SetDirty
  <2>2. v.version = fresh + 1
    OBVIOUS
  <2> HIDE DEF v
  <2>3. Current(model') = v
    BY <1>0, <2>1 DEF TypeOK, Current
  <2>4. versionId' \in Nat /\ stat' \in Files
    BY <1>0 DEF Inv, TypeOK
  <2>5. resolving' # None => resolving'.versionId = versionId'
    BY <1>0, <2>1, <2>4, ResolveOverFacts
  <2> QED BY <2>1, <2>2, <2>3, <2>4, <2>5, MarkSaved
<1>6. CASE ResolveFails
  <2>1. UNCHANGED <<model, versionId, stat>> /\ ResolveFailed
    BY <1>6 DEF ResolveFails, content
  <2>2. CASE reverting # None /\ ~reverting.waits
    <3>1. /\ unmarked' = (Current(model).version # reverting.was[2]) /\ savedVersionId' = reverting.was[2]
          /\ resolving' = None
      BY <2>1, <2>2 DEF ResolveFailed
    <3> QED BY <2>1, <3>1 DEF MarkInv
  <2>3. CASE ~(reverting # None /\ ~reverting.waits)
    <3>1. UNCHANGED <<savedVersionId, dirty, unmarked>> /\ ResolveOver
      BY <2>1, <2>3 DEF ResolveFailed, flags
    <3> QED BY <1>0, <2>1, <3>1, MarkOver DEF Inv, TypeOK
  <2> QED BY <2>2, <2>3
<1> QED BY <1>1, <1>2, <1>3, <1>4, <1>5, <1>6

LEMMA MarkRevert ==
    ASSUME Inv, MarkInv, NEW o \in RevertOptions, Revert(o) PROVE MarkInv'
<1>1. UNCHANGED <<model, versionId, stat>> /\ savedVersionId' = Current(model).version
  BY DEF Revert, SetDirty, content
<1>2. versionId' \in Nat /\ stat' \in Files
  BY <1>1 DEF Inv, TypeOK
<1>3. resolving' = resolving \/ resolving' = NewRead
  BY Zenon DEF Revert
<1>4. resolving' = NewRead => resolving'.versionId = versionId'
  BY <1>2, NewReadStarts
<1>5. resolving' # None => resolving'.versionId <= versionId'
  BY <1>1, <1>2, <1>3, <1>4 DEF MarkInv
<1> QED BY <1>1, <1>5, MarkSaved

LEMMA MarkNext == Inv /\ MarkInv /\ [Next]_vars => MarkInv'
<1> SUFFICES ASSUME Inv, MarkInv, [Next]_vars PROVE MarkInv' OBVIOUS
<1>1. CASE Edit \/ Undo
  BY <1>1, MarkEdit DEF Edit, Undo
<1>2. ASSUME NEW o \in SaveOptions, Save(o) PROVE MarkInv'
  BY <1>2, MarkKept DEF Save, content, flags, known
<1>3. CASE ForeignWrite \/ ForeignDelete \/ UNCHANGED vars
  BY <1>3, MarkKept DEF ForeignWrite, ForeignDelete, vars, content, flags, known
<1> QED BY <1>1, <1>2, <1>3, MarkSaves, MarkReads, MarkRevert, Zenon DEF Next

LEMMA MarkInvariance == Spec => []MarkInv
<1>1. Init => MarkInv
  BY DEF Init, MarkInv, Current
<1> QED BY <1>1, MarkNext, Invariance, PTL DEF Spec

\* When the content of the file replaces what the model has, reload or revert,
\* the model has the version that was saved or reverted to, or an edit that was
\* never marked as dirty.
THEOREM ReloadsKeepEdits == Spec => ReloadKeepsEdits
<1>1. MarkInv => [ReplacesSavedVersion]_vars
  BY DEF MarkInv, ReplacesSavedVersion, Updating
<1> QED BY MarkInvariance, <1>1, PTL DEF Spec, ReloadKeepsEdits

=============================================================================
