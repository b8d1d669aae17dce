-------------------------- MODULE StorageFileProofs --------------------------
(***************************************************************************)
(* Proofs about StorageFile, for any number of processes, starts, writes   *)
(* and faults.                                                             *)
(*                                                                         *)
(* SurvivesOneFault speaks of the moments between processes.  Inv says     *)
(* what holds at every step between: as long as there was no fault, or the *)
(* only fault was that a process started before another had ended, all is  *)
(* well (Healthy); after any other fault one process is alone on its way   *)
(* back (Repairing), and either the backup or its own items still have     *)
(* what was stored.                                                        *)
(***************************************************************************)
EXTENDS StorageFile, TLAPS

\* The backup has all that was stored by a close, which may be nothing.
BackupIsGood == backup # Corrupt /\ closed \subseteq backup.items

FileIsGood == file # Corrupt /\ closed \subseteq file.items

\* The process has opened the file at path and has not met an error.
Sound(p) == connection[p].attached /\ ~connection[p].isErroneous /\ ~connection[p].isInMemory

\* Process p, alive, has met no error, and what it has is in the file.
Well(p) ==
    \/ pc[p] \in {"opening", "waiting"}
    \/ pc[p] = "loading" /\ Sound(p) /\ file # Missing
    \/ pc[p] \in {"open", "copying", "copied"} /\ Sound(p) /\ file # Missing /\ items[p] \subseteq file.items

Healthy == FileIsGood /\ \A p \in Alive : Well(p)

\* At most one process is there.
Alone == \A p, q \in Alive : p = q

\* Before the first fault the backup is good too unless it is being made, and
\* the process that is there knows everything.
Untouched ==
    /\ Alone
    /\ (\A p \in Alive : pc[p] # "copied") => BackupIsGood
    /\ \A p \in Alive :
          /\ pc[p] # "waiting"
          /\ pc[p] \in {"open", "copying", "copied"} => closed \subseteq items[p]

\* Process p in memory: there is neither a database nor something to lose.
NothingToLose == file = Missing /\ closed = {}

\* How far p is with what follows a fault.
OnTheWayBack(p) ==
    \/ pc[p] = "opening" /\ file = Corrupt /\ BackupIsGood
    \/ pc[p] = "replacing" /\ BackupIsGood /\ (file = Missing => closed = {})
    \/ pc[p] = "unlinked" /\ BackupIsGood /\ file = Missing
    \/ pc[p] = "reopening" /\ FileIsGood
    \/ pc[p] \in {"loading", "open"} /\ connection[p].isInMemory /\ ~connection[p].attached /\ NothingToLose
    \/ /\ pc[p] = "open" /\ connection[p].isErroneous /\ connection[p].attached
       /\ file # Missing /\ closed \subseteq items[p]
    \/ pc[p] = "recovering" /\ (file = Missing => closed = {}) /\ closed \subseteq items[p]
    \/ pc[p] = "recreating" /\ file = Missing /\ closed \subseteq items[p]
    \/ pc[p] = "restoring" /\ Sound(p) /\ file # Missing /\ file # Corrupt /\ closed \subseteq items[p]

Repairing ==
    /\ Alone
    /\ Alive = {} => file = Corrupt /\ BackupIsGood
    /\ \A p \in Alive : OnTheWayBack(p)

NoFaultYet == faults = 0 /\ ~blind => Healthy /\ Untouched

OneFault == faults = 1 /\ ~blind => Healthy \/ Repairing

Inv == TypeOK /\ NoFaultYet /\ OneFault

-----------------------------------------------------------------------------
(* Files and connections *)

LEMMA ContentsFacts ==
    /\ Missing \in Contents /\ Missing.items = {}
    /\ Corrupt \in Contents /\ Corrupt.items = {}
    /\ Missing # Corrupt /\ Missing.kind # "items" /\ Corrupt.kind # "items"
    /\ \A S \in SUBSET Writes :
          Holding(S) \in Contents /\ Holding(S).items = S /\ Holding(S) # Missing /\ Holding(S) # Corrupt
    /\ \A f \in Contents : f.items \in SUBSET Writes
    /\ \A f \in Contents : f = Missing \/ f = Corrupt \/ f.kind = "items"
<1>1. /\ Missing \in Contents /\ Missing.items = {} /\ Corrupt \in Contents /\ Corrupt.items = {}
      /\ Missing # Corrupt /\ Missing.kind # "items" /\ Corrupt.kind # "items"
  BY DEF Missing, Corrupt, Contents
<1>2. ASSUME NEW S \in SUBSET Writes
      PROVE  /\ Holding(S) \in Contents /\ Holding(S).items = S /\ Holding(S).kind = "items"
             /\ Holding(S) # Missing /\ Holding(S) # Corrupt
  <2>1. Holding(S) \in Contents
    BY Zenon DEF Contents
  <2>2. Holding(S).items = S /\ Holding(S).kind = "items"
    BY DEF Holding
  <2> QED
    BY <1>1, <2>1, <2>2
<1>3. ASSUME NEW f \in Contents
      PROVE  f.items \in SUBSET Writes /\ (f = Missing \/ f = Corrupt \/ f.kind = "items")
  <2>1. CASE f \in {Missing, Corrupt}
    BY <2>1, <1>1
  <2>2. CASE f \notin {Missing, Corrupt}
    <3>1. PICK S \in SUBSET Writes : f = Holding(S)
      BY <2>2, Zenon DEF Contents
    <3> QED
      BY <3>1, <1>2
  <2> QED
    BY <2>1, <2>2
<1> QED
  BY <1>1, <1>2, <1>3

Connections == [isErroneous : BOOLEAN, isInMemory : BOOLEAN, attached : BOOLEAN, held : SUBSET Writes]

LEMMA ConnectionFacts ==
    /\ Fresh \in Connections /\ Fresh.attached /\ ~Fresh.isErroneous /\ ~Fresh.isInMemory
    /\ InMemory \in Connections /\ ~InMemory.attached /\ InMemory.isInMemory
    /\ \A c \in Connections :
          /\ c.held \in SUBSET Writes
          /\ Erroneous(c) \in Connections /\ Erroneous(c).isErroneous
          /\ Erroneous(c).attached = c.attached /\ Erroneous(c).isInMemory = c.isInMemory
          /\ \A S \in SUBSET Writes : Nameless(c, S) \in Connections
<1>1. /\ Fresh \in Connections /\ Fresh.attached /\ ~Fresh.isErroneous /\ ~Fresh.isInMemory
      /\ InMemory \in Connections /\ ~InMemory.attached /\ InMemory.isInMemory
  BY DEF Fresh, InMemory, Connections
<1>2. ASSUME NEW c \in Connections
      PROVE  /\ c.held \in SUBSET Writes
             /\ Erroneous(c) \in Connections /\ Erroneous(c).isErroneous
             /\ Erroneous(c).attached = c.attached /\ Erroneous(c).isInMemory = c.isInMemory
  BY Zenon DEF Erroneous, Connections
<1>3. ASSUME NEW c \in Connections, NEW S \in SUBSET Writes
      PROVE  Nameless(c, S) \in Connections
  BY Zenon DEF Nameless, Connections
<1> QED
  BY <1>1, <1>2, <1>3, Zenon

\* What a step to another place does to the processes that are alive.
LEMMA AliveFacts ==
    ASSUME TypeOK, NEW p \in Processes, NEW step, Goto(p, step)
    PROVE  /\ pc'[p] = step /\ \A q \in Processes : q # p => pc'[q] = pc[q]
           /\ Alive' = IF step = "ended" THEN Alive \ {p} ELSE Alive \cup {p}
  BY DEF TypeOK, Goto, Alive

-----------------------------------------------------------------------------
(* Types *)

LEMMA TypeFacts ==
    ASSUME TypeOK, NEW p \in Processes
    PROVE  /\ connection[p] \in Connections /\ items[p] \in SUBSET Writes
           /\ file.items \in SUBSET Writes /\ backup.items \in SUBSET Writes
           /\ writes < MaxWrites => writes + 1 \in Writes
           /\ faults \in Nat
  BY ContentsFacts, FileBounds DEF TypeOK, Connections, Writes

LEMMA TypeNext == TypeOK /\ [Next]_vars => TypeOK'
<1> SUFFICES ASSUME TypeOK, [Next]_vars PROVE TypeOK'
  OBVIOUS
<1> USE FileBounds, ContentsFacts, ConnectionFacts
<1>1. ASSUME NEW p \in Processes, Start(p) PROVE TypeOK'
  BY <1>1, TypeFacts DEF TypeOK, Connections, Start, Goto, Fault
<1>2. ASSUME NEW p \in Processes, Connect(p) PROVE TypeOK'
  BY <1>2, TypeFacts DEF TypeOK, Connections, Connect, Goto, Fault
<1>3. ASSUME NEW p \in Processes, ConnectFails(p) PROVE TypeOK'
  <2>1. connection' = connection \/ connection' = [connection EXCEPT ![p] = InMemory]
    BY <1>3 DEF ConnectFails
  <2>2. pc' = [pc EXCEPT ![p] = "replacing"] \/ pc' = [pc EXCEPT ![p] = "loading"]
    BY <1>3 DEF ConnectFails, Goto
  <2>3. faults' \in 0..MaxFaults
    <3>1. Fault(file # Corrupt)
      BY <1>3 DEF ConnectFails
    <3> QED
      BY <3>1 DEF Fault, TypeOK
  <2>4. UNCHANGED <<file, backup, retryOnBusy, items, closed, blind, starts, writes>>
    BY <1>3 DEF ConnectFails
  <2>5. connection' \in [Processes -> Connections]
    BY <2>1 DEF TypeOK, Connections
  <2> QED
    BY <2>2, <2>3, <2>4, <2>5 DEF TypeOK, Connections
<1>4. ASSUME NEW p \in Processes, ConnectBusy(p) PROVE TypeOK'
  BY <1>4, TypeFacts DEF TypeOK, Connections, ConnectBusy, Goto, Fault
<1>5. ASSUME NEW p \in Processes, Retry(p) PROVE TypeOK'
  BY <1>5, TypeFacts DEF TypeOK, Connections, Retry, Goto, Fault
<1>6. ASSUME NEW p \in Processes, Unlink(p) PROVE TypeOK'
  BY <1>6, TypeFacts DEF TypeOK, Connections, Unlink, Goto, Fault, Detached
<1>7. ASSUME NEW p \in Processes, UnlinkFails(p) PROVE TypeOK'
  BY <1>7, TypeFacts DEF TypeOK, Connections, UnlinkFails, Goto, Fault
<1>8. ASSUME NEW p \in Processes, RenameBackup(p) PROVE TypeOK'
  BY <1>8, TypeFacts DEF TypeOK, Connections, RenameBackup, Goto, Fault
<1>9. ASSUME NEW p \in Processes, RenameFails(p) PROVE TypeOK'
  BY <1>9, TypeFacts DEF TypeOK, Connections, RenameFails, Goto, Fault
<1>10. ASSUME NEW p \in Processes, Load(p) PROVE TypeOK'
  BY <1>10, TypeFacts DEF TypeOK, Connections, Load, Goto, Fault
<1>11. ASSUME NEW p \in Processes, LoadFails(p) PROVE TypeOK'
  BY <1>11, TypeFacts DEF TypeOK, Connections, LoadFails, Goto, Fault
<1>12. ASSUME NEW p \in Processes, Update(p) PROVE TypeOK'
  BY <1>12, TypeFacts DEF TypeOK, Connections, Update, Goto, Fault
<1>13. ASSUME NEW p \in Processes, UpdateFails(p) PROVE TypeOK'
  BY <1>13, TypeFacts DEF TypeOK, Connections, UpdateFails, Goto, Fault
<1>14. ASSUME NEW p \in Processes, Close(p) PROVE TypeOK'
  BY <1>14, TypeFacts DEF TypeOK, Connections, Close, Goto, Fault
<1>15. ASSUME NEW p \in Processes, CloseFails(p) PROVE TypeOK'
  BY <1>15, TypeFacts DEF TypeOK, Connections, CloseFails, Goto, Fault
<1>16. ASSUME NEW p \in Processes, BeginCopy(p) PROVE TypeOK'
  BY <1>16, TypeFacts DEF TypeOK, Connections, BeginCopy, Goto, Fault
<1>17. ASSUME NEW p \in Processes, EndCopy(p) PROVE TypeOK'
  BY <1>17, TypeFacts DEF TypeOK, Connections, EndCopy, Goto, Fault
<1>18. ASSUME NEW p \in Processes, CopyFails(p) PROVE TypeOK'
  BY <1>18, TypeFacts DEF TypeOK, Connections, CopyFails, Goto, Fault
<1>19. ASSUME NEW p \in Processes, RecoveryUnlink(p) PROVE TypeOK'
  BY <1>19, TypeFacts DEF TypeOK, Connections, RecoveryUnlink, Goto, Fault, Detached
<1>20. ASSUME NEW p \in Processes, RecoveryConnect(p) PROVE TypeOK'
  BY <1>20, TypeFacts DEF TypeOK, Connections, RecoveryConnect, Goto, Fault
<1>21. ASSUME NEW p \in Processes, RecoveryUpdate(p) PROVE TypeOK'
  BY <1>21, TypeFacts DEF TypeOK, Connections, RecoveryUpdate, Goto, Fault
<1>22. ASSUME NEW p \in Processes, RecoveryFails(p) PROVE TypeOK'
  BY <1>22, TypeFacts DEF TypeOK, Connections, RecoveryFails, Goto, Fault
<1>23. ASSUME NEW p \in Processes, Crash(p) PROVE TypeOK'
  BY <1>23, TypeFacts DEF TypeOK, Connections, Crash, Goto, Fault
<1>24. CASE GoesBad
  BY <1>24 DEF TypeOK, GoesBad, Fault
<1>25. CASE UNCHANGED vars
  BY <1>25 DEF TypeOK, vars
<1> QED
  BY <1>1, <1>2, <1>3, <1>4, <1>5, <1>6, <1>7, <1>8, <1>9, <1>10, <1>11, <1>12, <1>13, <1>14, <1>15, <1>16, <1>17, <1>18, <1>19, <1>20, <1>21, <1>22, <1>23, <1>24, <1>25 DEF Next, Connecting, Closing

-----------------------------------------------------------------------------
(* A step of a process that is alive *)

\* Nothing has gone wrong: Healthy and Untouched for the only process, p.
Fine(p) ==
    /\ FileIsGood
    /\ pc[p] = "ended" \/ Well(p)
    /\ pc[p] = "copied" \/ BackupIsGood
    /\ pc[p] # "waiting"
    /\ pc[p] \in {"open", "copying", "copied"} => closed \subseteq items[p]

\* Healthy, as far as p is concerned.
WellOff(p) == FileIsGood /\ (pc[p] = "ended" \/ Well(p))

\* Repairing, with p alive.
Back(p) == pc[p] # "ended" /\ OnTheWayBack(p)

\* A step of p that leaves the others as well off as they were.
Spares(p) ==
    /\ \A q \in Processes \ {p} : connection'[q] = connection[q] /\ items'[q] = items[q]
    /\ file' = file \/ (file' # Missing /\ file.items \subseteq file'.items)

\* A step of p.
Moves(p) == pc[p] # "ended" /\ pc' = [pc EXCEPT ![p] = pc'[p]]

\* A step of p and the faults before and after it.
Counts(p) ==
    /\ blind => blind'
    /\ faults' <= 1 => faults <= 1
    /\ faults = 1 /\ faults' = 0 => Others(p) = {} /\ pc[p] = "copied" /\ pc'[p] = "ended"

\* What a step of p must do to keep Inv.
Proceeds(p) ==
    ~blind' =>
        /\ faults = 0 /\ faults' = 0 /\ Fine(p) /\ Others(p) = {} => Fine(p)'
        /\ faults = 0 /\ faults' = 1 /\ Fine(p) /\ Others(p) = {} => WellOff(p)' \/ Back(p)'
        /\ faults = 1 /\ faults' = 1 /\ WellOff(p) => WellOff(p)' /\ Spares(p)
        /\ faults = 1 /\ faults' = 1 /\ Back(p) /\ Others(p) = {} => WellOff(p)' \/ Back(p)'
        /\ faults = 1 /\ faults' = 0 /\ WellOff(p) => Fine(p)'

LEMMA StepRule ==
    ASSUME Inv, NEW p \in Processes, Moves(p), Counts(p), Proceeds(p)
    PROVE  NoFaultYet' /\ OneFault'
<1>0. TypeOK /\ faults \in Nat /\ NoFaultYet /\ OneFault
  BY TypeFacts DEF Inv
<1>1. /\ p \in Alive /\ Alive \subseteq Processes
      /\ Alive' = IF pc'[p] = "ended" THEN Alive \ {p} ELSE Alive
      /\ \A q \in Processes : q # p => pc'[q] = pc[q]
  BY <1>0 DEF Moves, Alive, TypeOK
<1>2. Alone => Others(p) = {} /\ Alive = {p}
  BY <1>1 DEF Alone, Others
<1>3. Others(p) = {} => Alive = {p}
  BY <1>1 DEF Others
<1>4. Healthy /\ Untouched => Fine(p)
  BY <1>1, <1>2 DEF Healthy, Untouched, Fine
<1>5. Healthy => WellOff(p)
  BY <1>1 DEF Healthy, WellOff
<1>6. Repairing => Back(p) /\ Others(p) = {}
  BY <1>1, <1>2 DEF Repairing, Back, Alive
<1>7. Others(p) = {} /\ Fine(p)' => Healthy' /\ Untouched'
  <2> SUFFICES ASSUME Others(p) = {}, Fine(p)' PROVE Healthy' /\ Untouched'
    OBVIOUS
  <2>1. \A q \in Alive' : q = p /\ pc'[p] # "ended"
    BY <1>1, <1>3
  <2>2. pc'[p] # "ended" => p \in Alive'
    BY <1>1
  <2>3. Healthy' /\ Alone'
    BY <2>1 DEF Fine, Healthy, Alone
  <2>4. (\A q \in Alive' : pc'[q] # "copied") => BackupIsGood'
    BY <2>1, <2>2 DEF Fine
  <2> QED
    BY <2>1, <2>3, <2>4 DEF Untouched, Fine
<1>8. Others(p) = {} /\ (WellOff(p)' \/ Back(p)') => Healthy' \/ Repairing'
  <2> SUFFICES ASSUME Others(p) = {} PROVE (WellOff(p)' => Healthy') /\ (Back(p)' => Repairing')
    OBVIOUS
  <2>1. \A q \in Alive' : q = p /\ pc'[p] # "ended"
    BY <1>1, <1>3
  <2>2. pc'[p] # "ended" => p \in Alive'
    BY <1>1
  <2> QED
    BY <2>1, <2>2 DEF WellOff, Back, Healthy, Repairing, Alone
<1>9. Healthy /\ WellOff(p)' /\ Spares(p) => Healthy'
  <2> SUFFICES ASSUME Healthy, WellOff(p)', Spares(p), NEW q \in Alive' PROVE Well(q)'
    BY DEF WellOff, Healthy
  <2>1. CASE q = p
    BY <2>1, <1>1 DEF WellOff
  <2>2. CASE q # p
    <3>1. Well(q) /\ pc'[q] = pc[q] /\ connection'[q] = connection[q] /\ items'[q] = items[q]
      BY <2>2, <1>1 DEF Healthy, Spares
    <3>2. (file # Missing => file' # Missing) /\ file.items \subseteq file'.items
      BY DEF Spares
    <3> QED
      BY <3>1, <3>2 DEF Well, Sound
  <2> QED
    BY <2>1, <2>2
<1>10. ASSUME ~blind', faults' = 0 PROVE Healthy' /\ Untouched'
  <2>1. CASE faults = 0
    BY <1>0, <1>2, <1>4, <1>7, <1>10, <2>1 DEF NoFaultYet, Counts, Proceeds, Untouched
  <2>2. CASE faults = 1
    <3>1. Others(p) = {} /\ pc[p] = "copied"
      BY <1>10, <2>2 DEF Counts
    <3>2. ~Repairing
      BY <1>6, <3>1 DEF Back, OnTheWayBack
    <3> QED
      BY <1>0, <1>5, <1>7, <1>10, <2>2, <3>1, <3>2 DEF OneFault, Counts, Proceeds
  <2> QED
    BY <1>0, <1>10, <2>1, <2>2 DEF Counts
<1>11. ASSUME ~blind', faults' = 1 PROVE Healthy' \/ Repairing'
  <2>1. CASE faults = 0
    BY <1>0, <1>2, <1>4, <1>8, <1>11, <2>1 DEF NoFaultYet, Counts, Proceeds, Untouched
  <2>2. CASE faults = 1 /\ Healthy
    BY <1>0, <1>5, <1>9, <1>11, <2>2 DEF Counts, Proceeds
  <2>3. CASE faults = 1 /\ Repairing
    BY <1>0, <1>6, <1>8, <1>11, <2>3 DEF Counts, Proceeds
  <2> QED
    BY <1>0, <1>11, <2>1, <2>2, <2>3 DEF OneFault, Counts
<1> QED
  BY <1>10, <1>11 DEF NoFaultYet, OneFault

LEMMA ConnectStep == ASSUME Inv, NEW p \in Processes, Connect(p) PROVE NoFaultYet' /\ OneFault'
<1> USE ContentsFacts, ConnectionFacts, TypeFacts
<1>0. TypeOK
  BY DEF Inv
<1>1. Moves(p)
  BY <1>0 DEF Connect, Goto, Moves, TypeOK
<1>2. Counts(p)
  BY <1>0, <1>1 DEF Connect, Fault, Counts, Moves, TypeOK
<1>3. Proceeds(p)
  BY <1>0 DEF Connect, Goto, Fault, Proceeds, Fine, WellOff, Back, Spares, Well, Sound, OnTheWayBack, FileIsGood,
     BackupIsGood, NothingToLose, TypeOK
<1> QED
  BY <1>1, <1>2, <1>3, StepRule

LEMMA ConnectFailsStep == ASSUME Inv, NEW p \in Processes, ConnectFails(p) PROVE NoFaultYet' /\ OneFault'
<1> USE ContentsFacts, ConnectionFacts, TypeFacts
<1>0. TypeOK
  BY DEF Inv
<1>1. Moves(p)
  BY <1>0 DEF ConnectFails, Goto, Moves, TypeOK
<1>2. Counts(p)
  BY <1>0, <1>1 DEF ConnectFails, Fault, Counts, Moves, TypeOK
<1>3. Proceeds(p)
  BY <1>0 DEF ConnectFails, Goto, Fault, Proceeds, Fine, WellOff, Back, Spares, Well, Sound, OnTheWayBack, FileIsGood,
     BackupIsGood, NothingToLose, TypeOK
<1> QED
  BY <1>1, <1>2, <1>3, StepRule

LEMMA ConnectBusyStep == ASSUME Inv, NEW p \in Processes, ConnectBusy(p) PROVE NoFaultYet' /\ OneFault'
<1> USE ContentsFacts, ConnectionFacts, TypeFacts
<1>0. TypeOK
  BY DEF Inv
<1>1. Moves(p)
  BY <1>0 DEF ConnectBusy, Goto, Moves, TypeOK
<1>2. Counts(p)
  BY <1>0, <1>1 DEF ConnectBusy, Fault, Counts, Moves, TypeOK
<1>3. Proceeds(p)
  <2>1. Others(p) # {}
    BY DEF ConnectBusy
  <2>2. CASE retryOnBusy[p]
    <3>1. pc[p] = "opening" /\ pc'[p] = "waiting" /\ faults' = faults /\ UNCHANGED <<file, backup, connection, items, closed>>
      BY <1>0, <2>2 DEF ConnectBusy, Goto, Fault, TypeOK
    <3> QED
      BY <1>0, <2>1, <3>1 DEF Proceeds, Fine, WellOff, Back, Spares, Well, Sound, OnTheWayBack, FileIsGood,
         BackupIsGood, NothingToLose, TypeOK
  <2>3. CASE ~retryOnBusy[p]
    <3>1. pc[p] = "opening" /\ pc'[p] = "replacing" /\ faults' = faults + 1 /\ UNCHANGED <<file, backup, connection, items, closed>>
      BY <1>0, <2>3 DEF ConnectBusy, Goto, Fault, TypeOK
    <3> QED
      BY <1>0, <2>1, <3>1 DEF Proceeds, Fine, WellOff, Back, Spares, Well, Sound, OnTheWayBack, FileIsGood,
         BackupIsGood, NothingToLose, TypeOK
  <2> QED
    BY <1>0, <2>2, <2>3 DEF TypeOK
<1> QED
  BY <1>1, <1>2, <1>3, StepRule

LEMMA RetryStep == ASSUME Inv, NEW p \in Processes, Retry(p) PROVE NoFaultYet' /\ OneFault'
<1> USE ContentsFacts, ConnectionFacts, TypeFacts
<1>0. TypeOK
  BY DEF Inv
<1>1. Moves(p)
  BY <1>0 DEF Retry, Goto, Moves, TypeOK
<1>2. Counts(p)
  BY <1>0, <1>1 DEF Retry, Fault, Counts, Moves, TypeOK
<1>3. Proceeds(p)
  BY <1>0 DEF Retry, Goto, Fault, Proceeds, Fine, WellOff, Back, Spares, Well, Sound, OnTheWayBack, FileIsGood,
     BackupIsGood, NothingToLose, TypeOK
<1> QED
  BY <1>1, <1>2, <1>3, StepRule

LEMMA UnlinkStep == ASSUME Inv, NEW p \in Processes, Unlink(p) PROVE NoFaultYet' /\ OneFault'
<1> USE ContentsFacts, ConnectionFacts, TypeFacts
<1>0. TypeOK
  BY DEF Inv
<1>1. Moves(p)
  BY <1>0 DEF Unlink, Goto, Moves, TypeOK
<1>2. Counts(p)
  BY <1>0, <1>1 DEF Unlink, Fault, Counts, Moves, TypeOK
<1>3. Proceeds(p)
  BY <1>0 DEF Unlink, Detached, Goto, Fault, Proceeds, Fine, WellOff, Back, Spares, Well, Sound, OnTheWayBack, FileIsGood,
     BackupIsGood, NothingToLose, TypeOK
<1> QED
  BY <1>1, <1>2, <1>3, StepRule

LEMMA UnlinkFailsStep == ASSUME Inv, NEW p \in Processes, UnlinkFails(p) PROVE NoFaultYet' /\ OneFault'
<1> USE ContentsFacts, ConnectionFacts, TypeFacts
<1>0. TypeOK
  BY DEF Inv
<1>1. Moves(p)
  BY <1>0 DEF UnlinkFails, Goto, Moves, TypeOK
<1>2. Counts(p)
  BY <1>0, <1>1 DEF UnlinkFails, Fault, Counts, Moves, TypeOK
<1>3. Proceeds(p)
  BY <1>0 DEF UnlinkFails, Goto, Fault, Proceeds, Fine, WellOff, Back, Spares, Well, Sound, OnTheWayBack, FileIsGood,
     BackupIsGood, NothingToLose, TypeOK
<1> QED
  BY <1>1, <1>2, <1>3, StepRule

LEMMA RenameBackupStep == ASSUME Inv, NEW p \in Processes, RenameBackup(p) PROVE NoFaultYet' /\ OneFault'
<1> USE ContentsFacts, ConnectionFacts, TypeFacts
<1>0. TypeOK
  BY DEF Inv
<1>1. Moves(p)
  BY <1>0 DEF RenameBackup, Goto, Moves, TypeOK
<1>2. Counts(p)
  BY <1>0, <1>1 DEF RenameBackup, Fault, Counts, Moves, TypeOK
<1>3. Proceeds(p)
  BY <1>0 DEF RenameBackup, Goto, Fault, Proceeds, Fine, WellOff, Back, Spares, Well, Sound, OnTheWayBack, FileIsGood,
     BackupIsGood, NothingToLose, TypeOK
<1> QED
  BY <1>1, <1>2, <1>3, StepRule

LEMMA RenameFailsStep == ASSUME Inv, NEW p \in Processes, RenameFails(p) PROVE NoFaultYet' /\ OneFault'
<1> USE ContentsFacts, ConnectionFacts, TypeFacts
<1>0. TypeOK
  BY DEF Inv
<1>1. Moves(p)
  BY <1>0 DEF RenameFails, Goto, Moves, TypeOK
<1>2. Counts(p)
  BY <1>0, <1>1 DEF RenameFails, Fault, Counts, Moves, TypeOK
<1>3. Proceeds(p)
  BY <1>0 DEF RenameFails, Goto, Fault, Proceeds, Fine, WellOff, Back, Spares, Well, Sound, OnTheWayBack, FileIsGood,
     BackupIsGood, NothingToLose, TypeOK
<1> QED
  BY <1>1, <1>2, <1>3, StepRule

LEMMA LoadStep == ASSUME Inv, NEW p \in Processes, Load(p) PROVE NoFaultYet' /\ OneFault'
<1> USE ContentsFacts, ConnectionFacts, TypeFacts
<1>0. TypeOK
  BY DEF Inv
<1>1. Moves(p)
  BY <1>0 DEF Load, Goto, Moves, TypeOK
<1>2. Counts(p)
  BY <1>0, <1>1 DEF Load, Fault, Counts, Moves, TypeOK
<1>3. Proceeds(p)
  BY <1>0 DEF Load, Readable, Goto, Fault, Proceeds, Fine, WellOff, Back, Spares, Well, Sound, OnTheWayBack, FileIsGood,
     BackupIsGood, NothingToLose, TypeOK
<1> QED
  BY <1>1, <1>2, <1>3, StepRule

LEMMA LoadFailsStep == ASSUME Inv, NEW p \in Processes, LoadFails(p) PROVE NoFaultYet' /\ OneFault'
<1> USE ContentsFacts, ConnectionFacts, TypeFacts
<1>0. TypeOK
  BY DEF Inv
<1>1. Moves(p)
  BY <1>0 DEF LoadFails, Goto, Moves, TypeOK
<1>2. Counts(p)
  BY <1>0, <1>1 DEF LoadFails, Fault, Counts, Moves, TypeOK
<1>3. Proceeds(p)
  BY <1>0 DEF LoadFails, Readable, Goto, Fault, Proceeds, Fine, WellOff, Back, Spares, Well, Sound, OnTheWayBack, FileIsGood,
     BackupIsGood, NothingToLose, TypeOK
<1> QED
  BY <1>1, <1>2, <1>3, StepRule

LEMMA UpdateStep == ASSUME Inv, NEW p \in Processes, Update(p) PROVE NoFaultYet' /\ OneFault'
<1> USE ContentsFacts, ConnectionFacts, TypeFacts
<1>0. TypeOK
  BY DEF Inv
<1>1. Moves(p)
  BY <1>0 DEF Update, Goto, Moves, TypeOK
<1>2. Counts(p)
  BY <1>0, <1>1 DEF Update, Fault, Counts, Moves, TypeOK
<1>3. Proceeds(p)
  <2>1. /\ pc[p] = "open" /\ pc'[p] = "open" /\ faults' = faults
        /\ connection' = connection /\ backup' = backup /\ closed' = closed
        /\ items'[p] = items[p] \cup {writes + 1} /\ \A q \in Processes \ {p} : items'[q] = items[q]
    BY <1>0 DEF Update, TypeOK
  <2>2. CASE connection[p].attached
    <3>1. file'.items = file.items \cup {writes + 1} /\ file' # Missing /\ file' # Corrupt
      BY <1>0, <2>2 DEF Update
    <3> QED
      BY <2>1, <2>2, <3>1 DEF Proceeds, Fine, WellOff, Back, Spares, Well, Sound, OnTheWayBack, FileIsGood,
       BackupIsGood, NothingToLose
  <2>3. CASE ~connection[p].attached
    <3>1. file' = file
      BY <2>3 DEF Update
    <3> QED
      BY <2>1, <2>3, <3>1 DEF Proceeds, Fine, WellOff, Back, Spares, Well, Sound, OnTheWayBack, FileIsGood,
       BackupIsGood, NothingToLose
  <2> QED
    BY <2>2, <2>3
<1> QED
  BY <1>1, <1>2, <1>3, StepRule

LEMMA UpdateFailsStep == ASSUME Inv, NEW p \in Processes, UpdateFails(p) PROVE NoFaultYet' /\ OneFault'
<1> USE ContentsFacts, ConnectionFacts, TypeFacts
<1>0. TypeOK
  BY DEF Inv
<1>1. Moves(p)
  BY <1>0 DEF UpdateFails, Goto, Moves, TypeOK
<1>2. Counts(p)
  BY <1>0, <1>1 DEF UpdateFails, Fault, Counts, Moves, TypeOK
<1>3. Proceeds(p)
  BY <1>0 DEF UpdateFails, Readable, Goto, Fault, Proceeds, Fine, WellOff, Back, Spares, Well, Sound, OnTheWayBack, FileIsGood,
     BackupIsGood, NothingToLose, TypeOK
<1> QED
  BY <1>1, <1>2, <1>3, StepRule

LEMMA CloseStep == ASSUME Inv, NEW p \in Processes, Close(p) PROVE NoFaultYet' /\ OneFault'
<1> USE ContentsFacts, ConnectionFacts, TypeFacts
<1>0. TypeOK
  BY DEF Inv
<1>1. Moves(p)
  BY <1>0 DEF Close, Goto, Moves, TypeOK
<1>2. Counts(p)
  BY <1>0, <1>1 DEF Close, Fault, Counts, Moves, TypeOK
<1>3. Proceeds(p)
  BY <1>0 DEF Close, Goto, Fault, Proceeds, Fine, WellOff, Back, Spares, Well, Sound, OnTheWayBack, FileIsGood,
     BackupIsGood, NothingToLose, TypeOK
<1> QED
  BY <1>1, <1>2, <1>3, StepRule

LEMMA CloseFailsStep == ASSUME Inv, NEW p \in Processes, CloseFails(p) PROVE NoFaultYet' /\ OneFault'
<1> USE ContentsFacts, ConnectionFacts, TypeFacts
<1>0. TypeOK
  BY DEF Inv
<1>1. Moves(p)
  BY <1>0 DEF CloseFails, Goto, Moves, TypeOK
<1>2. Counts(p)
  BY <1>0, <1>1 DEF CloseFails, Fault, Counts, Moves, TypeOK
<1>3. Proceeds(p)
  BY <1>0 DEF CloseFails, Goto, Fault, Proceeds, Fine, WellOff, Back, Spares, Well, Sound, OnTheWayBack, FileIsGood,
     BackupIsGood, NothingToLose, TypeOK
<1> QED
  BY <1>1, <1>2, <1>3, StepRule

LEMMA BeginCopyStep == ASSUME Inv, NEW p \in Processes, BeginCopy(p) PROVE NoFaultYet' /\ OneFault'
<1> USE ContentsFacts, ConnectionFacts, TypeFacts
<1>0. TypeOK
  BY DEF Inv
<1>1. Moves(p)
  BY <1>0 DEF BeginCopy, Goto, Moves, TypeOK
<1>2. Counts(p)
  BY <1>0, <1>1 DEF BeginCopy, Fault, Counts, Moves, TypeOK
<1>3. Proceeds(p)
  BY <1>0 DEF BeginCopy, Goto, Fault, Proceeds, Fine, WellOff, Back, Spares, Well, Sound, OnTheWayBack, FileIsGood,
     BackupIsGood, NothingToLose, TypeOK
<1> QED
  BY <1>1, <1>2, <1>3, StepRule

LEMMA EndCopyStep == ASSUME Inv, NEW p \in Processes, EndCopy(p) PROVE NoFaultYet' /\ OneFault'
<1> USE ContentsFacts, ConnectionFacts, TypeFacts
<1>0. TypeOK
  BY DEF Inv
<1>1. Moves(p)
  BY <1>0 DEF EndCopy, Goto, Moves, TypeOK
<1>2. Counts(p)
  BY <1>0, <1>1 DEF EndCopy, Fault, Counts, Moves, TypeOK, Goto
<1>3. Proceeds(p)
  BY <1>0 DEF EndCopy, Goto, Fault, Proceeds, Fine, WellOff, Back, Spares, Well, Sound, OnTheWayBack, FileIsGood,
     BackupIsGood, NothingToLose, TypeOK
<1> QED
  BY <1>1, <1>2, <1>3, StepRule

LEMMA CopyFailsStep == ASSUME Inv, NEW p \in Processes, CopyFails(p) PROVE NoFaultYet' /\ OneFault'
<1> USE ContentsFacts, ConnectionFacts, TypeFacts
<1>0. TypeOK
  BY DEF Inv
<1>1. Moves(p)
  BY <1>0 DEF CopyFails, Goto, Moves, TypeOK
<1>2. Counts(p)
  BY <1>0, <1>1 DEF CopyFails, Fault, Counts, Moves, TypeOK
<1>3. Proceeds(p)
  BY <1>0 DEF CopyFails, Goto, Fault, Proceeds, Fine, WellOff, Back, Spares, Well, Sound, OnTheWayBack, FileIsGood,
     BackupIsGood, NothingToLose, TypeOK
<1> QED
  BY <1>1, <1>2, <1>3, StepRule

LEMMA RecoveryUnlinkStep == ASSUME Inv, NEW p \in Processes, RecoveryUnlink(p) PROVE NoFaultYet' /\ OneFault'
<1> USE ContentsFacts, ConnectionFacts, TypeFacts
<1>0. TypeOK
  BY DEF Inv
<1>1. Moves(p)
  BY <1>0 DEF RecoveryUnlink, Goto, Moves, TypeOK
<1>2. Counts(p)
  BY <1>0, <1>1 DEF RecoveryUnlink, Fault, Counts, Moves, TypeOK
<1>3. Proceeds(p)
  BY <1>0 DEF RecoveryUnlink, Detached, Goto, Fault, Proceeds, Fine, WellOff, Back, Spares, Well, Sound, OnTheWayBack, FileIsGood,
     BackupIsGood, NothingToLose, TypeOK
<1> QED
  BY <1>1, <1>2, <1>3, StepRule

LEMMA RecoveryConnectStep == ASSUME Inv, NEW p \in Processes, RecoveryConnect(p) PROVE NoFaultYet' /\ OneFault'
<1> USE ContentsFacts, ConnectionFacts, TypeFacts
<1>0. TypeOK
  BY DEF Inv
<1>1. Moves(p)
  BY <1>0 DEF RecoveryConnect, Goto, Moves, TypeOK
<1>2. Counts(p)
  BY <1>0, <1>1 DEF RecoveryConnect, Fault, Counts, Moves, TypeOK
<1>3. Proceeds(p)
  BY <1>0 DEF RecoveryConnect, Goto, Fault, Proceeds, Fine, WellOff, Back, Spares, Well, Sound, OnTheWayBack, FileIsGood,
     BackupIsGood, NothingToLose, TypeOK
<1> QED
  BY <1>1, <1>2, <1>3, StepRule

LEMMA RecoveryUpdateStep == ASSUME Inv, NEW p \in Processes, RecoveryUpdate(p) PROVE NoFaultYet' /\ OneFault'
<1> USE ContentsFacts, ConnectionFacts, TypeFacts
<1>0. TypeOK
  BY DEF Inv
<1>1. Moves(p)
  BY <1>0 DEF RecoveryUpdate, Goto, Moves, TypeOK
<1>2. Counts(p)
  BY <1>0, <1>1 DEF RecoveryUpdate, Fault, Counts, Moves, TypeOK
<1>3. Proceeds(p)
  <2>1. /\ pc[p] = "restoring" /\ pc'[p] = "copying" /\ faults' = faults
        /\ connection' = connection /\ backup' = backup /\ closed' = closed /\ items' = items
    BY <1>0 DEF RecoveryUpdate, Goto, TypeOK
  <2>2. CASE connection[p].attached
    <3>1. file'.items = file.items \cup items[p] /\ file' # Missing /\ file' # Corrupt
      BY <1>0, <2>2 DEF RecoveryUpdate
    <3> QED
      BY <2>1, <2>2, <3>1 DEF Proceeds, Fine, WellOff, Back, Spares, Well, Sound, OnTheWayBack, FileIsGood,
       BackupIsGood, NothingToLose
  <2>3. CASE ~connection[p].attached
    BY <2>1, <2>3 DEF Proceeds, Fine, WellOff, Back, Well, Sound, OnTheWayBack
  <2> QED
    BY <2>2, <2>3
<1> QED
  BY <1>1, <1>2, <1>3, StepRule

LEMMA RecoveryFailsStep == ASSUME Inv, NEW p \in Processes, RecoveryFails(p) PROVE NoFaultYet' /\ OneFault'
<1> USE ContentsFacts, ConnectionFacts, TypeFacts
<1>0. TypeOK
  BY DEF Inv
<1>1. Moves(p)
  BY <1>0 DEF RecoveryFails, Goto, Moves, TypeOK
<1>2. Counts(p)
  BY <1>0, <1>1 DEF RecoveryFails, Fault, Counts, Moves, TypeOK
<1>3. Proceeds(p)
  BY <1>0 DEF RecoveryFails, Goto, Fault, Proceeds, Fine, WellOff, Back, Spares, Well, Sound, OnTheWayBack, FileIsGood,
     BackupIsGood, NothingToLose, TypeOK
<1> QED
  BY <1>1, <1>2, <1>3, StepRule

LEMMA CrashStep == ASSUME Inv, NEW p \in Processes, Crash(p) PROVE NoFaultYet' /\ OneFault'
<1> USE ContentsFacts, ConnectionFacts, TypeFacts
<1>0. TypeOK
  BY DEF Inv
<1>1. Moves(p)
  BY <1>0 DEF Crash, Goto, Moves, TypeOK
<1>2. Counts(p)
  BY <1>0, <1>1 DEF Crash, Fault, Counts, Moves, TypeOK
<1>3. Proceeds(p)
  BY <1>0 DEF Crash, Goto, Fault, Proceeds, Fine, WellOff, Back, Spares, Well, Sound, OnTheWayBack, FileIsGood,
     BackupIsGood, NothingToLose, TypeOK
<1> QED
  BY <1>1, <1>2, <1>3, StepRule

-----------------------------------------------------------------------------
(* The other steps *)

\* A process starts: all is as it was before, but that too many may be there.
LEMMA StartStep == ASSUME Inv, NEW p \in Processes, Start(p) PROVE NoFaultYet' /\ OneFault'
<1>0. TypeOK /\ faults \in Nat
  BY TypeFacts DEF Inv
<1>1. /\ pc[p] = "ended" /\ pc'[p] = "opening" /\ \A q \in Processes : q # p => pc'[q] = pc[q]
      /\ Alive' = Alive \cup {p} /\ p \notin Alive
      /\ UNCHANGED <<file, backup, connection, items, closed, blind>>
      /\ IF Alive = {} THEN faults' = faults ELSE faults' = faults + 1
  BY <1>0, AliveFacts DEF Start, Fault, Alive
<1>2. Healthy => Healthy'
  <2> SUFFICES ASSUME Healthy, NEW q \in Alive' PROVE Well(q)'
    BY <1>1 DEF Healthy, FileIsGood
  <2> QED
    BY <1>1 DEF Healthy, Well, Sound, Alive
<1>3. Alive = {} /\ Untouched => Untouched'
  BY <1>1 DEF Untouched, Alone, BackupIsGood
<1>4. Alive = {} /\ Repairing => Repairing'
  BY <1>1 DEF Repairing, Alone, BackupIsGood, OnTheWayBack
<1> QED
  BY <1>0, <1>1, <1>2, <1>3, <1>4 DEF Inv, NoFaultYet, OneFault

\* The first fault, with nobody there, leaves the other file.
LEMMA GoesBadStep == ASSUME Inv, GoesBad PROVE NoFaultYet' /\ OneFault'
<1>0. TypeOK /\ faults \in Nat
  BY FileBounds DEF Inv, TypeOK
<1>1. /\ Alive = {} /\ Alive' = {} /\ faults' = faults + 1 /\ closed' = closed /\ blind' = blind
      /\ (file' = Corrupt /\ backup' = backup) \/ file' = file
  BY DEF GoesBad, Fault, Alive
<1>2. Healthy /\ Untouched => Healthy' \/ Repairing'
  BY <1>1 DEF Healthy, Untouched, Repairing, Alone, FileIsGood, BackupIsGood
<1> QED
  BY <1>0, <1>1, <1>2 DEF Inv, NoFaultYet, OneFault

-----------------------------------------------------------------------------
(* Theorems *)

LEMMA NextInv == Inv /\ [Next]_vars => Inv'
<1> SUFFICES ASSUME Inv, [Next]_vars PROVE Inv'
  OBVIOUS
<1>1. TypeOK'
  BY TypeNext DEF Inv
<1>2. ASSUME NEW p \in Processes, Connecting(p) PROVE NoFaultYet' /\ OneFault'
  BY <1>2, ConnectStep, ConnectFailsStep, ConnectBusyStep, RetryStep, UnlinkStep, UnlinkFailsStep,
     RenameBackupStep, RenameFailsStep, LoadStep, LoadFailsStep DEF Connecting
<1>3. ASSUME NEW p \in Processes, Closing(p) PROVE NoFaultYet' /\ OneFault'
  BY <1>3, BeginCopyStep, EndCopyStep, CopyFailsStep, RecoveryUnlinkStep, RecoveryConnectStep,
     RecoveryUpdateStep, RecoveryFailsStep DEF Closing
<1>4. CASE UNCHANGED vars
  <2>1. UNCHANGED <<file, backup, pc, connection, items, closed, blind, faults>>
    BY <1>4 DEF vars
  <2>2. Alive' = Alive /\ FileIsGood' = FileIsGood /\ BackupIsGood' = BackupIsGood
    BY <2>1 DEF Alive, FileIsGood, BackupIsGood
  <2>3. ASSUME NEW p \in Processes PROVE Well(p)' = Well(p) /\ OnTheWayBack(p)' = OnTheWayBack(p)
    BY <2>1, <2>2 DEF Well, Sound, OnTheWayBack, NothingToLose
  <2>4. Alive \subseteq Processes
    BY DEF Alive
  <2>5. (Healthy => Healthy') /\ (Repairing => Repairing')
    BY <2>1, <2>2, <2>3, <2>4 DEF Healthy, Repairing, Alone
  <2>6. Untouched => Untouched'
    BY <2>1, <2>2 DEF Untouched, Alone
  <2> QED
    <3>1. NoFaultYet' /\ OneFault'
      BY <2>1, <2>5, <2>6 DEF Inv, NoFaultYet, OneFault
    <3> QED
      BY <1>1, <3>1 DEF Inv
<1> QED
  BY <1>1, <1>2, <1>3, <1>4, StartStep, UpdateStep, UpdateFailsStep, CloseStep, CloseFailsStep, CrashStep,
     GoesBadStep DEF Next, Inv

\* Every reachable state of the files and the processes satisfies Inv.
THEOREM Invariance == Spec => []Inv
<1>1. Init => Inv
  <2> SUFFICES ASSUME Init PROVE Inv
    OBVIOUS
  <2>1. Alive = {} /\ file = Missing /\ backup = Missing /\ closed = {} /\ faults = 0
    BY DEF Init, Alive
  <2>2. TypeOK
    <3>1. connection \in [Processes -> Connections]
      BY ConnectionFacts DEF Init
    <3>2. file \in Contents /\ backup \in Contents
      BY ContentsFacts DEF Init
    <3>3. faults \in 0..MaxFaults /\ starts \in 0..MaxStarts /\ writes \in 0..MaxWrites
      BY FileBounds DEF Init
    <3> QED
      BY <3>1, <3>2, <3>3 DEF Init, TypeOK, Connections
  <2> QED
    BY <2>1, <2>2, ContentsFacts DEF Inv, NoFaultYet, OneFault, Healthy, Untouched, Alone, FileIsGood, BackupIsGood
<1> QED
  BY <1>1, NextInv, PTL DEF Spec

\* What connect, doClose and their recovery promise: whatever single fault
\* happens, a crash between two calls to the file system included, the next
\* connect finds everything that a close has stored.
THEOREM OneFaultLosesNothing == Spec => []SurvivesOneFault
<1>1. Inv => SurvivesOneFault
  <2> SUFFICES ASSUME Inv, Alive = {}, faults <= 1, ~blind PROVE closed \subseteq NextLoad
    BY DEF SurvivesOneFault
  <2>1. faults = 0 \/ faults = 1
    BY FileBounds DEF Inv, TypeOK
  <2>2. CASE FileIsGood
    <3>1. CASE file = Missing
      BY <2>2, <3>1, ContentsFacts DEF FileIsGood
    <3>2. CASE file.kind = "items"
      BY <2>2, <3>2 DEF FileIsGood, NextLoad
    <3> QED
      BY <2>2, <3>1, <3>2, ContentsFacts DEF FileIsGood, Inv, TypeOK
  <2>3. CASE file = Corrupt /\ BackupIsGood
    <3>1. CASE backup = Missing
      BY <2>3, <3>1, ContentsFacts DEF BackupIsGood
    <3>2. CASE backup.kind = "items"
      BY <2>3, <3>2, ContentsFacts DEF BackupIsGood, NextLoad
    <3> QED
      BY <2>3, <3>1, <3>2, ContentsFacts DEF BackupIsGood, Inv, TypeOK
  <2> QED
    BY <2>1, <2>2, <2>3 DEF Inv, NoFaultYet, OneFault, Healthy, Repairing
<1> QED
  BY Invariance, <1>1, PTL

=============================================================================
