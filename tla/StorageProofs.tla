---------------------------- MODULE StorageProofs ----------------------------
(***************************************************************************)
(* The storage loses no change, for every set of keys and values and every *)
(* number of changes, failures and restarts.                               *)
(***************************************************************************)
EXTENDS Storage, TLAPS

-----------------------------------------------------------------------------
(* Updates *)

LEMMA NoUpdateType == NoItems \in Items /\ NoUpdate \in Updates
BY DEF NoItems, Items, NoUpdate, Updates

\* An update turns items into items.
LEMMA ApplyType ==
  ASSUME NEW request \in Updates, NEW items \in Items
  PROVE  Apply(request, items) \in Items
BY DEF Apply, Updates, Items

\* What an update does to one key.
LEMMA ApplyAt ==
  ASSUME NEW request, NEW items, NEW k \in Keys
  PROVE  Apply(request, items)[k] = IF k \in request.delete THEN None
                                    ELSE IF request.insert[k] # None THEN request.insert[k] ELSE items[k]
BY DEF Apply

\* The empty update changes nothing.
LEMMA ApplyNothing ==
  ASSUME NEW items \in Items
  PROVE  Apply(NoUpdate, items) = items
BY DEF Apply, NoUpdate, NoItems, Items

LEMMA PendingSet ==
  ASSUME NEW request \in Updates, NEW k \in Keys, NEW v \in Values
  PROVE  [insert |-> [request.insert EXCEPT ![k] = v], delete |-> request.delete \ {k}] \in Updates
BY DEF Updates, Items

LEMMA PendingDelete ==
  ASSUME NEW request \in Updates, NEW k \in Keys
  PROVE  [insert |-> [request.insert EXCEPT ![k] = None], delete |-> request.delete \cup {k}] \in Updates
BY DEF Updates, Items

LEMMA PartType ==
  ASSUME NEW request \in Updates
  PROVE  /\ [insert |-> NoItems, delete |-> request.delete] \in Updates
         /\ [insert |-> request.insert, delete |-> {}] \in Updates
BY NoUpdateType DEF Updates

-----------------------------------------------------------------------------
(* Sequences of views *)

LEMMA AppendType ==
  ASSUME NEW s \in Seq(Items), NEW e \in Items, NEW i \in 1..Len(s)
  PROVE  Append(s, e) \in Seq(Items) /\ i \in 1..Len(Append(s, e))
OBVIOUS

LEMMA SubSeqType ==
  ASSUME NEW s \in Seq(Items), NEW i \in 1..Len(s)
  PROVE  /\ SubSeq(s, i, Len(s)) \in Seq(Items)
         /\ Len(SubSeq(s, i, Len(s))) = (Len(s) + 1) - i
         /\ 1 \in 1..Len(SubSeq(s, i, Len(s)))
         /\ Len(SubSeq(s, i, Len(s))) \in 1..Len(SubSeq(s, i, Len(s)))
OBVIOUS

LEMMA IndexType ==
  ASSUME NEW s \in Seq(Items), NEW i \in 1..Len(s)
  PROVE  1 \in 1..Len(s) /\ Len(s) \in 1..Len(s)
OBVIOUS

LEMMA SingletonType ==
  ASSUME NEW e \in Items
  PROVE  <<e>> \in Seq(Items) /\ 1 \in 1..Len(<<e>>) /\ <<e>>[1] = e /\ Len(<<e>>) = 1
OBVIOUS

-----------------------------------------------------------------------------
(* Types *)

\* Starting a flush keeps the types of what it changes.
LEMMA StartFlushType ==
  ASSUME TypeOK, NEW waiters \in SUBSET Waiters, NEW wasQueued \in BOOLEAN,
         NEW left \in Seq(Items), 1 \in 1..Len(left), Len(left) \in 1..Len(left),
         StartFlush(waiters, wasQueued, left)
  PROVE  /\ update' \in Updates /\ pending' \in Updates
         /\ active' \subseteq Waiters
         /\ chained' \in BOOLEAN
         /\ taken' \in 1..Len(left)
<1>1. update' \in Updates /\ pending' \in Updates
  BY NoUpdateType, Zenon DEF StartFlush, TypeOK
<1>2. active' \subseteq Waiters
  BY DEF StartFlush
<1>3. chained' \in BOOLEAN
  BY Zenon DEF StartFlush
<1>4. taken' \in 1..Len(left)
  BY DEF StartFlush
<1> QED
  BY <1>1, <1>2, <1>3, <1>4, Zenon

\* The end of an update keeps the types of what it changes.
LEMMA SettleType ==
  ASSUME TypeOK, NEW rejected \in BOOLEAN,
         NEW left \in Seq(Items), 1 \in 1..Len(left), Len(left) \in 1..Len(left),
         Settle(rejected, left)
  PROVE  /\ update' \in Updates /\ pending' \in Updates
         /\ active' \subseteq Waiters /\ queued' \subseteq Waiters /\ hung' \subseteq Waiters
         /\ chained' \in BOOLEAN /\ callbacks' \in BOOLEAN
         /\ closing' \in {"no", "flushing", "closing", "done", "failed"}
         /\ views' \in Seq(Items)
         /\ taken' \in 1..Len(views')
<1>1. /\ update' \in Updates /\ pending' \in Updates
      /\ active' \subseteq Waiters
      /\ chained' \in BOOLEAN
      /\ taken' \in 1..Len(left)
  <2>1. RunQueued(left)
    BY Zenon DEF Settle
  <2>2. CASE queued # {}
    <3>1. StartFlush(queued, TRUE, left)
      BY <2>1, <2>2, Zenon DEF RunQueued
    <3>2. queued \in SUBSET Waiters /\ TRUE \in BOOLEAN
      BY Zenon DEF TypeOK
    <3> QED
      BY <3>1, <3>2, StartFlushType, Zenon
  <2>3. CASE ~(queued # {})
    <3>1. update' = NoUpdate /\ active' = {} /\ chained' = FALSE /\ taken' = 1 /\ pending' = pending
      BY <2>1, <2>3, Zenon DEF RunQueued
    <3> QED
      BY <3>1, NoUpdateType, Zenon DEF TypeOK
  <2> QED
    BY <2>2, <2>3, Zenon
<1>2. queued' \subseteq Waiters /\ hung' \subseteq Waiters
  BY Zenon DEF Settle, TypeOK
<1>3. callbacks' \in BOOLEAN
  BY Zenon DEF Settle, Finally
<1>4. closing' \in {"no", "flushing", "closing", "done", "failed"}
  BY Zenon DEF Settle, Resume, TypeOK
<1>5. views' = left
  BY Zenon DEF Settle
<1> QED
  BY <1>1, <1>2, <1>3, <1>4, <1>5, Zenon

\* A change keeps the types of what it changes besides cache and pending.
LEMMA ChangedType ==
  ASSUME TypeOK, NEW k \in Keys, cache' \in Items, pending' \in Updates, Changed(k)
  PROVE  TypeOK'
<1>1. /\ writes' \in 0..MaxWrites /\ failures' \in 0..MaxFailures /\ opens' \in 0..MaxOpens
  BY StorageBounds DEF Changed, TypeOK
<1>2. /\ delayed' \subseteq Waiters /\ overwritten' \subseteq Keys
  <2>1. k \in Waiters
    BY DEF Waiters
  <2> QED
    BY <2>1 DEF Changed, TypeOK
<1>3. views' \in Seq(Items) /\ taken' \in 1..Len(views')
  <2>1. views' = Append(views, cache') /\ taken' = taken
    BY Zenon DEF Changed
  <2>2. views \in Seq(Items) /\ taken \in 1..Len(views)
    BY Zenon DEF TypeOK
  <2> QED
    BY <2>1, <2>2, AppendType, Zenon
<1>4. /\ state' = state /\ loading' = loading /\ callbacks' = callbacks /\ chained' = chained
      /\ isErroneous' = isErroneous /\ disk' = disk /\ update' = update
      /\ active' = active /\ queued' = queued /\ hung' = hung /\ closing' = closing
  BY Zenon DEF Changed, database
<1>5. hasty' \in BOOLEAN
  BY Zenon DEF Changed, TypeOK
<1> QED
  BY <1>1, <1>2, <1>3, <1>4, <1>5, Zenon DEF TypeOK

\* The variables of the bounds stay in their ranges.
LEMMA BoundsType ==
  ASSUME TypeOK, Next
  PROVE  writes' \in 0..MaxWrites /\ failures' \in 0..MaxFailures /\ opens' \in 0..MaxOpens
<1>1. /\ writes' = writes \/ (writes < MaxWrites /\ writes' = writes + 1)
      /\ failures' = failures \/ (failures < MaxFailures /\ failures' = failures + 1)
      /\ opens' = opens \/ (opens < MaxOpens /\ opens' = opens + 1)
  <2>1. ASSUME NEW k \in Keys, Delete(k) \/ \E v \in Values : Set(k, v)
        PROVE  writes < MaxWrites /\ writes' = writes + 1 /\ failures' = failures /\ opens' = opens
    BY <2>1, Zenon DEF Delete, Set, Changed
  <2>2. CASE Reopen
    BY <2>2, Zenon DEF Reopen
  <2>3. CASE LoadFails \/ UpdateFails \/ StatementFails
    BY <2>3, Zenon DEF LoadFails, UpdateFails, StatementFails
  <2>4. CASE \/ InitStorage \/ Loaded \/ Flush \/ WhenFlushed \/ Close \/ TimerFires
             \/ UpdateSucceeds \/ CloseDatabase \/ CloseDatabaseFails
    BY <2>4, Zenon DEF InitStorage, Loaded, Flush, WhenFlushed, Close, TimerFires, UpdateSucceeds,
       CloseDatabase, CloseDatabaseFails, bounds
  <2> QED
    BY <2>1, <2>2, <2>3, <2>4, Zenon DEF Next
<1> QED
  BY <1>1, StorageBounds DEF TypeOK

LEMMA TypeStep == ASSUME TypeOK, [Next]_vars PROVE TypeOK'
<1>1. ASSUME UNCHANGED vars PROVE TypeOK'
  BY <1>1, Zenon DEF TypeOK, vars, storage, delayer, database, history, bounds
<1>2. CASE Next
  <2> writes' \in 0..MaxWrites /\ failures' \in 0..MaxFailures /\ opens' \in 0..MaxOpens
    BY <1>2, BoundsType
  <2>1. CASE InitStorage
    BY <2>1, Zenon DEF InitStorage, TypeOK, delayer, database, history, bounds
  <2>2. CASE Loaded
    <3>1. overwritten' \subseteq Keys
      BY <2>2 DEF Loaded
    <3> QED
      BY <2>2, <3>1, Zenon DEF Loaded, TypeOK, delayer, database, bounds
  <2>3. CASE LoadFails
    BY <2>3, Zenon DEF LoadFails, TypeOK, delayer, history
  <2>4. ASSUME NEW k \in Keys, Delete(k) PROVE TypeOK'
    <3>1. cache' \in Items
      BY <2>4 DEF Delete, TypeOK, Items
    <3>2. pending' \in Updates
      BY <2>4, PendingDelete, Zenon DEF Delete, TypeOK
    <3> QED
      BY <2>4, <3>1, <3>2, ChangedType, Zenon DEF Delete
  <2>5. ASSUME NEW k \in Keys, NEW v \in Values, Set(k, v) PROVE TypeOK'
    <3>1. cache' \in Items
      BY <2>5 DEF Set, TypeOK, Items
    <3>2. pending' \in Updates
      BY <2>5, PendingSet, Zenon DEF Set, TypeOK
    <3> QED
      BY <2>5, <3>1, <3>2, ChangedType, Zenon DEF Set
  <2>6. CASE Flush
    <3>1. delayed' \subseteq Waiters
      BY <2>6 DEF Flush, TypeOK, Waiters
    <3> QED
      BY <2>6, <3>1, Zenon DEF Flush, TypeOK, storage, database, history, bounds
  <2>7. CASE WhenFlushed
    BY <2>7, Zenon DEF WhenFlushed, TypeOK, delayer, database, history, bounds
  <2>8. CASE Close
    <3>1. delayed' \subseteq Waiters
      BY <2>8 DEF Close, TypeOK, Waiters
    <3> QED
      BY <2>8, <3>1, Zenon DEF Close, TypeOK, database, history, bounds
  <2>9. CASE TimerFires
    <3>0. /\ delayed' \subseteq Waiters /\ state' = state /\ loading' = loading /\ cache' = cache
          /\ callbacks' = callbacks /\ hung' = hung /\ disk' = disk /\ isErroneous' = isErroneous
          /\ overwritten' = overwritten /\ hasty' = hasty /\ views' = views
      BY <2>9, Zenon DEF TimerFires, bounds
    <3>1. CASE Running
      <4>1. queued' \subseteq Waiters
        BY <2>9, <3>1 DEF TimerFires, TypeOK
      <4> QED
        BY <2>9, <3>0, <3>1, <4>1, Zenon DEF TimerFires, TypeOK
    <3>2. CASE ~Running
      <4>1. StartFlush(delayed, FALSE, views) /\ queued' = queued
        BY <2>9, <3>2, Zenon DEF TimerFires
      <4>2. /\ delayed \in SUBSET Waiters /\ views \in Seq(Items)
            /\ 1 \in 1..Len(views) /\ Len(views) \in 1..Len(views)
        BY IndexType, Zenon DEF TypeOK
      <4>3. /\ update' \in Updates /\ pending' \in Updates /\ active' \subseteq Waiters
            /\ chained' \in BOOLEAN /\ taken' \in 1..Len(views)
        BY <4>1, <4>2, StartFlushType, Zenon
      <4>4. closing' \in {"no", "flushing", "closing", "done", "failed"}
        BY <2>9, <3>2, Zenon DEF TimerFires, Resume, TypeOK
      <4> QED
        BY <3>0, <4>1, <4>3, <4>4, Zenon DEF TypeOK
    <3> QED
      BY <3>1, <3>2, Zenon
  <2>10. ASSUME NEW rejected \in BOOLEAN, NEW left \in Seq(Items), 1 \in 1..Len(left),
                Len(left) \in 1..Len(left), Settle(rejected, left), disk' \in Items,
                isErroneous' \in BOOLEAN,
                UNCHANGED <<state, loading, cache, delayed, overwritten, hasty>>
         PROVE  TypeOK'
    BY <2>10, SettleType, Zenon DEF TypeOK
  <2>11. CASE UpdateSucceeds
    <3>1. /\ SubSeq(views, taken, Len(views)) \in Seq(Items)
          /\ 1 \in 1..Len(SubSeq(views, taken, Len(views)))
          /\ Len(SubSeq(views, taken, Len(views))) \in 1..Len(SubSeq(views, taken, Len(views)))
      BY SubSeqType, Zenon DEF TypeOK
    <3>2. disk' \in Items
      BY <2>11, ApplyType, Zenon DEF UpdateSucceeds, TypeOK
    <3>3. /\ Settle(FALSE, SubSeq(views, taken, Len(views))) /\ isErroneous' \in BOOLEAN
          /\ UNCHANGED <<state, loading, cache, delayed, overwritten, hasty>>
      BY <2>11, Zenon DEF UpdateSucceeds, TypeOK
    <3> QED
      BY <3>1, <3>2, <3>3, <2>10, Zenon
  <2>12. CASE UpdateFails
    <3>1. /\ views \in Seq(Items) /\ 1 \in 1..Len(views) /\ Len(views) \in 1..Len(views)
      BY IndexType, Zenon DEF TypeOK
    <3>2. /\ Settle(TRUE, views) /\ isErroneous' \in BOOLEAN /\ disk' \in Items
          /\ UNCHANGED <<state, loading, cache, delayed, overwritten, hasty>>
      BY <2>12, Zenon DEF UpdateFails, TypeOK
    <3> QED
      BY <3>1, <3>2, <2>10, Zenon
  <2>13. CASE StatementFails
    <3>1. /\ views \in Seq(Items) /\ 1 \in 1..Len(views) /\ Len(views) \in 1..Len(views)
      BY IndexType, Zenon DEF TypeOK
    <3>2. disk' \in Items
      BY <2>13, PartType, ApplyType, Zenon DEF StatementFails, TypeOK
    <3>3. /\ Settle(FALSE, views) /\ isErroneous' \in BOOLEAN
          /\ UNCHANGED <<state, loading, cache, delayed, overwritten, hasty>>
      BY <2>13, Zenon DEF StatementFails, TypeOK
    <3> QED
      BY <3>1, <3>2, <3>3, <2>10, Zenon
  <2>14. CASE CloseDatabase
    BY <2>14, Zenon DEF CloseDatabase, TypeOK, storage, delayer, history, bounds
  <2>15. CASE CloseDatabaseFails
    BY <2>15, Zenon DEF CloseDatabaseFails, TypeOK, storage, delayer, database, history, bounds
  <2>16. CASE Reopen
    <3>1. disk' \in Items
      BY <2>16, ApplyType DEF Reopen, Committed, TypeOK
    <3>2. views' = <<disk'>> /\ taken' = 1
      BY <2>16, Zenon DEF Reopen
    <3>3. views' \in Seq(Items) /\ taken' \in 1..Len(views')
      BY <3>1, <3>2, SingletonType, Zenon
    <3> QED
      BY <2>16, <3>1, <3>3, NoUpdateType, Zenon DEF Reopen, TypeOK
  <2> QED
    BY <1>2, <2>1, <2>2, <2>3, <2>4, <2>5, <2>6, <2>7, <2>8, <2>9, <2>11, <2>12, <2>13, <2>14,
       <2>15, <2>16, Zenon DEF Next
<1> QED
  BY <1>1, <1>2, Zenon

LEMMA TypeInit == ASSUME Init PROVE TypeOK
<1>1. views \in Seq(Items) /\ taken \in 1..Len(views)
  BY SingletonType DEF Init
<1>2. writes \in 0..MaxWrites /\ failures \in 0..MaxFailures /\ opens \in 0..MaxOpens
  BY StorageBounds DEF Init
<1> QED
  BY <1>1, <1>2, NoUpdateType, Zenon DEF Init, TypeOK

\* Every variable keeps its type, whatever calls, failures and restarts come.
THEOREM TypeCorrect == Spec => []TypeOK
BY TypeInit, TypeStep, PTL DEF Spec

-----------------------------------------------------------------------------
(* Who waits for what *)

\* The keys a request changes.
Touched(request) == {k \in Keys : request.insert[k] # None \/ k \in request.delete}

\* Whatever has not been stored has a promise that has not settled: the keys
\* that are pending wait for the timer or for the queued run, those of the
\* update under way may wait for the active one.
WaitersInv ==
    /\ ~Running => active = {} /\ queued = {} /\ taken = 1
    /\ Touched(pending) \subseteq delayed \cup queued
    /\ Touched(update) \subseteq delayed \cup queued \cup active

LEMMA TouchedNothing == Touched(NoUpdate) = {}
BY DEF Touched, NoUpdate, NoItems

\* A key that a request does not touch keeps its value.
LEMMA Untouched ==
  ASSUME NEW request, NEW items, NEW k \in Keys, k \notin Touched(request)
  PROVE  Apply(request, items)[k] = items[k]
BY ApplyAt DEF Touched

\* What is done when an update has ended, seen from the pipeline: either the
\* queued run takes what is pending, or it stays.
LEMMA SettleMoves ==
  ASSUME NEW rejected, NEW left, Settle(rejected, left)
  PROVE  /\ queued' = {}
         /\ \/ /\ update' = pending /\ pending' = NoUpdate
               /\ active' = IF HasPending THEN queued ELSE {}
               /\ taken' = IF HasPending THEN Len(left) ELSE 1
            \/ /\ queued = {}
               /\ update' = NoUpdate /\ pending' = pending /\ active' = {} /\ taken' = 1
         /\ views' = left
BY Zenon DEF Settle, RunQueued, StartFlush

LEMMA WaitersSettle ==
  ASSUME TypeOK, WaitersInv, NEW rejected, NEW left, Settle(rejected, left), delayed' = delayed
  PROVE  WaitersInv'
<1>1. CASE /\ update' = pending /\ pending' = NoUpdate
           /\ active' = IF HasPending THEN queued ELSE {}
           /\ taken' = IF HasPending THEN Len(left) ELSE 1
  <2>1. queued' = {}
    BY SettleMoves, Zenon
  <2>2. Touched(pending') = {} /\ Touched(update') = Touched(pending)
    BY <1>1, TouchedNothing, Zenon
  <2>3. CASE HasPending
    BY <1>1, <2>1, <2>2, <2>3 DEF WaitersInv, Running, HasPending
  <2>4. CASE ~HasPending
    <3>1. Touched(pending) = {}
      BY <2>4, TouchedNothing DEF HasPending
    <3> QED
      BY <1>1, <2>1, <2>2, <2>4, <3>1 DEF WaitersInv, Running, HasPending
  <2> QED
    BY <2>3, <2>4, Zenon
<1>2. CASE queued = {} /\ update' = NoUpdate /\ pending' = pending /\ active' = {} /\ taken' = 1
  <2>1. queued' = {}
    BY SettleMoves, Zenon
  <2>2. Touched(pending') = Touched(pending) /\ Touched(update') = {}
    BY <1>2, TouchedNothing, Zenon
  <2> QED
    BY <1>2, <2>1, <2>2 DEF WaitersInv, Running
<1> QED
  BY <1>1, <1>2, SettleMoves, Zenon

LEMMA WaitersStep == ASSUME TypeOK, WaitersInv, [Next]_vars PROVE WaitersInv'
<1>1. ASSUME UNCHANGED <<pending, update, delayed, active, queued, taken>> PROVE WaitersInv'
  BY <1>1, Zenon DEF WaitersInv, Running
<1>2. CASE UNCHANGED vars
  BY <1>1, <1>2, Zenon DEF vars, storage, delayer, database, history
<1>3. CASE InitStorage \/ Loaded \/ LoadFails \/ WhenFlushed \/ CloseDatabase \/ CloseDatabaseFails
  BY <1>1, <1>3, Zenon DEF InitStorage, Loaded, LoadFails, WhenFlushed, CloseDatabase,
     CloseDatabaseFails, storage, delayer, database, history
<1>4. ASSUME NEW k \in Keys, Delete(k) PROVE WaitersInv'
  <2>1. pending' = [insert |-> [pending.insert EXCEPT ![k] = None], delete |-> pending.delete \cup {k}]
    BY <1>4, Zenon DEF Delete
  <2>2. Touched(pending') \subseteq Touched(pending) \cup {k}
    BY <2>1 DEF TypeOK, Updates, Items, Touched
  <2>3. /\ delayed' = delayed \cup {k} /\ update' = update /\ active' = active /\ queued' = queued
        /\ taken' = taken
    BY <1>4, Zenon DEF Delete, Changed, database
  <2> QED
    BY <2>2, <2>3 DEF WaitersInv, Running
<1>5. ASSUME NEW k \in Keys, NEW v \in Values, Set(k, v) PROVE WaitersInv'
  <2>1. pending' = [insert |-> [pending.insert EXCEPT ![k] = v], delete |-> pending.delete \ {k}]
    BY <1>5, Zenon DEF Set
  <2>2. Touched(pending') \subseteq Touched(pending) \cup {k}
    BY <2>1 DEF TypeOK, Updates, Items, Touched
  <2>3. /\ delayed' = delayed \cup {k} /\ update' = update /\ active' = active /\ queued' = queued
        /\ taken' = taken
    BY <1>5, Zenon DEF Set, Changed, database
  <2> QED
    BY <2>2, <2>3 DEF WaitersInv, Running
<1>6. CASE Flush \/ Close
  <2>1. /\ delayed \subseteq delayed'
        /\ UNCHANGED <<pending, update, active, queued, taken>>
    BY <1>6, Zenon DEF Flush, Close, storage, database, history
  <2> QED
    BY <2>1 DEF WaitersInv, Running
<1>7. CASE TimerFires
  <2>1. CASE Running
    <3>1. /\ delayed' = {} /\ queued' = queued \cup delayed
          /\ UNCHANGED <<pending, update, active, taken>>
      BY <1>7, <2>1, Zenon DEF TimerFires
    <3> QED
      BY <2>1, <3>1 DEF WaitersInv, Running
  <2>2. CASE ~Running
    <3>1. /\ delayed' = {} /\ queued' = queued /\ update' = pending /\ pending' = NoUpdate
          /\ active' = IF HasPending THEN delayed ELSE {}
          /\ taken' = IF HasPending THEN Len(views) ELSE 1
      BY <1>7, <2>2, Zenon DEF TimerFires, StartFlush
    <3>2. queued = {} /\ Touched(pending') = {} /\ Touched(update') = Touched(pending)
      BY <2>2, <3>1, TouchedNothing, Zenon DEF WaitersInv
    <3>3. CASE HasPending
      BY <3>1, <3>2, <3>3 DEF WaitersInv, Running, HasPending
    <3>4. CASE ~HasPending
      <4>1. Touched(pending) = {}
        BY <3>4, TouchedNothing DEF HasPending
      <4> QED
        BY <3>1, <3>2, <3>4, <4>1 DEF WaitersInv, Running, HasPending
    <3> QED
      BY <3>3, <3>4, Zenon
  <2> QED
    BY <2>1, <2>2, Zenon
<1>8. CASE UpdateSucceeds \/ UpdateFails \/ StatementFails
  <2>1. delayed' = delayed /\ \E rejected \in BOOLEAN, left \in {views, SubSeq(views, taken, Len(views))} : Settle(rejected, left)
    BY <1>8, Zenon DEF UpdateSucceeds, UpdateFails, StatementFails
  <2> QED
    BY <2>1, WaitersSettle, Zenon
<1>9. CASE Reopen
  <2>1. delayed' = {} /\ queued' = {} /\ active' = {} /\ pending' = NoUpdate /\ update' = NoUpdate /\ taken' = 1
    BY <1>9, Zenon DEF Reopen
  <2>2. Touched(pending') = {} /\ Touched(update') = {}
    BY <2>1, TouchedNothing, Zenon
  <2> QED
    BY <2>1, <2>2 DEF WaitersInv, Running
<1> QED
  BY <1>2, <1>3, <1>4, <1>5, <1>6, <1>7, <1>8, <1>9, Zenon DEF Next

LEMMA WaitersInit == ASSUME Init PROVE WaitersInv
<1>1. Touched(pending) = {} /\ Touched(update) = {}
  BY TouchedNothing, Zenon DEF Init
<1> QED
  BY <1>1 DEF Init, WaitersInv, Running

-----------------------------------------------------------------------------
(* Closing *)

\* From the moment close is called nothing new is written; the promise that it
\* waits for is the last one of the pipeline, so that nothing is left to store
\* when the database is closed.
CloseInv ==
    /\ state = "Closed" <=> closing # "no"
    /\ "close" \in delayed \cup queued \cup active => state = "Closed"
    /\ "close" \in queued => delayed = {}
    /\ "close" \in active => delayed = {} /\ queued = {} /\ pending = NoUpdate
    /\ closing \in {"closing", "done", "failed"} =>
         delayed = {} /\ queued = {} /\ active = {} /\ pending = NoUpdate /\ update = NoUpdate
    /\ closing \in {"done", "failed"} => ~loading

LEMMA CloseSettle ==
  ASSUME TypeOK, WaitersInv, CloseInv, Running, NEW rejected, NEW left, Settle(rejected, left),
         delayed' = delayed, state' = state, loading' = loading
  PROVE  CloseInv'
<1>1. closing \in {"no", "flushing"}
  BY DEF CloseInv, Running, TypeOK
<1>2. closing' = IF "close" \in Settled(rejected) THEN "closing" ELSE closing
  BY Zenon DEF Settle, Resume
<1>3. /\ queued' = {}
      /\ \/ /\ update' = pending /\ pending' = NoUpdate
            /\ active' = IF HasPending THEN queued ELSE {}
         \/ /\ queued = {}
            /\ update' = NoUpdate /\ pending' = pending /\ active' = {}
  BY SettleMoves, Zenon
<1>4. CASE "close" \in Settled(rejected)
  <2>1. CASE "close" \in active
    BY <1>2, <1>3, <1>4, <2>1 DEF CloseInv, HasPending
  <2>2. CASE "close" \notin active
    <3>1. "close" \in queued /\ pending = NoUpdate
      BY <1>4, <2>2 DEF Settled, HasPending
    <3>2. update' = NoUpdate /\ pending' = NoUpdate /\ active' = {} /\ delayed = {} /\ state = "Closed"
      BY <1>3, <3>1 DEF CloseInv, HasPending
    <3> QED
      BY <1>2, <1>3, <1>4, <3>2 DEF CloseInv
  <2> QED
    BY <2>1, <2>2, Zenon
<1>5. CASE "close" \notin Settled(rejected)
  <2>1. closing' = closing
    BY <1>2, <1>5, Zenon
  <2>2. "close" \in active' => "close" \in queued /\ pending' = NoUpdate
    BY <1>3
  <2> QED
    BY <1>1, <1>3, <2>1, <2>2 DEF CloseInv
<1> QED
  BY <1>4, <1>5, Zenon

LEMMA CloseStep == ASSUME TypeOK, WaitersInv, CloseInv, [Next]_vars PROVE CloseInv'
<1>1. ASSUME UNCHANGED <<state, closing, pending, update, delayed, active, queued, loading>> PROVE CloseInv'
  BY <1>1, Zenon DEF CloseInv
<1>2. CASE UNCHANGED vars
  BY <1>1, <1>2, Zenon DEF vars, storage, delayer, database
<1>3. CASE InitStorage
  <2>1. state = "None" /\ state' = "Initialized" /\ UNCHANGED <<closing, pending, update, delayed, active, queued>>
    BY <1>3, Zenon DEF InitStorage, delayer, database
  <2> QED
    BY <2>1 DEF CloseInv
<1>4. CASE Loaded \/ LoadFails \/ WhenFlushed
  <2>1. /\ loading' = FALSE \/ loading' = loading
        /\ UNCHANGED <<state, closing, pending, update, delayed, active, queued>>
    BY <1>4, Zenon DEF Loaded, LoadFails, WhenFlushed, delayer, database
  <2> QED
    BY <2>1 DEF CloseInv
<1>5. ASSUME state # "Closed", NEW w, w # "close", delayed' = delayed \cup {w},
             UNCHANGED <<state, closing, update, active, queued, loading>>
      PROVE  CloseInv'
  BY <1>5 DEF CloseInv
<1>6. ASSUME NEW k \in Keys, Delete(k) \/ \E v \in Values : Set(k, v) PROVE CloseInv'
  <2>1. state # "Closed"
    BY <1>6 DEF Delete, Set, Usable, Ready
  <2>2. k # "close"
    BY StorageBounds
  <2>3. delayed' = delayed \cup {k} /\ UNCHANGED <<state, closing, update, active, queued, loading>>
    BY <1>6, Zenon DEF Delete, Set, Changed, database
  <2> QED
    BY <2>1, <2>2, <2>3, <1>5, Zenon
<1>7. CASE Flush
  <2>1. state # "Closed"
    BY <1>7 DEF Flush, Usable, Ready
  <2>2. delayed' = delayed \cup {"flush"} /\ UNCHANGED <<state, closing, update, active, queued, loading>>
    BY <1>7, Zenon DEF Flush, storage, database
  <2> QED
    BY <2>1, <2>2, <1>5
<1>8. CASE Close
  <2>1. /\ closing = "no" /\ state' = "Closed" /\ closing' = "flushing"
        /\ delayed' = delayed \cup {"close"}
        /\ UNCHANGED <<pending, update, active, queued, loading>>
    BY <1>8, Zenon DEF Close, database
  <2> QED
    BY <2>1 DEF CloseInv
<1>9. CASE TimerFires
  <2>1. /\ delayed # {} /\ delayed' = {} /\ state' = state /\ loading' = loading
    BY <1>9, Zenon DEF TimerFires
  <2>2. closing \in {"no", "flushing"}
    BY <2>1 DEF CloseInv, TypeOK
  <2>3. CASE Running
    <3>1. queued' = queued \cup delayed /\ UNCHANGED <<pending, update, active, closing>>
      BY <1>9, <2>3, Zenon DEF TimerFires
    <3> QED
      BY <2>1, <2>2, <3>1 DEF CloseInv
  <2>4. CASE ~Running
    <3>1. /\ queued' = queued /\ update' = pending /\ pending' = NoUpdate
          /\ active' = IF HasPending THEN delayed ELSE {}
          /\ closing' = IF "close" \in (IF HasPending THEN {} ELSE delayed) THEN "closing" ELSE closing
      BY <1>9, <2>4, Zenon DEF TimerFires, StartFlush, Resume
    <3>2. queued = {}
      BY <2>4, Zenon DEF WaitersInv
    <3>3. CASE HasPending
      BY <2>1, <2>2, <3>1, <3>2, <3>3 DEF CloseInv
    <3>4. CASE ~HasPending
      BY <2>1, <2>2, <3>1, <3>2, <3>4 DEF CloseInv, HasPending
    <3> QED
      BY <3>3, <3>4, Zenon
  <2> QED
    BY <2>3, <2>4, Zenon
<1>10. CASE UpdateSucceeds \/ UpdateFails \/ StatementFails
  <2>1. /\ Running /\ delayed' = delayed /\ state' = state /\ loading' = loading
        /\ \E rejected \in BOOLEAN, left \in {views, SubSeq(views, taken, Len(views))} : Settle(rejected, left)
    BY <1>10, Zenon DEF UpdateSucceeds, UpdateFails, StatementFails
  <2> QED
    BY <2>1, CloseSettle, Zenon
<1>11. CASE CloseDatabase \/ CloseDatabaseFails
  <2>1. /\ closing = "closing" /\ ~loading /\ closing' \in {"done", "failed"}
        /\ UNCHANGED <<state, pending, update, delayed, active, queued, loading>>
    BY <1>11, Zenon DEF CloseDatabase, CloseDatabaseFails, storage, delayer, database
  <2> QED
    BY <2>1 DEF CloseInv
<1>12. CASE Reopen
  <2>1. /\ state' = "None" /\ closing' = "no" /\ loading' = FALSE
        /\ delayed' = {} /\ queued' = {} /\ active' = {} /\ pending' = NoUpdate /\ update' = NoUpdate
    BY <1>12, Zenon DEF Reopen
  <2> QED
    BY <2>1 DEF CloseInv
<1> QED
  BY <1>2, <1>3, <1>4, <1>6, <1>7, <1>8, <1>9, <1>10, <1>11, <1>12, Zenon DEF Next

LEMMA CloseInit == ASSUME Init PROVE CloseInv
BY DEF Init, CloseInv

-----------------------------------------------------------------------------
(* Nothing is lost *)

\* When an update is stored, or what is pending becomes the next update, what
\* will be in the database in the end stays the same.
LEMMA ComingSettle ==
  ASSUME NEW rejected, NEW left, Settle(rejected, left), NEW items \in Items, pending \in Updates
  PROVE  Apply(pending', Apply(update', items)) = Apply(pending, items)
<1>1. CASE update' = pending /\ pending' = NoUpdate
  <2>1. Apply(pending, items) \in Items
    BY ApplyType
  <2> QED
    BY <1>1, <2>1, ApplyNothing, Zenon
<1>2. CASE update' = NoUpdate /\ pending' = pending
  BY <1>2, ApplyNothing, Zenon
<1> QED
  BY <1>1, <1>2, SettleMoves, Zenon

\* Requests that agree on a key do the same to it.
LEMMA ComingChange ==
  ASSUME NEW request, NEW other, NEW items, NEW j \in Keys,
         other.insert[j] = request.insert[j],
         j \in other.delete <=> j \in request.delete
  PROVE  Apply(other, items)[j] = Apply(request, items)[j]
BY ApplyAt

LEMMA CacheStep == ASSUME TypeOK, WaitersInv, CacheIsComing, [Next]_vars PROVE CacheIsComing'
<1>1. ASSUME UNCHANGED <<cache, pending, update, disk, overwritten>>, Healthy' => Healthy PROVE CacheIsComing'
  BY <1>1, Zenon DEF CacheIsComing
<1>2. CASE UNCHANGED vars
  BY <1>1, <1>2, Zenon DEF vars, storage, delayer, database, history, Healthy
<1>3. CASE InitStorage \/ LoadFails
  <2>1. ~Healthy'
    BY <1>3, Zenon DEF InitStorage, LoadFails, Healthy
  <2> QED
    BY <2>1, Zenon DEF CacheIsComing
<1>4. CASE Loaded
  <2>1. /\ cache' = disk /\ UNCHANGED <<pending, update, disk>>
        /\ overwritten' = {k \in Keys : Apply(pending, Apply(update, disk))[k] # disk[k]}
    BY <1>4, Zenon DEF Loaded, database
  <2> QED
    BY <2>1 DEF CacheIsComing
<1>5. CASE Flush \/ WhenFlushed \/ CloseDatabaseFails
  BY <1>1, <1>5, Zenon DEF Flush, WhenFlushed, CloseDatabaseFails, storage, database, history, Healthy
<1>6. CASE Close
  <2>1. state # "None" /\ UNCHANGED <<cache, pending, update, disk, overwritten, loading, isErroneous>>
    BY <1>6, Zenon DEF Close, database, history
  <2> QED
    BY <1>1, <2>1, Zenon DEF Healthy
<1>7. CASE CloseDatabase
  <2>1. /\ UNCHANGED <<cache, pending, update, overwritten, state, loading, isErroneous>>
        /\ ~isErroneous => disk' = disk
    BY <1>7, Zenon DEF CloseDatabase, storage, history
  <2> QED
    BY <1>1, <2>1, Zenon DEF Healthy, CacheIsComing
<1>8. ASSUME NEW k \in Keys, Delete(k) \/ \E v \in Values : Set(k, v) PROVE CacheIsComing'
  <2>1. /\ UNCHANGED <<state, loading, isErroneous, update, disk>>
        /\ overwritten' = overwritten \ {k}
    BY <1>8, Zenon DEF Delete, Set, Changed, database
  <2> DEFINE OthersStay == \A i \in Keys : i # k => /\ pending'.insert[i] = pending.insert[i]
                                                    /\ i \in pending'.delete <=> i \in pending.delete
                                                    /\ cache'[i] = cache[i]
             KeyIsPending == IF k \in pending'.delete THEN cache'[k] = None
                             ELSE pending'.insert[k] # None /\ cache'[k] = pending'.insert[k]
  <2>2. OthersStay /\ KeyIsPending
    <3>1. CASE Delete(k)
      <4>1. /\ pending' = [insert |-> [pending.insert EXCEPT ![k] = None], delete |-> pending.delete \cup {k}]
            /\ cache' = [cache EXCEPT ![k] = None]
        BY <3>1, Zenon DEF Delete
      <4>2. pending' \in Updates
        BY <4>1, PendingDelete, Zenon DEF TypeOK
      <4> QED
        BY <4>1, <4>2 DEF TypeOK, Updates, Items
    <3>2. ASSUME NEW v \in Values, Set(k, v) PROVE OthersStay /\ KeyIsPending
      <4>1. /\ pending' = [insert |-> [pending.insert EXCEPT ![k] = v], delete |-> pending.delete \ {k}]
            /\ cache' = [cache EXCEPT ![k] = v]
        BY <3>2, Zenon DEF Set
      <4>2. pending' \in Updates
        BY <4>1, PendingSet, Zenon DEF TypeOK
      <4> QED
        BY <4>1, <4>2, StorageBounds DEF TypeOK, Updates, Items
    <3> QED
      BY <1>8, <3>1, <3>2, Zenon
  <2> SUFFICES ASSUME Healthy', NEW j \in Keys \ overwritten'
               PROVE  Apply(pending', Apply(update, disk))[j] = cache'[j]
    BY <2>1, Zenon DEF CacheIsComing
  <2>3. CASE j = k
    BY <2>2, <2>3, ApplyAt DEF TypeOK
  <2>4. CASE j # k
    <3>1. Apply(pending', Apply(update, disk))[j] = Apply(pending, Apply(update, disk))[j]
      <4>1. /\ j \in Keys /\ pending'.insert[j] = pending.insert[j]
            /\ j \in pending'.delete <=> j \in pending.delete
        BY <2>2, <2>4
      <4> QED
        BY <4>1, ComingChange
    <3>2. Healthy /\ j \in Keys \ overwritten
      BY <2>1, <2>4 DEF Healthy
    <3>3. cache'[j] = cache[j]
      BY <2>2, <2>4, Zenon
    <3> QED
      BY <3>1, <3>2, <3>3, Zenon DEF CacheIsComing
  <2> QED
    BY <2>3, <2>4, Zenon
<1>9. CASE TimerFires
  <2>1. UNCHANGED <<cache, disk, overwritten, state, loading, isErroneous>>
    BY <1>9, Zenon DEF TimerFires
  <2>2. CASE Running
    <3>1. UNCHANGED <<pending, update>>
      BY <1>9, <2>2, Zenon DEF TimerFires
    <3> QED
      BY <1>1, <2>1, <3>1, Zenon DEF Healthy
  <2>3. CASE ~Running
    <3>1. update' = pending /\ pending' = NoUpdate /\ update = NoUpdate
      BY <1>9, <2>3, Zenon DEF TimerFires, StartFlush, Running
    <3>2. Apply(update, disk) = disk
      BY <3>1, ApplyNothing, Zenon DEF TypeOK
    <3>3. Apply(pending', Apply(update', disk)) = Apply(pending, disk)
      BY <3>1, ApplyType, ApplyNothing, Zenon DEF TypeOK
    <3> QED
      BY <2>1, <3>2, <3>3, Zenon DEF CacheIsComing, Healthy
  <2> QED
    BY <2>2, <2>3, Zenon
<1>10. CASE UpdateSucceeds
  <2>1. /\ disk' = Apply(update, disk) /\ UNCHANGED <<cache, overwritten, state, loading, isErroneous>>
        /\ Settle(FALSE, SubSeq(views, taken, Len(views)))
    BY <1>10, Zenon DEF UpdateSucceeds
  <2>2. disk' \in Items
    BY <2>1, ApplyType, Zenon DEF TypeOK
  <2>3. Apply(pending', Apply(update', disk')) = Apply(pending, disk')
    BY <2>1, <2>2, ComingSettle, Zenon DEF TypeOK
  <2> QED
    BY <2>1, <2>3, Zenon DEF CacheIsComing, Healthy
<1>11. CASE UpdateFails \/ StatementFails
  <2>1. ~Healthy'
    BY <1>11, Zenon DEF UpdateFails, StatementFails, Healthy
  <2> QED
    BY <2>1, Zenon DEF CacheIsComing
<1>12. CASE Reopen
  <2>1. ~Healthy'
    BY <1>12, Zenon DEF Reopen, Healthy
  <2> QED
    BY <2>1, Zenon DEF CacheIsComing
<1> QED
  BY <1>2, <1>3, <1>4, <1>5, <1>6, <1>7, <1>8, <1>9, <1>10, <1>11, <1>12, Zenon DEF Next

LEMMA CacheInit == ASSUME Init PROVE CacheIsComing
BY DEF Init, CacheIsComing, Healthy

LEMMA ClosedStep ==
  ASSUME TypeOK, CloseInv, CacheIsComing, ClosedIsComplete, [Next]_vars
  PROVE  ClosedIsComplete'
<1>1. ASSUME UNCHANGED <<closing, disk, cache, overwritten>> PROVE ClosedIsComplete'
  BY <1>1, Zenon DEF ClosedIsComplete
<1>2. ASSUME closing' # "done" PROVE ClosedIsComplete'
  BY <1>2, Zenon DEF ClosedIsComplete
<1>3. CASE UNCHANGED vars
  BY <1>1, <1>3, Zenon DEF vars, storage, database, history
<1>4. CASE InitStorage \/ LoadFails \/ Flush \/ WhenFlushed
  BY <1>1, <1>4, Zenon DEF InitStorage, LoadFails, Flush, WhenFlushed, storage, database, history
<1>5. CASE Loaded
  <2>1. loading /\ closing' = closing
    BY <1>5, Zenon DEF Loaded
  <2>2. closing # "done"
    BY <2>1 DEF CloseInv
  <2> QED
    BY <1>2, <2>1, <2>2, Zenon
<1>6. ASSUME NEW k \in Keys, Delete(k) \/ \E v \in Values : Set(k, v) PROVE ClosedIsComplete'
  <2>1. state # "Closed"
    BY <1>6 DEF Delete, Set, Usable, Ready
  <2>2. closing' = closing
    BY <1>6, Zenon DEF Delete, Set, Changed
  <2>3. closing # "done"
    BY <2>1 DEF CloseInv
  <2> QED
    BY <1>2, <2>2, <2>3, Zenon
<1>7. CASE Close \/ CloseDatabaseFails \/ Reopen
  <2>1. closing' \in {"flushing", "failed", "no"}
    BY <1>7, Zenon DEF Close, CloseDatabaseFails, Reopen
  <2> QED
    BY <1>2, <2>1
<1>8. CASE TimerFires \/ UpdateSucceeds \/ UpdateFails \/ StatementFails
  <2>1. delayed # {} \/ Running
    BY <1>8, Zenon DEF TimerFires, UpdateSucceeds, UpdateFails, StatementFails
  <2>2. closing # "done"
    BY <2>1 DEF CloseInv, Running
  <2>3. closing' \in {closing, "closing"}
    BY <1>8, Zenon DEF TimerFires, UpdateSucceeds, UpdateFails, StatementFails, Settle, Resume
  <2> QED
    BY <1>2, <2>2, <2>3
<1>9. CASE CloseDatabase
  <2>1. /\ closing = "closing" /\ ~loading /\ UNCHANGED <<cache, overwritten>>
        /\ disk' = IF isErroneous THEN cache ELSE disk
    BY <1>9, Zenon DEF CloseDatabase, storage, history
  <2>2. CASE isErroneous
    BY <2>1, <2>2, Zenon DEF ClosedIsComplete
  <2>3. CASE ~isErroneous
    <3>1. Healthy /\ pending = NoUpdate /\ update = NoUpdate
      BY <2>1, <2>3 DEF CloseInv, Healthy
    <3>2. Apply(pending, Apply(update, disk)) = disk
      BY <3>1, ApplyNothing, Zenon DEF TypeOK
    <3> QED
      BY <2>1, <2>3, <3>1, <3>2, Zenon DEF CacheIsComing, ClosedIsComplete
  <2> QED
    BY <2>2, <2>3, Zenon
<1> QED
  BY <1>3, <1>4, <1>5, <1>6, <1>7, <1>8, <1>9, Zenon DEF Next

-----------------------------------------------------------------------------
(* Theorems *)

\* The inductive invariant.
StorageInv == TypeOK /\ WaitersInv /\ CloseInv /\ CacheIsComing /\ ClosedIsComplete

THEOREM StorageInvariant == Spec => []StorageInv
<1>1. Init => StorageInv
  <2>1. Init => ClosedIsComplete
    BY DEF Init, ClosedIsComplete
  <2> QED
    BY <2>1, TypeInit, WaitersInit, CloseInit, CacheInit, Zenon DEF StorageInv
<1>2. StorageInv /\ [Next]_vars => StorageInv'
  BY TypeStep, WaitersStep, CloseStep, CacheStep, ClosedStep, Zenon DEF StorageInv
<1> QED
  BY <1>1, <1>2, PTL DEF Spec

\* Unless there were errors, what is stored, under way and pending makes up
\* the cache: no change is dropped between set and the database.
THEOREM CacheComing == Spec => []CacheIsComing
<1>1. StorageInv => CacheIsComing
  BY Zenon DEF StorageInv
<1> QED
  BY <1>1, StorageInvariant, PTL

\* A key all of whose promises have settled is in the database as it is in
\* the cache.
THEOREM SettledStored == Spec => []SettledIsStored
<1>1. ASSUME StorageInv PROVE SettledIsStored
  <2> SUFFICES ASSUME Healthy, NEW k \in Keys \ (overwritten \cup delayed \cup active \cup queued \cup hung)
               PROVE  disk[k] = cache[k]
    BY Zenon DEF SettledIsStored
  <2>1. k \in Keys /\ k \notin Touched(pending) /\ k \notin Touched(update)
    BY <1>1 DEF StorageInv, WaitersInv
  <2>2. Apply(pending, Apply(update, disk))[k] = disk[k]
    BY <2>1, Untouched
  <2>3. Apply(pending, Apply(update, disk))[k] = cache[k]
    BY <1>1 DEF StorageInv, CacheIsComing
  <2> QED
    BY <2>2, <2>3
<1> QED
  BY <1>1, StorageInvariant, PTL

\* A close that succeeds leaves nothing of the cache out of the database,
\* whatever failed before.
THEOREM ClosedComplete == Spec => []ClosedIsComplete
<1>1. StorageInv => ClosedIsComplete
  BY Zenon DEF StorageInv
<1> QED
  BY <1>1, StorageInvariant, PTL

\* Whoever waits with whenFlushed goes on only when everything is stored.
THEOREM FlushedStored == Spec => FlushedIsStored
<1>1. ASSUME StorageInv, [Next]_vars PROVE [CallbacksRun]_vars
  <2> SUFFICES ASSUME Next, callbacks, ~callbacks', Healthy, Healthy', opens' = opens,
                      NEW k \in Keys \ overwritten
               PROVE  disk'[k] = cache[k]
    BY <1>1, Zenon DEF CallbacksRun
  <2>1. CASE \/ InitStorage \/ Loaded \/ LoadFails \/ Flush \/ WhenFlushed \/ Close \/ TimerFires
             \/ CloseDatabase \/ CloseDatabaseFails
             \/ \E j \in Keys : Delete(j) \/ \E v \in Values : Set(j, v)
    <3>1. callbacks'
      BY <2>1, Zenon DEF InitStorage, Loaded, LoadFails, Flush, WhenFlushed, Close, TimerFires,
         CloseDatabase, CloseDatabaseFails, Delete, Set, Changed, storage
    <3> QED
      BY <3>1, Zenon
  <2>2. CASE UpdateSucceeds
    <3>1. pending = NoUpdate /\ disk' = Apply(update, disk)
      BY <2>2, Zenon DEF UpdateSucceeds, Settle, Finally, HasPending
    <3>2. disk' \in Items
      BY <1>1, <3>1, ApplyType, Zenon DEF StorageInv, TypeOK
    <3>3. Apply(pending, Apply(update, disk)) = disk'
      BY <3>1, <3>2, ApplyNothing, Zenon
    <3> QED
      BY <1>1, <3>3, Zenon DEF StorageInv, CacheIsComing
  <2>3. CASE UpdateFails \/ StatementFails
    BY <2>3, Zenon DEF UpdateFails, StatementFails, Healthy
  <2>4. CASE Reopen
    BY <2>4, Zenon DEF Reopen, Healthy
  <2> QED
    BY <2>1, <2>2, <2>3, <2>4, Zenon DEF Next
<1> QED
  BY <1>1, StorageInvariant, PTL DEF Spec, FlushedIsStored

-----------------------------------------------------------------------------
(* The storage implements the snapshot store *)

\* The database holds the first of the views, the update under way makes the
\* one that was current when it was taken, and the last is what the owner has.
ViewsHold ==
    /\ views[1] = disk
    /\ views[taken] = Apply(update, disk)
    /\ views[Len(views)] = Apply(pending, Apply(update, disk))
    /\ state = "None" \/ loading => pending = NoUpdate /\ update = NoUpdate
    /\ state # "None" /\ ~loading => cache = views[Len(views)]

\* So it is until an error or a change before the load spoils the views.
ViewsInv == Sound => ViewsHold

\* Only a new process makes the views sound again.
LEMMA SoundBefore ==
  ASSUME [Next]_vars, ~Reopen, Sound'
  PROVE  Sound
<1>1. isErroneous => isErroneous'
  BY Zenon DEF Next, vars, database, InitStorage, Loaded, LoadFails, Delete, Set, Changed, Flush, WhenFlushed,
     Close, TimerFires, UpdateSucceeds, UpdateFails, StatementFails, CloseDatabase, CloseDatabaseFails
<1>2. hasty => hasty'
  BY Zenon DEF Next, vars, history, InitStorage, Loaded, LoadFails, Delete, Set, Changed, Flush, WhenFlushed,
     Close, TimerFires, UpdateSucceeds, UpdateFails, StatementFails, CloseDatabase, CloseDatabaseFails
<1> QED
  BY <1>1, <1>2, Zenon DEF Sound

\* A step that fails is not sound.
LEMMA FailureUnsound ==
  ASSUME LoadFails \/ UpdateFails \/ StatementFails
  PROVE  ~Sound'
BY Zenon DEF LoadFails, UpdateFails, StatementFails, Sound

LEMMA AppendViews ==
  ASSUME NEW s \in Seq(Items), NEW e \in Items, NEW i \in 1..Len(s)
  PROVE  /\ Append(s, e)[1] = s[1] /\ Append(s, e)[i] = s[i]
         /\ Append(s, e)[Len(Append(s, e))] = e
OBVIOUS

LEMMA SubSeqViews ==
  ASSUME NEW s \in Seq(Items), NEW i \in 1..Len(s)
  PROVE  /\ SubSeq(s, i, Len(s))[1] = s[i]
         /\ SubSeq(s, i, Len(s))[Len(SubSeq(s, i, Len(s)))] = s[Len(s)]
OBVIOUS

\* A change of the cache, together with the note of it as pending.
LEMMA ViewsChange ==
  ASSUME TypeOK, ViewsHold, Sound', NEW k \in Keys, Delete(k) \/ \E v \in Values : Set(k, v)
  PROVE  /\ state # "None" /\ ~loading
         /\ Apply(pending', Apply(update, disk)) = cache'
<1>0. state # "None" /\ ~loading
  <2>1. Ready
    BY Zenon DEF Delete, Set, Changed, Sound
  <2> QED
    BY <2>1 DEF Ready
<1>1. Apply(pending, Apply(update, disk)) = cache
  BY <1>0, Zenon DEF ViewsHold
<1>2. \A j \in Keys : Apply(pending, Apply(update, disk))[j] = cache[j]
  BY <1>1
<1>3. ASSUME Delete(k) PROVE Apply(pending', Apply(update, disk)) = cache'
  <2>1. /\ pending' = [insert |-> [pending.insert EXCEPT ![k] = None], delete |-> pending.delete \cup {k}]
        /\ cache' = [cache EXCEPT ![k] = None]
    BY <1>3, Zenon DEF Delete
  <2> QED
    BY <1>2, <2>1 DEF Apply, TypeOK, Updates, Items
<1>4. ASSUME NEW v \in Values, Set(k, v) PROVE Apply(pending', Apply(update, disk)) = cache'
  <2>1. /\ pending' = [insert |-> [pending.insert EXCEPT ![k] = v], delete |-> pending.delete \ {k}]
        /\ cache' = [cache EXCEPT ![k] = v]
    BY <1>4, Zenon DEF Set
  <2> QED
    BY <1>2, <2>1, StorageBounds DEF Apply, TypeOK, Updates, Items
<1> QED
  BY <1>0, <1>3, <1>4, Zenon

\* A new process starts with the one view that is stored.
LEMMA ViewsReopen ==
  ASSUME TypeOK, Reopen
  PROVE  ViewsHold'
<1>1. /\ state' = "None" /\ pending' = NoUpdate /\ update' = NoUpdate /\ isErroneous' = FALSE
      /\ views' = <<disk'>> /\ taken' = 1
  BY Zenon DEF Reopen
<1>2. disk' \in Items
  BY ApplyType DEF Reopen, Committed, TypeOK
<1>3. views'[1] = disk' /\ Len(views') = 1
  BY <1>1, <1>2, SingletonType, Zenon
<1>4. Apply(update', disk') = disk' /\ Apply(pending', Apply(update', disk')) = disk'
  BY <1>1, <1>2, ApplyNothing, Zenon
<1> QED
  BY <1>1, <1>3, <1>4, Zenon DEF ViewsHold

\* The steps of one process keep the views as long as they are sound.
LEMMA ViewsKept ==
  ASSUME TypeOK, WaitersInv, CloseInv, ViewsHold, Sound, Sound', [Next]_vars, ~Reopen
  PROVE  ViewsHold'
<1>1. ASSUME UNCHANGED <<isErroneous, views, disk, taken, update, pending, cache>>,
             state' = "None" \/ loading' => state = "None" \/ loading,
             state' # "None" /\ ~loading' => state # "None" /\ ~loading
      PROVE  ViewsHold'
  BY <1>1, Zenon DEF ViewsHold
<1>2. CASE UNCHANGED vars
  BY <1>1, <1>2, Zenon DEF vars, storage, database, history
<1>3. CASE InitStorage
  BY <1>1, <1>3, Zenon DEF InitStorage, database, history
<1>4. CASE Loaded
  <2>1. /\ loading /\ loading' = FALSE /\ cache' = disk /\ state' = state
        /\ UNCHANGED <<isErroneous, views, disk, taken, update, pending>>
    BY <1>4, Zenon DEF Loaded, database
  <2>2. pending = NoUpdate /\ update = NoUpdate
    BY <2>1, Zenon DEF ViewsHold
  <2>3. views[Len(views)] = disk
    BY <2>2, ApplyNothing, Zenon DEF ViewsHold, TypeOK
  <2> QED
    BY <2>1, <2>2, <2>3, Zenon DEF ViewsHold
<1>5. CASE LoadFails \/ UpdateFails \/ StatementFails
  BY <1>5, FailureUnsound, Zenon
<1>6. CASE Flush \/ WhenFlushed \/ CloseDatabaseFails
  BY <1>1, <1>6, Zenon DEF Flush, WhenFlushed, CloseDatabaseFails, storage, database, history
<1>7. CASE Close
  <2>1. /\ state # "None" /\ state' = "Closed" /\ loading' = loading
        /\ UNCHANGED <<isErroneous, views, disk, taken, update, pending, cache>>
    BY <1>7, Zenon DEF Close, database, history
  <2> QED
    BY <1>1, <2>1
<1>8. CASE CloseDatabase
  <2>1. UNCHANGED <<isErroneous, views, disk, taken, update, pending, cache, state, loading>>
    BY <1>8, Zenon DEF CloseDatabase, storage, history, Sound
  <2> QED
    BY <1>1, <2>1, Zenon
<1>9. ASSUME NEW k \in Keys, Delete(k) \/ \E v \in Values : Set(k, v) PROVE ViewsHold'
  <2>1. /\ UNCHANGED <<state, loading, isErroneous, update, disk, taken>>
        /\ views' = Append(views, cache')
    BY <1>9, Zenon DEF Delete, Set, Changed, database
  <2>2. /\ state # "None" /\ ~loading
        /\ Apply(pending', Apply(update, disk)) = cache'
    BY <1>9, ViewsChange, Zenon
  <2>4. cache' \in Items
    BY <1>9 DEF Delete, Set, TypeOK, Items
  <2>5. views' [1] = views[1] /\ views'[taken] = views[taken] /\ views'[Len(views')] = cache'
    BY <2>1, <2>4, AppendViews, Zenon DEF TypeOK
  <2> QED
    BY <2>1, <2>2, <2>5, Zenon DEF ViewsHold
<1>10. CASE TimerFires
  <2>1. UNCHANGED <<cache, disk, state, loading, isErroneous, views>>
    BY <1>10, Zenon DEF TimerFires
  <2>2. CASE Running
    <3>1. UNCHANGED <<pending, update, taken>>
      BY <1>10, <2>2, Zenon DEF TimerFires
    <3> QED
      BY <1>1, <2>1, <3>1, Zenon
  <2>3. CASE ~Running
    <3>1. /\ update' = pending /\ pending' = NoUpdate /\ update = NoUpdate
          /\ taken' = IF HasPending THEN Len(views) ELSE 1
      BY <1>10, <2>3, Zenon DEF TimerFires, StartFlush, Running
    <3>2. Apply(update, disk) = disk
      BY <3>1, ApplyNothing, Zenon DEF TypeOK
    <3>3. Apply(pending', Apply(update', disk)) = Apply(pending, disk)
      BY <3>1, ApplyType, ApplyNothing, Zenon DEF TypeOK
    <3>4. views[taken'] = Apply(update', disk)
      <4>1. CASE HasPending
        BY <3>1, <3>2, <4>1, Zenon DEF ViewsHold
      <4>2. CASE ~HasPending
        BY <3>1, <3>2, <4>2, Zenon DEF ViewsHold, HasPending
      <4> QED
        BY <4>1, <4>2, Zenon
    <3>5. state = "None" \/ loading => pending' = NoUpdate /\ update' = NoUpdate
      BY <3>1, Zenon DEF ViewsHold
    <3> QED
      BY <2>1, <3>2, <3>3, <3>4, <3>5, Zenon DEF ViewsHold
  <2> QED
    BY <2>2, <2>3, Zenon
<1>11. CASE UpdateSucceeds
  <2> DEFINE left == SubSeq(views, taken, Len(views))
  <2>1. /\ Running /\ disk' = Apply(update, disk) /\ UNCHANGED <<cache, state, loading, isErroneous>>
        /\ Settle(FALSE, left)
    BY <1>11, Zenon DEF UpdateSucceeds
  <2>2. disk' \in Items
    BY <2>1, ApplyType, Zenon DEF TypeOK
  <2>3. Apply(pending', Apply(update', disk')) = Apply(pending, disk')
    BY <2>1, <2>2, ComingSettle, Zenon DEF TypeOK
  <2>4. views' = left /\ left[1] = views[taken] /\ left[Len(left)] = views[Len(views)]
    BY <2>1, SettleMoves, SubSeqViews, Zenon DEF TypeOK
  <2>5. views'[taken'] = Apply(update', disk')
    <3>1. CASE /\ update' = pending
               /\ taken' = IF HasPending THEN Len(left) ELSE 1
      <4>1. CASE HasPending
        BY <2>1, <2>4, <3>1, <4>1, Zenon DEF ViewsHold
      <4>2. CASE ~HasPending
        BY <2>1, <2>2, <2>4, <3>1, <4>2, ApplyNothing, Zenon DEF ViewsHold, HasPending
      <4> QED
        BY <4>1, <4>2, Zenon
    <3>2. CASE update' = NoUpdate /\ taken' = 1
      BY <2>1, <2>2, <2>4, <3>2, ApplyNothing, Zenon DEF ViewsHold
    <3> QED
      BY <2>1, <3>1, <3>2, SettleMoves, Zenon
  <2>6. state # "None" /\ ~loading
    BY <2>1, Zenon DEF ViewsHold, Running
  <2> QED
    BY <2>1, <2>3, <2>4, <2>5, <2>6, Zenon DEF ViewsHold
<1> QED
  BY <1>2, <1>3, <1>4, <1>5, <1>6, <1>7, <1>8, <1>9, <1>10, <1>11, Zenon DEF Next

LEMMA ViewsStep ==
  ASSUME TypeOK, WaitersInv, CloseInv, ViewsInv, [Next]_vars
  PROVE  ViewsInv'
<1>1. CASE Reopen
  BY <1>1, ViewsReopen, Zenon DEF ViewsInv
<1>2. ASSUME ~Reopen, Sound' PROVE ViewsHold'
  BY <1>2, SoundBefore, ViewsKept, Zenon DEF ViewsInv
<1> QED
  BY <1>1, <1>2, Zenon DEF ViewsInv

LEMMA ViewsInit == ASSUME Init PROVE ViewsInv
<1>1. disk \in Items /\ views[1] = disk /\ Len(views) = 1
  BY SingletonType DEF Init
<1>2. Apply(update, disk) = disk /\ Apply(pending, Apply(update, disk)) = disk
  BY <1>1, ApplyNothing, Zenon DEF Init
<1> QED
  BY <1>1, <1>2, Zenon DEF Init, ViewsHold, ViewsInv

\* Between two sound states of one process a step is one of the store's, or
\* changes nothing that the store knows of.
LEMMA StoreKept ==
  ASSUME TypeOK, TypeOK', ViewsHold, Sound, Sound', [Next]_vars, ~Reopen
  PROVE  [Store!Next]_(Store!vars)
<1>1. ASSUME UNCHANGED <<views, disk>> PROVE [Store!Next]_(Store!vars)
  BY <1>1, Zenon DEF Store!vars
<1>2. CASE UNCHANGED vars
  BY <1>1, <1>2, Zenon DEF vars, database, history
<1>3. CASE \/ InitStorage \/ Loaded \/ Flush \/ WhenFlushed \/ Close \/ TimerFires \/ CloseDatabaseFails
  BY <1>1, <1>3, Zenon DEF InitStorage, Loaded, Flush, WhenFlushed, Close, TimerFires,
     CloseDatabaseFails, database, history
<1>4. CASE LoadFails \/ UpdateFails \/ StatementFails
  BY <1>4, FailureUnsound, Zenon
<1>5. CASE CloseDatabase
  BY <1>1, <1>5, Zenon DEF CloseDatabase, history, Sound
<1>6. ASSUME NEW k \in Keys, Delete(k) \/ \E v \in Values : Set(k, v) PROVE Store!Next
  <2>1. views' = Append(views, cache') /\ disk' = disk /\ cache' \in Items
    BY <1>6, Zenon DEF Delete, Set, Changed, database, TypeOK
  <2> QED
    BY <2>1, Zenon DEF Store!Next, Store!Write
<1>7. CASE UpdateSucceeds
  <2>1. disk' = Apply(update, disk) /\ views' = SubSeq(views, taken, Len(views))
    BY <1>7, Zenon DEF UpdateSucceeds, Settle
  <2>2. taken \in 1..Len(views) /\ disk' = views[taken]
    BY <2>1, Zenon DEF TypeOK, ViewsHold
  <2> QED
    BY <2>1, <2>2, Zenon DEF Store!Next, Store!Persist
<1> QED
  BY <1>2, <1>3, <1>4, <1>5, <1>6, <1>7, Zenon DEF Next

LEMMA StoreStep ==
  ASSUME TypeOK, TypeOK', ViewsInv, [Next]_vars
  PROVE  [Store!Next]_(Store!vars)
<1>1. CASE ~Sound'
  <2>1. disk' \in Items
    BY Zenon DEF TypeOK
  <2> QED
    BY <1>1, <2>1, Zenon DEF Store!Next, Store!Break
<1>2. CASE Reopen
  <2>1. /\ views' = <<disk'>> /\ (disk' = disk \/ disk' = Apply(update, disk))
        /\ Sound'
    BY <1>2 DEF Reopen, Committed, Sound
  <2>2. 1 \in 1..Len(views) /\ taken \in 1..Len(views)
    BY DEF TypeOK
  <2>3. Sound => \E p \in 1..Len(views) : disk' = views[p]
    BY <2>1, <2>2, Zenon DEF ViewsInv, ViewsHold
  <2>4. disk' \in Items
    BY Zenon DEF TypeOK
  <2> QED
    BY <2>1, <2>3, <2>4, Zenon DEF Store!Next, Store!Reopen
<1>3. CASE ~Reopen /\ Sound'
  BY <1>3, SoundBefore, StoreKept, Zenon DEF ViewsInv
<1> QED
  BY <1>1, <1>2, <1>3, Zenon

\* The storage implements the snapshot store: after a crash at any moment the
\* database holds what the cache was at one moment, unless the database has
\* failed in this process or was written to before the items were loaded.
THEOREM StoreImplemented == Spec => ImplementsStore
<1>1. Init => ViewsInv
  BY ViewsInit, Zenon
<1>2. StorageInv /\ ViewsInv /\ [Next]_vars => ViewsInv'
  BY ViewsStep, Zenon DEF StorageInv
<1>3. Init => Store!Init
  BY Zenon DEF Init, Store!Init, Sound
<1>4. StorageInv /\ StorageInv' /\ ViewsInv /\ [Next]_vars => [Store!Next]_(Store!vars)
  BY StoreStep, Zenon DEF StorageInv
<1> QED
  BY <1>1, <1>2, <1>3, <1>4, StorageInvariant, PTL DEF Spec, ImplementsStore, Store!Spec

=============================================================================
