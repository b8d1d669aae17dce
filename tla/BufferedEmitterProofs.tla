------------------------ MODULE BufferedEmitterProofs ------------------------
(***************************************************************************)
(* BufferedEmitter delivers in order and loses nothing, for every number   *)
(* of events and of pending microtasks.                                    *)
(***************************************************************************)
EXTENDS BufferedEmitter, TLAPS

LEMMA AppendType ==
  ASSUME NEW S, NEW s \in Seq(S), NEW e \in S
  PROVE  Append(s, e) \in Seq(S)
OBVIOUS

LEMMA TailType ==
  ASSUME NEW S, NEW s \in Seq(S), Len(s) > 0
  PROVE  Head(s) \in S /\ Tail(s) \in Seq(S)
OBVIOUS

LEMMA AppendFacts ==
  ASSUME NEW S, NEW s \in Seq(S), NEW e \in S
  PROVE  /\ Len(s) \in Nat
         /\ Len(Append(s, e)) = Len(s) + 1
         /\ \A i \in 1..Len(s) : Append(s, e)[i] = s[i]
         /\ Append(s, e)[Len(s) + 1] = e
OBVIOUS

LEMMA TailFacts ==
  ASSUME NEW S, NEW s \in Seq(S), Len(s) > 0
  PROVE  /\ Head(s) = s[1]
         /\ s[1] \in S
         /\ Len(s) \in Nat
         /\ Len(Tail(s)) = Len(s) - 1
         /\ \A i \in 1..(Len(s) - 1) : Tail(s)[i] = s[i + 1]
OBVIOUS

\* The type invariant is preserved by every action of the emitter.
LEMMA TypeStep == TypeOK /\ [Next]_vars => TypeOK'
<1> SUFFICES ASSUME TypeOK, [Next]_vars PROVE TypeOK'
  OBVIOUS
<1>1. CASE AddFirstListener
  <2>1. microtasks < MaxMicrotasks => microtasks + 1 \in 0..MaxMicrotasks
    BY EmitterBounds DEF TypeOK
  <2> QED
    BY <1>1, <2>1, Zenon DEF AddFirstListener, TypeOK
<1>2. CASE RemoveLastListener
  BY <1>2, Zenon DEF RemoveLastListener, TypeOK
<1>3. CASE Fire
  <2>1. /\ fired + 1 \in Nat
        /\ fired < MaxEvents => fired + 1 \in 0..MaxEvents
    BY EmitterBounds DEF TypeOK
  <2> QED
    BY <1>3, <2>1, AppendType, Zenon DEF Fire, TypeOK
<1>4. CASE BeginDelivery
  <2>1. microtasks > 0 => microtasks - 1 \in 0..MaxMicrotasks
    BY EmitterBounds DEF TypeOK
  <2> QED
    BY <1>4, <2>1, Zenon DEF BeginDelivery, TypeOK
<1>5. CASE DeliverOne
  BY <1>5, AppendType, TailType, Zenon DEF DeliverOne, TypeOK
<1>6. CASE EndDelivery
  BY <1>6, Zenon DEF EndDelivery, TypeOK
<1>7. CASE FlushBuffer
  <2>1. \A i \in 1..Len(buffered) : buffered[i] \in Nat
    BY DEF TypeOK
  <2>2. <<>> \in Seq(Nat)
    OBVIOUS
  <2> QED
    BY <1>7, <2>1, <2>2, Zenon DEF FlushBuffer, TypeOK
<1>8. CASE UNCHANGED vars
  BY <1>8, Zenon DEF vars, TypeOK
<1> QED
  BY <1>1, <1>2, <1>3, <1>4, <1>5, <1>6, <1>7, <1>8 DEF Next

\* The type invariant holds in every reachable state of the emitter.
THEOREM TypeCorrect == Spec => []TypeOK
<1>1. Init => TypeOK
  <2>1. <<>> \in Seq(Nat) /\ 0 \in 0..MaxMicrotasks /\ 0 \in 0..MaxEvents
    BY EmitterBounds
  <2> QED
    BY <2>1, Zenon DEF Init, TypeOK
<1> QED
  BY <1>1, TypeStep, PTL DEF Spec

-----------------------------------------------------------------------------

\* The buffer is always the newest events, in the order they were fired: an
\* event goes straight to a listener only when nothing older waits.
BufferIsNewest ==
    /\ Len(buffered) <= fired
    /\ \A i \in 1..Len(buffered) : buffered[i] = fired - Len(buffered) + i

\* What listeners saw is older than all that is buffered.
ReceivedIsOlder ==
    \A i \in 1..Len(received) : received[i] <= fired - Len(buffered)

IInv == BufferIsNewest /\ ReceivedIsOlder /\ InOrder /\ NothingLost

\* Firing an event to the listeners or into the buffer keeps the invariant.
LEMMA FireStep == TypeOK /\ IInv /\ Fire => IInv'
<1> SUFFICES ASSUME TypeOK, IInv, Fire PROVE IInv'
  OBVIOUS
<1>0. /\ fired \in Nat /\ fired + 1 \in Nat /\ fired' = fired + 1
      /\ Len(buffered) \in Nat /\ Len(received) \in Nat
      /\ \A i \in 1..Len(received) : received[i] \in Nat
      /\ flushed' = flushed
  BY EmitterBounds DEF TypeOK, Fire
<1>a. buffered \in Seq(Nat) /\ received \in Seq(Nat)
  BY DEF TypeOK
<1>1. CASE hasListeners /\ Len(buffered) = 0
  <2>1. received' = Append(received, fired + 1) /\ buffered' = buffered
    BY <1>1 DEF Fire
  <2>2. /\ Len(received') = Len(received) + 1
        /\ \A i \in 1..Len(received) : received'[i] = received[i]
        /\ received'[Len(received) + 1] = fired + 1
    BY <1>a, <1>0, <2>1, AppendFacts, Zenon
  <2>a. buffered' = buffered
    BY <2>1
  <2>3. BufferIsNewest' /\ ReceivedIsOlder' /\ InOrder'
    BY <1>0, <1>1, <2>2, <2>a DEF IInv, BufferIsNewest, ReceivedIsOlder, InOrder
  <2>4. NothingLost'
    BY <1>0, <2>2, <2>a DEF IInv, NothingLost
  <2> QED
    BY <2>3, <2>4 DEF IInv
<1>2. CASE ~(hasListeners /\ Len(buffered) = 0)
  <2>1. buffered' = Append(buffered, fired + 1) /\ received' = received
    BY <1>2 DEF Fire
  <2>2. /\ Len(buffered') = Len(buffered) + 1
        /\ \A i \in 1..Len(buffered) : buffered'[i] = buffered[i]
        /\ buffered'[Len(buffered) + 1] = fired + 1
    BY <1>a, <1>0, <2>1, AppendFacts, Zenon
  <2>3. received' = received
    BY <2>1
  <2>4. BufferIsNewest' /\ ReceivedIsOlder' /\ InOrder'
    BY <1>0, <2>2, <2>3 DEF IInv, BufferIsNewest, ReceivedIsOlder, InOrder
  <2>5. NothingLost'
    <3> SUFFICES ASSUME NEW n \in 1..(fired + 1)
                 PROVE  \/ \E i \in 1..Len(received') : received'[i] = n
                        \/ \E i \in 1..Len(buffered') : buffered'[i] = n
                        \/ n \in flushed'
      BY <1>0 DEF NothingLost
    <3>1. CASE n = fired + 1
      BY <1>0, <2>2, <3>1
    <3>2. CASE n # fired + 1
      <4>1. n \in 1..fired
        BY <1>0, <3>2
      <4>2. \A i \in 1..Len(buffered) : i \in 1..Len(buffered') /\ buffered'[i] = buffered[i]
        BY <1>0, <2>2
      <4> QED
        BY <1>0, <2>3, <4>1, <4>2, Zenon DEF IInv, NothingLost
    <3> QED
      BY <3>1, <3>2
  <2> QED
    BY <2>4, <2>5 DEF IInv
<1> QED
  BY <1>1, <1>2

\* One iteration of the delivery loop keeps the invariant.
LEMMA DeliverOneStep == TypeOK /\ IInv /\ DeliverOne => IInv'
<1> SUFFICES ASSUME TypeOK, IInv, DeliverOne PROVE IInv'
  OBVIOUS
<1>0. /\ fired \in Nat /\ fired' = fired
      /\ Len(buffered) \in Nat /\ Len(received) \in Nat
      /\ \A i \in 1..Len(received) : received[i] \in Nat
      /\ flushed' = flushed /\ Len(buffered) > 0
  BY EmitterBounds DEF TypeOK, DeliverOne
<1>a. buffered \in Seq(Nat) /\ received \in Seq(Nat)
  BY DEF TypeOK
<1>1. buffered' = Tail(buffered) /\ received' = Append(received, Head(buffered))
  BY DEF DeliverOne
<1>2. /\ Len(buffered') = Len(buffered) - 1
      /\ \A i \in 1..(Len(buffered) - 1) : buffered'[i] = buffered[i + 1]
      /\ Head(buffered) = buffered[1] /\ buffered[1] \in Nat
  BY <1>a, <1>0, <1>1, TailFacts, Zenon
<1>b. received' = Append(received, buffered[1]) /\ buffered[1] \in Nat
  BY <1>1, <1>2
<1>3. /\ Len(received') = Len(received) + 1
      /\ \A i \in 1..Len(received) : received'[i] = received[i]
      /\ received'[Len(received) + 1] = buffered[1]
  BY <1>a, <1>b, AppendFacts, Zenon
<1>4. buffered[1] = fired - Len(buffered) + 1
  BY <1>0 DEF IInv, BufferIsNewest
<1>5. BufferIsNewest' /\ ReceivedIsOlder' /\ InOrder'
  <2>1. BufferIsNewest'
    BY <1>0, <1>2 DEF IInv, BufferIsNewest
  <2>2. \A i \in 1..Len(received') : i \in 1..Len(received) \/ i = Len(received) + 1
    BY <1>0, <1>3
  <2>3. ReceivedIsOlder'
    BY <1>0, <1>2, <1>3, <1>4, <2>2 DEF IInv, ReceivedIsOlder
  <2>4. InOrder'
    BY <1>0, <1>3, <1>4, <2>2 DEF IInv, ReceivedIsOlder, InOrder
  <2> QED
    BY <2>1, <2>3, <2>4
<1>6. NothingLost'
  <2> SUFFICES ASSUME NEW n \in 1..fired
               PROVE  \/ \E i \in 1..Len(received') : received'[i] = n
                      \/ \E i \in 1..Len(buffered') : buffered'[i] = n
                      \/ n \in flushed'
    BY <1>0 DEF NothingLost
  <2>1. CASE \E i \in 1..Len(buffered) : buffered[i] = n
    <3>1. PICK i \in 1..Len(buffered) : buffered[i] = n
      BY <2>1
    <3>2. CASE i = 1
      BY <1>0, <1>3, <3>1, <3>2
    <3>3. CASE i # 1
      <4>1. i - 1 \in 1..(Len(buffered) - 1) /\ buffered'[i - 1] = n
        BY <1>0, <1>2, <3>1, <3>3
      <4> QED
        BY <4>1, <1>2
    <3> QED
      BY <3>2, <3>3
  <2>2. CASE n \in flushed
    BY <2>2, <1>0
  <2>3. CASE \E i \in 1..Len(received) : received[i] = n
    BY <2>3, <1>0, <1>3
  <2> QED
    BY <2>1, <2>2, <2>3 DEF IInv, NothingLost
<1> QED
  BY <1>5, <1>6 DEF IInv

\* flushBuffer moves what was buffered to the flushed events.
LEMMA FlushStep == TypeOK /\ IInv /\ FlushBuffer => IInv'
<1> SUFFICES ASSUME TypeOK, IInv, FlushBuffer PROVE IInv'
  OBVIOUS
<1>0. /\ fired \in Nat /\ fired' = fired /\ received' = received
      /\ Len(buffered) \in Nat /\ Len(received) \in Nat
      /\ \A i \in 1..Len(received) : received[i] \in Nat
      /\ flushed' = flushed \cup {buffered[i] : i \in 1..Len(buffered)}
      /\ Len(buffered') = 0
  BY EmitterBounds DEF TypeOK, FlushBuffer
<1>1. BufferIsNewest' /\ ReceivedIsOlder' /\ InOrder'
  BY <1>0 DEF IInv, BufferIsNewest, ReceivedIsOlder, InOrder
<1>2. NothingLost'
  BY <1>0 DEF IInv, NothingLost
<1> QED
  BY <1>1, <1>2 DEF IInv

\* Every event is received in firing order, and none is lost unless it is
\* flushed explicitly, whenever listeners come and go.
THEOREM OrderedAndLossless == Spec => [](InOrder /\ NothingLost)
<1>1. Init => IInv
  BY EmitterBounds DEF Init, IInv, BufferIsNewest, ReceivedIsOlder, InOrder, NothingLost
<1>2. TypeOK /\ IInv /\ [Next]_vars => IInv'
  <2>1. IInv /\ UNCHANGED <<buffered, fired, received, flushed>> => IInv'
    BY DEF IInv, BufferIsNewest, ReceivedIsOlder, InOrder, NothingLost
  <2> QED
    BY <2>1, FireStep, DeliverOneStep, FlushStep
       DEF Next, vars, AddFirstListener, RemoveLastListener, BeginDelivery, EndDelivery
<1>3. IInv => InOrder /\ NothingLost
  BY DEF IInv
<1> QED
  BY <1>1, <1>2, <1>3, TypeCorrect, PTL DEF Spec

\* fire, deliver and flushBuffer take care of every event: it was received, is
\* buffered, or was flushed explicitly.
THEOREM NothingIsLost == Spec => []NothingLost
  BY OrderedAndLossless, PTL
=============================================================================
