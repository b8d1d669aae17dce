--------------------------- MODULE BufferedEmitter ---------------------------
(***************************************************************************)
(* BufferedEmitter of base/parts/ipc/common/ipc.net.ts: an event emitter   *)
(* that keeps the events fired while nobody listens and hands them over,   *)
(* in a microtask, once a first listener arrives.                          *)
(*                                                                         *)
(* JavaScript runs one callback at a time.  While isDelivering holds, the  *)
(* loop of _deliverMessages is on the stack: what happens between two of   *)
(* its iterations is what the listener it has just called does (fire,      *)
(* removing or adding listeners, flushing).                                *)
(***************************************************************************)
EXTENDS Naturals, Sequences

CONSTANTS
    MaxEvents,      \* bound: events fired in one behaviour
    MaxMicrotasks   \* bound: microtasks waiting at one time

ASSUME EmitterBounds == MaxEvents \in Nat /\ MaxMicrotasks \in Nat

VARIABLES
    hasListeners,   \* _hasListeners
    isDelivering,   \* _isDeliveringMessages
    buffered,       \* _bufferedMessages; an event is the number of its fire
    microtasks,     \* calls of _deliverMessages queued with queueMicrotask
    fired,          \* history: how many events were fired
    received,       \* history: the events listeners saw, in order
    flushed         \* history: the events dropped by flushBuffer

vars == <<hasListeners, isDelivering, buffered, microtasks, fired, received, flushed>>

Init ==
    /\ hasListeners = FALSE
    /\ isDelivering = FALSE
    /\ buffered = <<>>
    /\ microtasks = 0
    /\ fired = 0
    /\ received = <<>>
    /\ flushed = {}

-----------------------------------------------------------------------------

\* Mutant: onWillAddFirstListener forgets to queue the delivery.
AddFirstListenerNoMicrotask ==
    /\ ~hasListeners
    /\ hasListeners' = TRUE
    /\ UNCHANGED <<isDelivering, buffered, microtasks, fired, received, flushed>>

\* The first listener is added: onWillAddFirstListener.
AddFirstListener ==
    /\ ~hasListeners
    /\ microtasks < MaxMicrotasks
    /\ hasListeners' = TRUE
    /\ microtasks' = microtasks + 1
    /\ UNCHANGED <<isDelivering, buffered, fired, received, flushed>>

\* The last listener is removed: onDidRemoveLastListener.
RemoveLastListener ==
    /\ hasListeners
    /\ hasListeners' = FALSE
    /\ UNCHANGED <<isDelivering, buffered, microtasks, fired, received, flushed>>

\* Mutant: fire does not look whether older events are still buffered.
FireOvertaking ==
    /\ fired < MaxEvents
    /\ fired' = fired + 1
    /\ IF hasListeners
       THEN received' = Append(received, fired + 1) /\ UNCHANGED buffered
       ELSE buffered' = Append(buffered, fired + 1) /\ UNCHANGED received
    /\ UNCHANGED <<hasListeners, isDelivering, microtasks, flushed>>

\* fire: straight to the listeners only when nothing older is waiting.
Fire ==
    /\ fired < MaxEvents
    /\ fired' = fired + 1
    /\ IF hasListeners /\ Len(buffered) = 0
       THEN /\ received' = Append(received, fired + 1)
            /\ UNCHANGED buffered
       ELSE /\ buffered' = Append(buffered, fired + 1)
            /\ UNCHANGED received
    /\ UNCHANGED <<hasListeners, isDelivering, microtasks, flushed>>

\* A queued _deliverMessages starts.  Microtasks only run on an empty stack,
\* so its early return for a delivery under way is never taken.
BeginDelivery ==
    /\ ~isDelivering
    /\ microtasks > 0
    /\ microtasks' = microtasks - 1
    /\ isDelivering' = TRUE
    /\ UNCHANGED <<hasListeners, buffered, fired, received, flushed>>

\* Mutant: the loop shifts an event without looking at _hasListeners, so that
\* it goes to an emitter whose listener has just removed itself.
DeliverOneToNobody ==
    /\ isDelivering
    /\ Len(buffered) > 0
    /\ buffered' = Tail(buffered)
    /\ received' = IF hasListeners THEN Append(received, Head(buffered)) ELSE received
    /\ UNCHANGED <<hasListeners, isDelivering, microtasks, fired, flushed>>

\* One iteration of the loop of _deliverMessages.
DeliverOne ==
    /\ isDelivering
    /\ hasListeners
    /\ Len(buffered) > 0
    /\ buffered' = Tail(buffered)
    /\ received' = Append(received, Head(buffered))
    /\ UNCHANGED <<hasListeners, isDelivering, microtasks, fired, flushed>>

\* The loop of _deliverMessages ends.
EndDelivery ==
    /\ isDelivering
    /\ ~hasListeners \/ Len(buffered) = 0
    /\ isDelivering' = FALSE
    /\ UNCHANGED <<hasListeners, buffered, microtasks, fired, received, flushed>>

\* flushBuffer: a reconnection forgets what the previous socket reported.
FlushBuffer ==
    /\ Len(buffered) > 0
    /\ buffered' = <<>>
    /\ flushed' = flushed \cup {buffered[i] : i \in 1..Len(buffered)}
    /\ UNCHANGED <<hasListeners, isDelivering, microtasks, fired, received>>

Next ==
    \/ AddFirstListener \/ RemoveLastListener
    \/ Fire
    \/ BeginDelivery \/ DeliverOne \/ EndDelivery
    \/ FlushBuffer

\* The JavaScript engine runs every queued microtask, to its end.
Fairness == WF_vars(BeginDelivery) /\ WF_vars(DeliverOne) /\ WF_vars(EndDelivery)

Spec == Init /\ [][Next]_vars /\ Fairness

-----------------------------------------------------------------------------

TypeOK ==
    /\ hasListeners \in BOOLEAN
    /\ isDelivering \in BOOLEAN
    /\ buffered \in Seq(Nat)
    /\ microtasks \in 0..MaxMicrotasks
    /\ fired \in 0..MaxEvents
    /\ received \in Seq(Nat)
    /\ flushed \in SUBSET Nat

\* Events reach the listeners in the order they were fired, whenever the
\* listeners come and go and however fire is nested in a delivery ("to
\* guarantee in order delivery").
InOrder ==
    \A i, j \in 1..Len(received) : i < j => received[i] < received[j]

\* No event is lost because nobody was listening: each one was seen, still
\* waits in the buffer, or was dropped by an explicit flushBuffer.
NothingLost ==
    \A n \in 1..fired :
        \/ \E i \in 1..Len(received) : received[i] = n
        \/ \E i \in 1..Len(buffered) : buffered[i] = n
        \/ n \in flushed

\* A listener that stays gets the events buffered before it came: the buffer
\* never keeps waiting behind an attached listener.
EventuallyDelivered ==
    hasListeners ~> (buffered = <<>> \/ ~hasListeners)

=============================================================================
