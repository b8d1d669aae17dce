-------------------------- MODULE IpcChannelsProofs --------------------------
(***************************************************************************)
(* Proofs about IpcChannels, for any number of calls, events, listeners    *)
(* and firings.                                                            *)
(*                                                                         *)
(* The invariants come in layers.  IdInv: everything that carries an id    *)
(* carries that of its own request, and ids are not given twice.  On it    *)
(* stands CallInv, that every handler of a call has its request or its     *)
(* answer somewhere on the way; on that CancelInv, that the request of a   *)
(* call given up is followed by its cancellation.  EventInv says that the  *)
(* messages about an event take turns, from what the server has to what    *)
(* the client wants, and HeardInv that what is on its way to a listener is *)
(* newer than what was heard.  Each layer has one lemma per action.        *)
(***************************************************************************)
EXTENDS IpcChannels, TLAPS, FiniteSetTheorems, WellFoundedInduction

-----------------------------------------------------------------------------
(* Ids *)

\* The elements of a sequence.
Elements(s) == {s[k] : k \in 1..Len(s)}

\* Requests that have used up an id, or never will.
Used == {c \in Calls : outcome[c] # "none"} \cup {e \in Events : id[e] # -1}

HasId(r) == id[r] # -1

\* No two requests have the same id, and ids are given in order.
IdsAreUnique ==
    /\ lastRequestId <= Cardinality(Used)
    /\ \A r \in Requests : id[r] < lastRequestId
    /\ \A r, s \in Requests : HasId(r) /\ id[r] = id[s] => r = s
    /\ \A c \in Calls : outcome[c] = "none" => ~HasId(c)

\* What the client does it does for requests with an id, and every handler is
\* found under its own.
ClientIds ==
    /\ \A r \in active \cup uninitialized \cup due \cup listening : HasId(r)
    /\ \A c \in Calls : outcome[c] = "pending" => HasId(c)
    /\ \A i \in Ids : handlers[i] # None => id[handlers[i]] = i

ServerIds ==
    /\ \A e \in Events : subs[e] > 0 => HasId(e)
    /\ \A i \in Ids : serverActive[i] # None =>
          id[serverActive[i]] = i /\ (serverActive[i] \in Events => subs[serverActive[i]] > 0)

\* A message to the server has the id of its request.
Genuine(m) ==
    /\ m.id = id[m.name]
    /\ m.type \in {"Promise", "PromiseCancel"} <=> m.name \in Calls

IsAnswer(m) == m.type \in {"PromiseSuccess", "PromiseError"}

\* A message to the client has the id of the call that it answers, or of the
\* event that has fired.
GenuineResponse(m) ==
    /\ IsAnswer(m) => m.data \in Calls /\ m.id = id[m.data]
    /\ m.type = "EventFire" => m.data \in Nat /\ \E e \in Events : HasId(e) /\ m.id = id[e]

MessagesAreGenuine ==
    /\ \A m \in Elements(toServer) : Genuine(m)
    /\ \A p \in Elements(pending) : Genuine(p.request) /\ p.request.type \in {"Promise", "EventListen"}
    /\ \A x \in running : Genuine(x) /\ x.type = "Promise"
    /\ \A m \in Elements(toClient) : GenuineResponse(m)

IdInv == TypeOK /\ IdsAreUnique /\ ClientIds /\ ServerIds /\ MessagesAreGenuine

-----------------------------------------------------------------------------
(* Calls *)

PromiseOf(c) == Request("Promise", id[c], c)
CancelOf(c) == Request("PromiseCancel", id[c], c)

\* Request m is on its way, waits for its channel or runs, or its answer is
\* on its way.
Flies(m) ==
    \/ m \in Elements(toServer) \/ m \in running
    \/ \E p \in Elements(pending) : p.request = m
    \/ \E a \in Elements(toClient) : IsAnswer(a) /\ a.id = m.id

\* A promise that is pending belongs to an active request, which waits for
\* Initialize or has a handler that waits for the answer.
ActiveCalls ==
    /\ \A c \in Calls : outcome[c] = "pending" <=> c \in active
    /\ \A c \in Calls : c \in uninitialized => c \in active
    /\ \A c \in Calls : c \in active => (c \notin uninitialized <=> handlers[id[c]] = c)
    /\ isDisposed => active \cap Calls = {}

\* Every handler of a call will get its answer.
Awaited == ~isDisposed => \A i \in Ids, c \in Calls : handlers[i] = c => Flies(PromiseOf(c))

\* What can be cancelled at the server runs.
ServedCalls == \A i \in Ids, c \in Calls : serverActive[i] = c => PromiseOf(c) \in running

CallInv == IdInv /\ ActiveCalls /\ Awaited /\ ServedCalls /\ OwnAnswer

\* Requests that wait for their channel.
Held == {p.request : p \in Elements(pending)}

Unsent(m) == m \notin Elements(toServer) \cup Held \cup running

\* Cancellation x follows request m of call c.
Revoked(m, x, c) ==
    /\ \A k \in 1..Len(toServer) : toServer[k] = m => \E j \in 1..Len(toServer) : k < j /\ toServer[j] = x
    /\ m \in Held \/ (m \in running /\ c \notin cancelled) => x \in Elements(toServer)

\* What waits for Initialize was not sent.
WaitingUnsent == \A c \in Calls : c \in uninitialized => Unsent(PromiseOf(c))

\* What runs can be cancelled.
Cancellable == \A m \in running : m.name \notin cancelled => serverActive[m.id] = m.name

\* A call that was given up is followed by its cancellation.
GivenUp == ~isDisposed => \A c \in Calls \ (sentLate \cup missed) :
              outcome[c] = "cancelled" => Revoked(PromiseOf(c), CancelOf(c), c)

CancelInv == CallInv /\ WaitingUnsent /\ Cancellable /\ GivenUp

-----------------------------------------------------------------------------
(* Events *)

\* The client wants the event; the server has its request, served or not.
Wanted(e) == e \in listening \ uninitialized
Waits(e) == \E k \in 1..Len(pending) : pending[k].request.name = e
Has(e) == subs[e] = 1 \/ Waits(e)

OneSubscription(e) ==
    /\ subs[e] \in {0, 1}
    /\ subs[e] = 1 => ~Waits(e)
    /\ \A k, l \in 1..Len(pending) : pending[k].request.name = e /\ pending[l].request.name = e => k = l
    /\ ~serverDisposed /\ subs[e] = 1 => serverActive[id[e]] = e

\* Messages about e on their way to the server.
About(e) == {k \in 1..Len(toServer) : toServer[k].name = e}

\* They take turns, from what the server has to what the client wants.
TakeTurns(e) ==
    /\ \A k, l \in About(e) : k < l /\ (\A j \in About(e) : j <= k \/ l <= j) => toServer[k].type # toServer[l].type
    /\ \A k \in About(e) : (\A j \in About(e) : k <= j) => (Has(e) <=> toServer[k].type = "EventDispose")
    /\ \A k \in About(e) : (\A j \in About(e) : j <= k) => (Wanted(e) <=> toServer[k].type = "EventListen")
    /\ About(e) = {} => (Has(e) <=> Wanted(e))

WaitingListens == uninitialized \cap Events \subseteq listening

Balanced == ~isDisposed => \A e \in Events \ (sentLate \cup missed) :
               OneSubscription(e) /\ (~serverDisposed => TakeTurns(e))

EventInv == IdInv /\ WaitingListens /\ Balanced

\* Message m tells that the event with id i has fired.
Fires(m, i) == m.type = "EventFire" /\ m.id = i

\* What is on its way is newer than what was heard, and in order.
StillToHear(e) ==
    /\ \A i \in 1..Len(heard[e]) : heard[e][i] <= fires[e]
    /\ \A k \in 1..Len(toClient) : Fires(toClient[k], id[e]) =>
          /\ toClient[k].data <= fires[e]
          /\ \A i \in 1..Len(heard[e]) : heard[e][i] < toClient[k].data
          /\ \A l \in 1..Len(toClient) : l < k /\ Fires(toClient[l], id[e]) => toClient[l].data < toClient[k].data

HeardInv ==
    /\ EventInv /\ HeardOnce
    /\ ~isDisposed => \A e \in Events \ (sentLate \cup missed) : StillToHear(e)

-----------------------------------------------------------------------------
(* Sequences and messages *)

LEMMA AppendFacts ==
    ASSUME NEW S, NEW s \in Seq(S), NEW x \in S
    PROVE  /\ Append(s, x) \in Seq(S) /\ Len(Append(s, x)) = Len(s) + 1 /\ Len(s) \in Nat
           /\ \A k \in 1..Len(s) : Append(s, x)[k] = s[k] /\ s[k] \in S
           /\ Append(s, x)[Len(s) + 1] = x
           /\ Elements(Append(s, x)) = Elements(s) \cup {x}
<1>1. /\ Append(s, x) \in Seq(S) /\ Len(Append(s, x)) = Len(s) + 1 /\ Len(s) \in Nat
      /\ \A k \in 1..Len(s) : Append(s, x)[k] = s[k] /\ s[k] \in S
      /\ Append(s, x)[Len(s) + 1] = x
  OBVIOUS
<1> QED
  BY <1>1 DEF Elements

LEMMA TailFacts ==
    ASSUME NEW S, NEW s \in Seq(S), s # <<>>
    PROVE  /\ Tail(s) \in Seq(S) /\ Len(Tail(s)) = Len(s) - 1 /\ Len(s) \in Nat \ {0}
           /\ \A k \in 1..(Len(s) - 1) : Tail(s)[k] = s[k + 1]
           /\ Head(s) = s[1] /\ Head(s) \in S /\ Head(s) \in Elements(s)
           /\ Elements(Tail(s)) \subseteq Elements(s)
           /\ Elements(s) \subseteq Elements(Tail(s)) \cup {Head(s)}
<1>1. /\ Tail(s) \in Seq(S) /\ Len(Tail(s)) = Len(s) - 1 /\ Len(s) \in Nat \ {0}
      /\ \A k \in 1..(Len(s) - 1) : Tail(s)[k] = s[k + 1]
      /\ Head(s) = s[1] /\ Head(s) \in S
  OBVIOUS
<1>2. Head(s) \in Elements(s) /\ Elements(Tail(s)) \subseteq Elements(s)
  BY <1>1 DEF Elements
<1>3. ASSUME NEW k \in 1..Len(s), s[k] # Head(s) PROVE s[k] \in Elements(Tail(s))
  <2>1. k - 1 \in 1..Len(Tail(s)) /\ Tail(s)[k - 1] = s[k]
    BY <1>1, <1>3
  <2> QED
    BY <2>1 DEF Elements
<1> QED
  BY <1>1, <1>2, <1>3 DEF Elements

LEMMA ConcatFacts ==
    ASSUME NEW S, NEW s \in Seq(S), NEW t \in Seq(S)
    PROVE  /\ s \o t \in Seq(S) /\ Len(s \o t) = Len(s) + Len(t) /\ Len(s) \in Nat /\ Len(t) \in Nat
           /\ \A k \in 1..Len(s) : (s \o t)[k] = s[k]
           /\ Elements(s \o t) = Elements(s) \cup Elements(t)
<1>1. /\ s \o t \in Seq(S) /\ Len(s \o t) = Len(s) + Len(t) /\ Len(s) \in Nat /\ Len(t) \in Nat
      /\ \A k \in 1..Len(s) : (s \o t)[k] = s[k]
      /\ \A k \in 1..Len(t) : (s \o t)[Len(s) + k] = t[k]
  OBVIOUS
<1>2. Elements(s \o t) \subseteq Elements(s) \cup Elements(t)
  <2> SUFFICES ASSUME NEW k \in 1..Len(s \o t) PROVE (s \o t)[k] \in Elements(s) \cup Elements(t)
    BY DEF Elements
  <2>1. CASE k <= Len(s)
    BY <1>1, <2>1 DEF Elements
  <2>2. CASE k > Len(s)
    <3>1. k - Len(s) \in 1..Len(t) /\ (s \o t)[k] = t[k - Len(s)]
      BY <1>1, <2>2
    <3> QED
      BY <3>1 DEF Elements
  <2> QED
    BY <1>1, <2>1, <2>2
<1>3. Elements(s) \subseteq Elements(s \o t)
  BY <1>1 DEF Elements
<1>4. Elements(t) \subseteq Elements(s \o t)
  <2> SUFFICES ASSUME NEW k \in 1..Len(t) PROVE t[k] \in Elements(s \o t)
    BY DEF Elements
  <2>1. Len(s) + k \in 1..Len(s \o t) /\ (s \o t)[Len(s) + k] = t[k]
    BY <1>1
  <2> QED
    BY <2>1 DEF Elements
<1> QED
  BY <1>1, <1>2, <1>3, <1>4

LEMMA ElementsFacts ==
    ASSUME NEW S, NEW s \in Seq(S)
    PROVE  /\ Elements(s) \subseteq S /\ Len(s) \in Nat /\ DOMAIN s = 1..Len(s)
           /\ \A k \in 1..Len(s) : s[k] \in S /\ s[k] \in Elements(s)
           /\ Elements(<<>>) = {}
  BY DEF Elements

LEMMA LessIsWellFounded == IsWellFoundedOn({ss \in Nat \X Nat : ss[1] < ss[2]}, Nat)
  BY NatLessThanWellFounded, Zenon DEF OpToRel

LEMMA LeastElement ==
    ASSUME NEW D, D \subseteq Nat, D # {}
    PROVE  \E m \in D : \A d \in D : m <= d
<1>1. \E m \in D : \A d \in D : ~(<<d, m>> \in {ss \in Nat \X Nat : ss[1] < ss[2]})
  BY LessIsWellFounded, WFMin, Zenon
<1>2. PICK m \in D : \A d \in D : ~(<<d, m>> \in {ss \in Nat \X Nat : ss[1] < ss[2]})
  BY <1>1
<1>3. ASSUME NEW d \in D PROVE m <= d
  <2>1. m \in Nat /\ d \in Nat /\ <<d, m>>[1] = d /\ <<d, m>>[2] = m /\ <<d, m>> \in Nat \X Nat
    OBVIOUS
  <2>2. ~(d < m)
    BY <1>2, <2>1
  <2> QED
    BY <2>1, <2>2
<1> QED
  BY <1>3

\* A set of natural numbers that is not empty and has a bound has a greatest
\* element.
LEMMA GreatestElement ==
    ASSUME NEW n \in Nat, NEW T \in SUBSET (1..n), T # {}
    PROVE  \E k \in T : \A j \in T : j <= k
<1> DEFINE D == {m \in Nat : n - m \in T}
<1>1. D \subseteq Nat /\ D # {}
  <2>1. PICK t \in T : TRUE
    OBVIOUS
  <2>2. n - t \in Nat /\ n - (n - t) = t
    OBVIOUS
  <2> QED
    BY <2>1, <2>2
<1>2. \E m \in D : \A d \in D : m <= d
  <2> HIDE DEF D
  <2> QED
    BY <1>1, LeastElement
<1>3. PICK m \in D : \A d \in D : m <= d
  BY <1>2
<1>4. ASSUME NEW j \in T PROVE j <= n - m
  <2>1. n - j \in Nat /\ n - (n - j) = j
    OBVIOUS
  <2>2. m <= n - j
    BY <1>3, <2>1
  <2> QED
    BY <2>1, <2>2
<1> QED
  BY <1>4

LEMMA MessageFacts ==
    /\ \A t \in {"Promise", "PromiseCancel", "EventListen", "EventDispose"}, i \in Ids, r \in Requests :
          /\ Request(t, i, r) \in RequestMessages
          /\ Request(t, i, r).type = t /\ Request(t, i, r).id = i /\ Request(t, i, r).name = r
    /\ \A m \in RequestMessages :
          /\ m.type \in {"Promise", "PromiseCancel", "EventListen", "EventDispose"}
          /\ m.id \in Ids /\ m.name \in Requests
          /\ m = Request(m.type, m.id, m.name)
    /\ \A t \in {"PromiseSuccess", "PromiseError", "EventFire"}, i \in Nat, d \in Nat :
          /\ Response(t, i, d) \in ResponseMessages
          /\ Response(t, i, d).type = t /\ Response(t, i, d).id = i /\ Response(t, i, d).data = d
    /\ \A m \in ResponseMessages :
          /\ m.type \in {"Initialize", "PromiseSuccess", "PromiseError", "EventFire"}
          /\ m.id \in Nat /\ m.data \in Nat \cup {None}
    /\ \A p \in PendingRequests :
          /\ p.request \in RequestMessages /\ p.timer \in BOOLEAN
          /\ TimedOut(p) \in PendingRequests /\ TimedOut(p).request = p.request
    /\ \A m \in RequestMessages :
          /\ [request |-> m, timer |-> TRUE] \in PendingRequests
          /\ [request |-> m, timer |-> TRUE].request = m
<1>1. ASSUME NEW t \in {"Promise", "PromiseCancel", "EventListen", "EventDispose"}, NEW i \in Ids, NEW r \in Requests
      PROVE  /\ Request(t, i, r) \in RequestMessages
             /\ Request(t, i, r).type = t /\ Request(t, i, r).id = i /\ Request(t, i, r).name = r
  BY DEF Request, RequestMessages
<1>2. ASSUME NEW m \in RequestMessages
      PROVE  /\ m.type \in {"Promise", "PromiseCancel", "EventListen", "EventDispose"}
             /\ m.id \in Ids /\ m.name \in Requests
             /\ m = Request(m.type, m.id, m.name)
  BY DEF Request, RequestMessages
<1>3. ASSUME NEW t \in {"PromiseSuccess", "PromiseError", "EventFire"}, NEW i \in Nat, NEW d \in Nat
      PROVE  /\ Response(t, i, d) \in ResponseMessages
             /\ Response(t, i, d).type = t /\ Response(t, i, d).id = i /\ Response(t, i, d).data = d
  BY DEF Response, ResponseMessages
<1>4. ASSUME NEW m \in ResponseMessages
      PROVE  /\ m.type \in {"Initialize", "PromiseSuccess", "PromiseError", "EventFire"}
             /\ m.id \in Nat /\ m.data \in Nat \cup {None}
  BY DEF ResponseMessages
<1>5. ASSUME NEW p \in PendingRequests
      PROVE  /\ p.request \in RequestMessages /\ p.timer \in BOOLEAN
             /\ TimedOut(p) \in PendingRequests /\ TimedOut(p).request = p.request
  BY Zenon DEF PendingRequests, TimedOut
<1>6. ASSUME NEW m \in RequestMessages
      PROVE  /\ [request |-> m, timer |-> TRUE] \in PendingRequests
             /\ [request |-> m, timer |-> TRUE].request = m
  BY DEF PendingRequests
<1> QED
  BY <1>1, <1>2, <1>3, <1>4, <1>5, <1>6, Zenon

LEMMA FiniteRequests ==
    /\ IsFiniteSet(Calls) /\ IsFiniteSet(Requests) /\ Cardinality(Requests) \in Nat
    /\ \A S \in SUBSET Requests : IsFiniteSet(S) /\ Cardinality(S) \in Nat /\ Cardinality(S) <= Cardinality(Requests)
    /\ Calls \subseteq Nat
<1>1. IsFiniteSet(Calls)
  BY IpcBounds, FS_Interval DEF Calls
<1>2. IsFiniteSet(Requests)
  BY <1>1, IpcBounds, FS_Union DEF Requests
<1>3. Cardinality(Requests) \in Nat
  BY <1>2, FS_CardinalityType
<1>4. \A S \in SUBSET Requests : IsFiniteSet(S) /\ Cardinality(S) \in Nat /\ Cardinality(S) <= Cardinality(Requests)
  BY <1>2, FS_Subset, FS_CardinalityType
<1> QED
  BY <1>1, <1>2, <1>3, <1>4, IpcBounds DEF Calls

LEMMA EmptyFacts == Elements(<<>>) = {} /\ \A S : <<>> \in Seq(S)
  BY DEF Elements

-----------------------------------------------------------------------------
(* Ids: lemmas *)

LEMMA NewRequest ==
    ASSUME NEW t, t \in {"Promise", "PromiseCancel", "EventListen", "EventDispose"},
           NEW i, i \in Ids, NEW r, r \in Requests
    PROVE  \E m \in RequestMessages : m = Request(t, i, r) /\ m.type = t /\ m.id = i /\ m.name = r
  BY MessageFacts

LEMMA NewResponse ==
    ASSUME NEW t, t \in {"PromiseSuccess", "PromiseError", "EventFire"},
           NEW i, i \in Nat, NEW d, d \in Nat
    PROVE  \E m \in ResponseMessages : m = Response(t, i, d) /\ m.type = t /\ m.id = i /\ m.data = d
  BY MessageFacts

LEMMA NewPending ==
    ASSUME NEW m \in RequestMessages
    PROVE  \E p \in PendingRequests : p = [request |-> m, timer |-> TRUE] /\ p.request = m
<1>1. [request |-> m, timer |-> TRUE] \in PendingRequests /\ [request |-> m, timer |-> TRUE].request = m
  BY MessageFacts
<1> QED
  BY <1>1

\* Sending, as far as the other side is still there.
LEMMA SendRequestFacts ==
    ASSUME TypeOK, NEW m \in RequestMessages, SendRequest(m)
    PROVE  /\ toServer' \in Seq(RequestMessages)
           /\ Elements(toServer) \subseteq Elements(toServer')
           /\ Elements(toServer') \subseteq Elements(toServer) \cup {m}
           /\ ~isDisposed => toServer' = Append(toServer, m) /\ m \in Elements(toServer')
           /\ isDisposed => toServer' = toServer
<1>1. toServer \in Seq(RequestMessages)
  BY DEF TypeOK
<1>2. CASE isDisposed
  BY <1>1, <1>2 DEF SendRequest
<1>3. CASE ~isDisposed
  BY <1>1, <1>3, AppendFacts DEF SendRequest
<1> QED
  BY <1>2, <1>3

LEMMA SendResponsesFacts ==
    ASSUME TypeOK, NEW ms \in Seq(ResponseMessages), SendResponses(ms)
    PROVE  /\ toClient' \in Seq(ResponseMessages)
           /\ Elements(toClient) \subseteq Elements(toClient')
           /\ Elements(toClient') \subseteq Elements(toClient) \cup Elements(ms)
           /\ ~isDisposed => toClient' = toClient \o ms /\ Elements(ms) \subseteq Elements(toClient')
           /\ isDisposed => toClient' = toClient
<1>1. toClient \in Seq(ResponseMessages)
  BY DEF TypeOK
<1>2. CASE isDisposed
  BY <1>1, <1>2 DEF SendResponses
<1>3. CASE ~isDisposed
  BY <1>1, <1>3, ConcatFacts DEF SendResponses
<1> QED
  BY <1>2, <1>3

LEMMA OneResponse ==
    ASSUME NEW m \in ResponseMessages
    PROVE  <<m>> \in Seq(ResponseMessages) /\ Elements(<<m>>) = {m} /\ Len(<<m>>) = 1
  BY DEF Elements

\* Requests that have an id keep it.
KeepsIds == \A r \in Requests : HasId(r) => id'[r] = id[r]

\* Only new messages have to be looked at.
LEMMA MessagesKept ==
    ASSUME IdInv, KeepsIds,
           \A m \in Elements(toServer') : m \in Elements(toServer) \/ Genuine(m)',
           \A p \in Elements(pending') : p \in Elements(pending)
              \/ (Genuine(p.request)' /\ p.request.type \in {"Promise", "EventListen"}),
           \A x \in running' : x \in running \/ (Genuine(x)' /\ x.type = "Promise"),
           \A m \in Elements(toClient') : m \in Elements(toClient) \/ GenuineResponse(m)'
    PROVE  MessagesAreGenuine'
<1>0. /\ Elements(toServer) \subseteq RequestMessages /\ Elements(pending) \subseteq PendingRequests
      /\ running \subseteq RequestMessages /\ Elements(toClient) \subseteq ResponseMessages
      /\ Calls \subseteq Requests /\ Events \subseteq Requests
  BY ElementsFacts DEF IdInv, TypeOK, Requests
<1>1. ASSUME NEW m \in RequestMessages, Genuine(m) PROVE Genuine(m)'
  <2>1. m.id \in Ids /\ m.name \in Requests
    BY MessageFacts
  <2>2. HasId(m.name)
    BY <1>1, <2>1, FiniteRequests DEF Genuine, HasId, Ids
  <2> QED
    BY <1>1, <2>1, <2>2 DEF KeepsIds, Genuine
<1>2. ASSUME NEW m \in ResponseMessages, GenuineResponse(m) PROVE GenuineResponse(m)'
  <2>1. m.id \in Nat
    BY MessageFacts
  <2>2. ASSUME NEW r \in Requests, m.id = id[r] PROVE m.id = id'[r] /\ id'[r] # -1
    BY <2>1, <2>2 DEF KeepsIds, HasId
  <2> QED
    BY <1>0, <1>2, <2>2 DEF GenuineResponse, IsAnswer, HasId
<1>3. \A p \in Elements(pending) : p.request \in RequestMessages
  BY <1>0, MessageFacts
<1>4. \A m \in Elements(toServer') : Genuine(m)'
  BY <1>0, <1>1 DEF IdInv, MessagesAreGenuine
<1>5. \A p \in Elements(pending') : Genuine(p.request)' /\ p.request.type \in {"Promise", "EventListen"}
  BY <1>1, <1>3 DEF IdInv, MessagesAreGenuine
<1>6. \A x \in running' : Genuine(x)' /\ x.type = "Promise"
  BY <1>0, <1>1 DEF IdInv, MessagesAreGenuine
<1>7. \A m \in Elements(toClient') : GenuineResponse(m)'
  BY <1>0, <1>2 DEF IdInv, MessagesAreGenuine
<1> QED
  BY <1>4, <1>5, <1>6, <1>7 DEF MessagesAreGenuine

\* There is an id for every request that has not used up one.
LEMMA NewId ==
    ASSUME IdInv, NEW r \in Requests, r \notin Used
    PROVE  /\ lastRequestId \in Ids /\ lastRequestId \in Nat
           /\ lastRequestId + 1 \in 0..Cardinality(Requests)
           /\ Cardinality(Used \cup {r}) = Cardinality(Used) + 1
           /\ Cardinality(Used) \in Nat
<1>1. Used \subseteq Requests /\ Used \cup {r} \subseteq Requests
  BY DEF Used, Requests
<1>2. IsFiniteSet(Used) /\ Cardinality(Used) \in Nat /\ Cardinality(Used \cup {r}) <= Cardinality(Requests)
      /\ Cardinality(Requests) \in Nat
  BY <1>1, FiniteRequests
<1>3. Cardinality(Used \cup {r}) = Cardinality(Used) + 1
  BY <1>2, FS_AddElement
<1>4. lastRequestId \in 0..Cardinality(Requests) /\ lastRequestId <= Cardinality(Used)
  BY DEF IdInv, TypeOK, IdsAreUnique
<1> QED
  BY <1>2, <1>3, <1>4 DEF Ids

\* Steps that give no id.
LEMMA SameIds ==
    ASSUME IdInv, id' = id, lastRequestId' = lastRequestId,
           \A c \in Calls : outcome'[c] = "none" <=> outcome[c] = "none"
    PROVE  IdsAreUnique' /\ KeepsIds /\ \A r \in Requests : HasId(r)' <=> HasId(r)
<1>1. Used' = Used
  BY DEF Used
<1> QED
  BY <1>1 DEF IdInv, IdsAreUnique, KeepsIds, HasId

LEMMA RequestSets ==
    /\ Calls \subseteq Requests /\ Events \subseteq Requests /\ Calls \cap Events = {}
    /\ None \notin Requests /\ None \notin Calls /\ None \notin Events
    /\ \A r \in Requests : r \in Calls \/ r \in Events
    /\ Ids \subseteq Nat /\ -1 \notin Ids /\ Calls \subseteq Nat
  BY IpcBounds, FiniteRequests DEF Requests, Ids

\* What onPromise and onEventListen do to the server, for a sequence of
\* genuine requests.
LEMMA StartFacts ==
    ASSUME TypeOK, NEW reqs \in Seq(RequestMessages), Start(reqs)
    PROVE  /\ running' = running \cup {m \in Elements(reqs) : m.type = "Promise"}
           /\ subs' \in [Events -> Nat]
           /\ \A e \in Events :
                 /\ subs'[e] >= subs[e]
                 /\ (\A k \in 1..Len(reqs) : reqs[k].name # e \/ reqs[k].type # "EventListen") => subs'[e] = subs[e]
                 /\ \A k \in 1..Len(reqs) : reqs[k].name = e /\ reqs[k].type = "EventListen" =>
                       /\ subs'[e] > 0
                       /\ (\A j \in 1..Len(reqs) : reqs[j].name = e => j = k) => subs'[e] = subs[e] + 1
           /\ serverActive' \in [Ids -> Requests \cup {None}]
           /\ \A i \in Ids :
                 \/ serverActive'[i] = serverActive[i] /\ \A k \in 1..Len(reqs) : reqs[k].id # i
                 \/ \E k \in 1..Len(reqs) : reqs[k].id = i /\ serverActive'[i] = reqs[k].name
<1> DEFINE of(i) == {k \in DOMAIN reqs : reqs[k].id = i}
           last(i) == CHOOSE k \in of(i) : \A j \in of(i) : j <= k
           on(e) == {k \in DOMAIN reqs : reqs[k].type = "EventListen" /\ reqs[k].name = e}
<1>0. /\ DOMAIN reqs = 1..Len(reqs) /\ Len(reqs) \in Nat
      /\ \A k \in 1..Len(reqs) : reqs[k] \in RequestMessages /\ reqs[k].name \in Requests /\ reqs[k] \in Elements(reqs)
      /\ Elements(reqs) = {reqs[k] : k \in 1..Len(reqs)}
  BY ElementsFacts, MessageFacts DEF Elements
<1>1. running' = running \cup {m \in Elements(reqs) : m.type = "Promise"}
  BY <1>0 DEF Start
<1>2. subs' = [e \in Events |-> subs[e] + Cardinality(on(e))]
  BY DEF Start
<1>3. ASSUME NEW e \in Events
      PROVE  /\ IsFiniteSet(on(e)) /\ Cardinality(on(e)) \in Nat
             /\ on(e) = {} => Cardinality(on(e)) = 0
             /\ on(e) # {} => Cardinality(on(e)) > 0
             /\ \A k : on(e) = {k} => Cardinality(on(e)) = 1
  <2>1. IsFiniteSet(DOMAIN reqs) /\ on(e) \subseteq DOMAIN reqs
    BY <1>0, FS_Interval
  <2>2. IsFiniteSet(on(e))
    BY <2>1, FS_Subset
  <2> HIDE DEF on
  <2>3. Cardinality(on(e)) \in Nat
    BY <2>2, FS_CardinalityType
  <2>4. Cardinality(on(e)) = 0 <=> on(e) = {}
    BY <2>2, FS_EmptySet
  <2>5. \A k : on(e) = {k} => Cardinality(on(e)) = 1
    BY FS_Singleton
  <2>6. (on(e) = {} => Cardinality(on(e)) = 0) /\ (on(e) # {} => Cardinality(on(e)) > 0)
    BY <2>3, <2>4
  <2> QED
    BY <2>2, <2>3, <2>5, <2>6, Zenon
<1>4. ASSUME NEW e \in Events
      PROVE  /\ subs'[e] \in Nat /\ subs'[e] >= subs[e]
             /\ (\A k \in 1..Len(reqs) : reqs[k].name # e \/ reqs[k].type # "EventListen") => subs'[e] = subs[e]
             /\ \A k \in 1..Len(reqs) : reqs[k].name = e /\ reqs[k].type = "EventListen" =>
                       /\ subs'[e] > 0
                       /\ (\A j \in 1..Len(reqs) : reqs[j].name = e => j = k) => subs'[e] = subs[e] + 1
  <2>1. subs[e] \in Nat /\ subs'[e] = subs[e] + Cardinality(on(e))
    BY <1>2 DEF TypeOK
  <2>2. (\A k \in 1..Len(reqs) : reqs[k].name # e \/ reqs[k].type # "EventListen") => on(e) = {}
    BY <1>0
  <2>3. ASSUME NEW k \in 1..Len(reqs), reqs[k].name = e, reqs[k].type = "EventListen"
        PROVE  on(e) # {} /\ ((\A j \in 1..Len(reqs) : reqs[j].name = e => j = k) => on(e) = {k})
    BY <1>0, <2>3
  <2> HIDE DEF on
  <2> QED
    BY <1>3, <2>1, <2>2, <2>3
<1>5. serverActive' = [i \in Ids |-> IF of(i) = {} THEN serverActive[i] ELSE reqs[last(i)].name]
  BY DEF Start
<1>6. ASSUME NEW i \in Ids, of(i) # {} PROVE last(i) \in of(i)
  <2>1. of(i) \in SUBSET (1..Len(reqs))
    BY <1>0
  <2>2. \E k \in of(i) : \A j \in of(i) : j <= k
    <3> HIDE DEF of
    <3> QED
      BY <1>0, <1>6, <2>1, GreatestElement
  <2> QED
    BY <2>2
<1>7. ASSUME NEW i \in Ids
      PROVE  /\ serverActive'[i] \in Requests \cup {None}
             /\ \/ serverActive'[i] = serverActive[i] /\ \A k \in 1..Len(reqs) : reqs[k].id # i
                \/ \E k \in 1..Len(reqs) : reqs[k].id = i /\ serverActive'[i] = reqs[k].name
  <2>1. CASE of(i) = {}
    BY <1>0, <1>5, <2>1 DEF TypeOK
  <2>2. CASE of(i) # {}
    <3>1. last(i) \in 1..Len(reqs) /\ reqs[last(i)].id = i
      BY <1>0, <1>6, <2>2
    <3>2. serverActive'[i] = reqs[last(i)].name
      BY <1>5, <2>2
    <3> HIDE DEF last
    <3> QED
      BY <1>0, <3>1, <3>2
  <2> QED
    BY <2>1, <2>2
<1>8. subs' \in [Events -> Nat]
  <2> HIDE DEF on
  <2> QED
    BY <1>2, <1>4
<1>9. serverActive' \in [Ids -> Requests \cup {None}]
  <2> HIDE DEF of, last
  <2> QED
    BY <1>5, <1>7
<1> QED
  BY <1>1, <1>4, <1>7, <1>8, <1>9

-----------------------------------------------------------------------------
(* Ids: one lemma per step *)

LEMMA CallId == ASSUME IdInv, NEW c \in Calls, Call(c) PROVE IdInv'
<1> USE RequestSets
<1>0. TypeOK /\ c \in Requests /\ outcome[c] = "none" /\ ~isDisposed /\ ~HasId(c) /\ c \notin Used
  BY DEF IdInv, Call, IdsAreUnique, Used
<1>1. /\ lastRequestId \in Ids /\ lastRequestId \in Nat /\ lastRequestId + 1 \in 0..Cardinality(Requests)
      /\ Cardinality(Used \cup {c}) = Cardinality(Used) + 1 /\ Cardinality(Used) \in Nat
  BY <1>0, NewId
<1>2. /\ id' = [id EXCEPT ![c] = lastRequestId] /\ lastRequestId' = lastRequestId + 1
      /\ outcome' = [outcome EXCEPT ![c] = "pending"] /\ active' = active \cup {c}
      /\ UNCHANGED <<state, isDisposed, due, answer, listening, listens, toClient, server, history>>
  BY DEF Call, NextId
<1>3. PICK m \in RequestMessages :
         m = Request("Promise", lastRequestId, c) /\ m.type = "Promise" /\ m.id = lastRequestId /\ m.name = c
  BY <1>0, <1>1, MessageFacts
<1>4. /\ uninitialized' \subseteq uninitialized \cup {c}
      /\ handlers' = handlers \/ handlers' = [handlers EXCEPT ![lastRequestId] = c]
      /\ toServer' \in Seq(RequestMessages) /\ Elements(toServer') \subseteq Elements(toServer) \cup {m}
  <2>1. CASE state = "Idle"
    <3>1. SendRequest(m) /\ handlers' = [handlers EXCEPT ![lastRequestId] = c] /\ uninitialized' = uninitialized
      BY <1>3, <2>1 DEF Call
    <3> QED
      BY <1>0, <1>3, <3>1, SendRequestFacts
  <2>2. CASE state # "Idle"
    BY <1>0, <2>2 DEF Call, TypeOK
  <2> QED
    BY <2>1, <2>2
<1>5. KeepsIds /\ id'[c] = lastRequestId /\ \A r \in Requests : r # c => id'[r] = id[r]
  BY <1>0, <1>2 DEF KeepsIds, TypeOK
<1>6. TypeOK'
  <2>1. handlers' \in [Ids -> Requests \cup {None}] /\ uninitialized' \subseteq Requests
    BY <1>0, <1>4 DEF TypeOK
  <2>2. id' \in [Requests -> Ids \cup {-1}] /\ lastRequestId' \in 0..Cardinality(Requests)
    BY <1>0, <1>1, <1>2 DEF TypeOK
  <2> QED
    BY <1>0, <1>2, <1>4, <2>1, <2>2 DEF TypeOK, server, history
<1>7. IdsAreUnique'
  <2>1. Used' = Used \cup {c}
    BY <1>0, <1>2, <1>5 DEF Used, TypeOK
  <2>2. lastRequestId' <= Cardinality(Used')
    BY <1>1, <1>2, <2>1 DEF IdInv, IdsAreUnique
  <2>3. \A r \in Requests : id[r] \in Int /\ id[r] < lastRequestId
    BY <1>0 DEF IdInv, IdsAreUnique, TypeOK, Ids
  <2>4. \A r \in Requests : id'[r] < lastRequestId'
    BY <1>1, <1>2, <1>5, <2>3
  <2>5. \A r, s \in Requests : HasId(r)' /\ id'[r] = id'[s] => r = s
    BY <1>1, <1>5, <2>3 DEF IdInv, IdsAreUnique, HasId
  <2>6. \A d \in Calls : outcome'[d] = "none" => ~HasId(d)'
    BY <1>0, <1>2, <1>5 DEF IdInv, IdsAreUnique, HasId, TypeOK
  <2> QED
    BY <2>2, <2>4, <2>5, <2>6 DEF IdsAreUnique
<1>8. \A r \in Requests : HasId(r) \/ r = c => HasId(r)'
  BY <1>1, <1>5 DEF HasId, KeepsIds
<1>9. ClientIds'
  <2>1. \A r \in active' \cup uninitialized' \cup due' \cup listening' : HasId(r)'
    BY <1>0, <1>2, <1>4, <1>8 DEF IdInv, ClientIds, TypeOK
  <2>3. \A d \in Calls : outcome'[d] = "pending" => HasId(d)'
    BY <1>0, <1>2, <1>8 DEF IdInv, ClientIds, TypeOK
  <2>2. ASSUME NEW i \in Ids, handlers'[i] # None PROVE id'[handlers'[i]] = i
    <3>1. CASE handlers'[i] = handlers[i]
      BY <1>0, <1>5, <2>2, <3>1 DEF IdInv, ClientIds, TypeOK, HasId, KeepsIds
    <3>2. CASE handlers'[i] # handlers[i]
      BY <1>0, <1>1, <1>4, <1>5, <3>2 DEF TypeOK
    <3> QED
      BY <3>1, <3>2
  <2> QED
    BY <2>1, <2>2, <2>3 DEF ClientIds
<1>10. ServerIds'
  BY <1>0, <1>2, <1>5, <1>8 DEF server, IdInv, ServerIds, KeepsIds, HasId, TypeOK
<1>11. Genuine(m)'
  BY <1>3, <1>5 DEF Genuine
<1>12. MessagesAreGenuine'
  BY <1>2, <1>4, <1>5, <1>11, MessagesKept DEF server
<1> QED
  BY <1>6, <1>7, <1>9, <1>10, <1>12 DEF IdInv

LEMMA CallRejectedId == ASSUME IdInv, NEW c \in Calls, CallRejected(c) PROVE IdInv'
<1> USE RequestSets
<1>0. TypeOK /\ c \in Requests /\ outcome[c] = "none" /\ c \notin Used
  BY DEF IdInv, CallRejected, Used
<1>1. /\ lastRequestId \in Nat /\ lastRequestId + 1 \in 0..Cardinality(Requests)
      /\ Cardinality(Used \cup {c}) = Cardinality(Used) + 1 /\ Cardinality(Used) \in Nat
  BY <1>0, NewId
<1>2. /\ outcome' = [outcome EXCEPT ![c] = "cancelled"]
      /\ lastRequestId' = lastRequestId \/ lastRequestId' = lastRequestId + 1
      /\ UNCHANGED <<state, isDisposed, id, handlers, active, uninitialized, due, answer,
                     listening, listens, toServer, toClient, server, history>>
  BY DEF CallRejected, NextId
<1>3. TypeOK'
  <2>1. outcome' \in [Calls -> {"none", "pending", "ok", "error", "cancelled"}]
    BY <1>0, <1>2 DEF TypeOK
  <2>2. lastRequestId' \in 0..Cardinality(Requests)
    BY <1>0, <1>1, <1>2 DEF TypeOK
  <2> QED
    BY <1>0, <1>2, <2>1, <2>2 DEF TypeOK, server, history
<1>4. IdsAreUnique'
  <2>1. Used' = Used \cup {c}
    BY <1>0, <1>2 DEF Used, TypeOK
  <2>2. lastRequestId' <= Cardinality(Used')
    BY <1>1, <1>2, <2>1 DEF IdInv, IdsAreUnique
  <2>3. \A r \in Requests : id[r] \in Int /\ id[r] < lastRequestId
    BY <1>0 DEF IdInv, IdsAreUnique, TypeOK, Ids
  <2>4. \A r \in Requests : id'[r] < lastRequestId'
    BY <1>1, <1>2, <2>3
  <2> QED
    BY <1>0, <1>2, <2>2, <2>4 DEF IdInv, IdsAreUnique, HasId, TypeOK
<1>5. KeepsIds
  BY <1>2 DEF KeepsIds
<1>6. ClientIds' /\ ServerIds'
  BY <1>0, <1>2 DEF server, IdInv, ClientIds, ServerIds, HasId, TypeOK
<1>7. MessagesAreGenuine'
  BY <1>2, <1>5, MessagesKept DEF server
<1> QED
  BY <1>3, <1>4, <1>6, <1>7 DEF IdInv

LEMMA CancelId == ASSUME IdInv, NEW c \in Calls, Cancel(c) PROVE IdInv'
<1> USE RequestSets
<1>0. TypeOK /\ c \in Requests /\ outcome[c] = "pending" /\ id[c] \in Ids
  BY DEF IdInv, ClientIds, Cancel, TypeOK, HasId
<1>2. /\ outcome' = [outcome EXCEPT ![c] = "cancelled"]
      /\ active' = active \ {c} /\ uninitialized' = uninitialized \ {c}
      /\ UNCHANGED <<state, isDisposed, lastRequestId, id, handlers, due, answer, listening, listens,
                     toClient, server, history>>
  BY DEF Cancel
<1>3. PICK m \in RequestMessages :
         m = Request("PromiseCancel", id[c], c) /\ m.type = "PromiseCancel" /\ m.id = id[c] /\ m.name = c
  BY <1>0, NewRequest
<1>4. toServer' \in Seq(RequestMessages) /\ Elements(toServer') \subseteq Elements(toServer) \cup {m}
  <2>1. CASE c \notin uninitialized
    <3>1. SendRequest(m)
      BY <1>3, <2>1 DEF Cancel
    <3> QED
      BY <1>0, <1>3, <3>1, SendRequestFacts
  <2>2. CASE c \in uninitialized
    BY <1>0, <2>2 DEF Cancel, TypeOK
  <2> QED
    BY <2>1, <2>2
<1>5. TypeOK'
  BY <1>0, <1>2, <1>4 DEF TypeOK, server, history
<1>6. IdsAreUnique' /\ KeepsIds
  BY <1>0, <1>2, SameIds DEF TypeOK
<1>7. ClientIds' /\ ServerIds'
  BY <1>0, <1>2 DEF server, IdInv, ClientIds, ServerIds, HasId, TypeOK
<1>8. Genuine(m)'
  BY <1>2, <1>3 DEF Genuine
<1>9. MessagesAreGenuine'
  BY <1>2, <1>4, <1>6, <1>8, MessagesKept DEF server
<1> QED
  BY <1>5, <1>6, <1>7, <1>9 DEF IdInv

LEMMA AddFirstListenerId == ASSUME IdInv, NEW e \in Events, AddFirstListener(e) PROVE IdInv'
<1> USE RequestSets
<1> DEFINE i == IF id[e] = -1 THEN lastRequestId ELSE id[e]
<1>0. TypeOK /\ e \in Requests /\ ~isDisposed /\ (~HasId(e) => e \notin Used)
  BY DEF IdInv, AddFirstListener, Used, HasId
<1>1. /\ i \in Ids /\ i \in Nat /\ lastRequestId \in Nat
      /\ ~HasId(e) => /\ i = lastRequestId /\ lastRequestId + 1 \in 0..Cardinality(Requests)
                      /\ Cardinality(Used \cup {e}) = Cardinality(Used) + 1 /\ Cardinality(Used) \in Nat
      /\ HasId(e) => i = id[e]
  <2>1. CASE HasId(e)
    <3>1. i = id[e] /\ id[e] \in Ids
      BY <1>0, <2>1 DEF HasId, TypeOK
    <3>2. lastRequestId \in 0..Cardinality(Requests) /\ Cardinality(Requests) \in Nat
      BY <1>0, FiniteRequests DEF TypeOK
    <3>3. lastRequestId \in Nat
      BY <3>2
    <3> HIDE DEF i
    <3>4. i \in Ids /\ i \in Nat
      BY <3>1
    <3> QED
      BY <2>1, <3>1, <3>3, <3>4, Zenon
  <2>2. CASE ~HasId(e)
    BY <1>0, <2>2, NewId DEF HasId
  <2> QED
    BY <2>1, <2>2
<1>2. /\ id' = [id EXCEPT ![e] = i]
      /\ handlers' = [handlers EXCEPT ![i] = e]
      /\ lastRequestId' = IF HasId(e) THEN lastRequestId ELSE lastRequestId + 1
      /\ active' \subseteq active \cup {e} /\ uninitialized' \subseteq uninitialized \cup {e}
      /\ listening' = listening \cup {e} /\ listens' = [listens EXCEPT ![e] = @ + 1] /\ listens[e] < MaxListens
      /\ UNCHANGED <<state, isDisposed, due, outcome, answer, toClient, server, history>>
  BY DEF AddFirstListener, NextId, HasId
<1>3. PICK m \in RequestMessages :
         m = Request("EventListen", i, e) /\ m.type = "EventListen" /\ m.id = i /\ m.name = e
  BY <1>0, <1>1, MessageFacts
<1>4. toServer' \in Seq(RequestMessages) /\ Elements(toServer') \subseteq Elements(toServer) \cup {m}
  <2>1. CASE state = "Idle"
    <3>1. SendRequest(m)
      BY <1>3, <2>1 DEF AddFirstListener
    <3> QED
      BY <1>0, <3>1, SendRequestFacts
  <2>2. CASE state # "Idle"
    BY <1>0, <2>2 DEF AddFirstListener, TypeOK
  <2> QED
    BY <2>1, <2>2
<1> HIDE DEF i
<1>5. KeepsIds /\ id'[e] = i /\ \A r \in Requests : r # e => id'[r] = id[r]
  BY <1>0, <1>1, <1>2 DEF KeepsIds, TypeOK, HasId
<1>6. TypeOK'
  <2>1. handlers' \in [Ids -> Requests \cup {None}] /\ uninitialized' \subseteq Requests /\ active' \subseteq Requests
    BY <1>0, <1>1, <1>2 DEF TypeOK
  <2>2. id' \in [Requests -> Ids \cup {-1}] /\ lastRequestId' \in 0..Cardinality(Requests)
    BY <1>0, <1>1, <1>2 DEF TypeOK
  <2>3. listens' \in [Events -> 0..MaxListens] /\ listening' \subseteq Events
    BY <1>0, <1>2, IpcBounds DEF TypeOK
  <2> QED
    BY <1>0, <1>2, <1>4, <2>1, <2>2, <2>3 DEF TypeOK, server, history
<1>7. \A r \in Requests : HasId(r) \/ r = e => HasId(r)'
  BY <1>1, <1>5 DEF HasId, KeepsIds
<1>8. IdsAreUnique'
  <2>1. \A r \in Requests : id[r] \in Int /\ id[r] < lastRequestId
    BY <1>0 DEF IdInv, IdsAreUnique, TypeOK, Ids
  <2>2. lastRequestId' <= Cardinality(Used')
    <3>1. CASE HasId(e)
      <4>1. Used' = Used
        BY <1>1, <1>2, <1>5, <3>1 DEF Used, HasId
      <4> QED
        BY <1>2, <3>1, <4>1 DEF IdInv, IdsAreUnique
    <3>2. CASE ~HasId(e)
      <4>1. Used' = Used \cup {e}
        BY <1>1, <1>2, <1>5, <3>2 DEF Used, HasId
      <4> QED
        BY <1>1, <1>2, <3>2, <4>1 DEF IdInv, IdsAreUnique
    <3> QED
      BY <3>1, <3>2
  <2>3. \A r \in Requests : id'[r] < lastRequestId'
    BY <1>1, <1>2, <1>5, <2>1 DEF HasId
  <2>4. \A r, s \in Requests : HasId(r)' /\ id'[r] = id'[s] => r = s
    BY <1>1, <1>2, <1>5, <2>1 DEF IdInv, IdsAreUnique, HasId
  <2>5. \A d \in Calls : outcome'[d] = "none" => ~HasId(d)'
    BY <1>0, <1>2, <1>5 DEF IdInv, IdsAreUnique, HasId
  <2> QED
    BY <2>2, <2>3, <2>4, <2>5 DEF IdsAreUnique
<1>9. ClientIds'
  <2>1. \A r \in active' \cup uninitialized' \cup due' \cup listening' : HasId(r)'
    BY <1>0, <1>2, <1>7 DEF IdInv, ClientIds, TypeOK
  <2>2. \A d \in Calls : outcome'[d] = "pending" => HasId(d)'
    BY <1>2, <1>7 DEF IdInv, ClientIds
  <2>3. ASSUME NEW j \in Ids, handlers'[j] # None PROVE id'[handlers'[j]] = j
    <3>1. CASE j = i
      BY <1>0, <1>1, <1>2, <1>5, <3>1 DEF TypeOK
    <3>2. CASE j # i
      <4>1. handlers'[j] = handlers[j] /\ handlers[j] \in Requests /\ id[handlers[j]] = j
        BY <1>0, <1>1, <1>2, <2>3, <3>2 DEF TypeOK, IdInv, ClientIds
      <4> QED
        BY <1>5, <4>1 DEF KeepsIds, HasId
    <3> QED
      BY <3>1, <3>2
  <2> QED
    BY <2>1, <2>2, <2>3 DEF ClientIds
<1>10. ServerIds'
  BY <1>0, <1>2, <1>5, <1>7 DEF server, IdInv, ServerIds, KeepsIds, HasId, TypeOK
<1>11. Genuine(m)'
  BY <1>3, <1>5 DEF Genuine
<1>12. MessagesAreGenuine'
  BY <1>2, <1>4, <1>5, <1>11, MessagesKept DEF server
<1> QED
  BY <1>6, <1>8, <1>9, <1>10, <1>12 DEF IdInv

LEMMA RemoveLastListenerId == ASSUME IdInv, NEW e \in Events, RemoveLastListener(e) PROVE IdInv'
<1> USE RequestSets
<1>0. TypeOK /\ e \in Requests /\ e \in listening /\ id[e] \in Ids
  BY DEF IdInv, ClientIds, RemoveLastListener, TypeOK, HasId
<1>2. /\ listening' = listening \ {e} /\ active' \subseteq active /\ uninitialized' = uninitialized \ {e}
      /\ UNCHANGED <<state, isDisposed, lastRequestId, id, handlers, due, outcome, answer, listens,
                     toClient, server, history>>
  BY DEF RemoveLastListener
<1>3. PICK m \in RequestMessages :
         m = Request("EventDispose", id[e], e) /\ m.type = "EventDispose" /\ m.id = id[e] /\ m.name = e
  BY <1>0, NewRequest
<1>4. toServer' \in Seq(RequestMessages) /\ Elements(toServer') \subseteq Elements(toServer) \cup {m}
  <2>1. CASE e \notin uninitialized
    <3>1. SendRequest(m)
      BY <1>3, <2>1 DEF RemoveLastListener
    <3> QED
      BY <1>0, <3>1, SendRequestFacts
  <2>2. CASE e \in uninitialized
    BY <1>0, <2>2 DEF RemoveLastListener, TypeOK
  <2> QED
    BY <2>1, <2>2
<1>5. TypeOK'
  BY <1>0, <1>2, <1>4 DEF TypeOK, server, history
<1>6. IdsAreUnique' /\ KeepsIds
  BY <1>2, SameIds
<1>7. ClientIds' /\ ServerIds'
  BY <1>0, <1>2 DEF server, IdInv, ClientIds, ServerIds, HasId, TypeOK
<1>8. Genuine(m)'
  BY <1>2, <1>3 DEF Genuine
<1>9. MessagesAreGenuine'
  BY <1>2, <1>4, <1>6, <1>8, MessagesKept DEF server
<1> QED
  BY <1>5, <1>6, <1>7, <1>9 DEF IdInv

LEMMA InitializedId == ASSUME IdInv, NEW r \in Requests, Initialized(r) PROVE IdInv'
<1>0. TypeOK
  BY DEF IdInv
<1>1. TypeOK'
  BY <1>0 DEF TypeOK, Initialized, server, history
<1>2. IdsAreUnique' /\ KeepsIds
  BY SameIds DEF Initialized
<1>3. ClientIds' /\ ServerIds'
  BY DEF Initialized, server, IdInv, ClientIds, ServerIds, HasId
<1>4. MessagesAreGenuine'
  BY <1>2, MessagesKept DEF Initialized, server
<1> QED
  BY <1>1, <1>2, <1>3, <1>4 DEF IdInv

LEMMA DoRequestId == ASSUME IdInv, NEW r \in Requests, DoRequest(r) PROVE IdInv'
<1> USE RequestSets
<1>0. TypeOK /\ r \in due /\ id[r] \in Ids /\ HasId(r)
  BY DEF IdInv, ClientIds, DoRequest, TypeOK, HasId
<1>2. /\ due' = due \ {r} /\ uninitialized' = uninitialized \ {r}
      /\ handlers' = [handlers EXCEPT ![id[r]] = r] /\ active' \subseteq active \cup {r}
      /\ sentLate' \subseteq sentLate \cup {r}
      /\ UNCHANGED <<state, isDisposed, lastRequestId, id, outcome, answer, listening, listens,
                     toClient, server, fires, heard, missed>>
  BY DEF DoRequest
<1> DEFINE t == IF r \in Calls THEN "Promise" ELSE "EventListen"
<1>3. PICK m \in RequestMessages : m = Request(t, id[r], r) /\ m.type = t /\ m.id = id[r] /\ m.name = r
  <2>1. t \in {"Promise", "PromiseCancel", "EventListen", "EventDispose"}
    OBVIOUS
  <2> HIDE DEF t
  <2> QED
    BY <1>0, <2>1, NewRequest
<1>4. SendRequest(m)
  BY <1>3 DEF DoRequest
<1>5. toServer' \in Seq(RequestMessages) /\ Elements(toServer') \subseteq Elements(toServer) \cup {m}
  BY <1>0, <1>4, SendRequestFacts
<1>6. TypeOK'
  <2>1. handlers' \in [Ids -> Requests \cup {None}] /\ active' \subseteq Requests /\ sentLate' \subseteq Requests
    BY <1>0, <1>2 DEF TypeOK
  <2> QED
    BY <1>0, <1>2, <1>5, <2>1 DEF TypeOK, server
<1>7. IdsAreUnique' /\ KeepsIds
  BY <1>2, SameIds
<1>8. ClientIds'
  <2>1. \A i \in Ids : handlers'[i] # None => id[handlers'[i]] = i
    BY <1>0, <1>2 DEF IdInv, ClientIds, TypeOK
  <2> QED
    BY <1>0, <1>2, <2>1 DEF IdInv, ClientIds, HasId
<1>9. ServerIds'
  BY <1>2 DEF server, IdInv, ServerIds, HasId
<1>10. Genuine(m)'
  BY <1>0, <1>2, <1>3 DEF Genuine
<1>11. MessagesAreGenuine'
  BY <1>2, <1>5, <1>7, <1>10, MessagesKept DEF server
<1> QED
  BY <1>6, <1>7, <1>8, <1>9, <1>11 DEF IdInv

LEMMA FireId == ASSUME IdInv, NEW e \in Events, Fire(e) PROVE IdInv'
<1> USE RequestSets
<1>0. TypeOK /\ e \in Requests /\ subs[e] > 0 /\ fires[e] < MaxFires /\ fires[e] \in Nat /\ subs[e] \in Nat
      /\ HasId(e) /\ id[e] \in Ids /\ id[e] \in Nat /\ fires[e] + 1 \in Nat
  <2>1. TypeOK /\ e \in Requests /\ subs[e] > 0 /\ fires[e] < MaxFires
    BY DEF IdInv, Fire
  <2>2. subs[e] \in Nat /\ fires[e] \in 0..MaxFires
    BY <2>1 DEF TypeOK
  <2>3. HasId(e) /\ id[e] \in Ids
    BY <2>1 DEF IdInv, ServerIds, TypeOK, HasId
  <2>4. fires[e] \in Nat /\ fires[e] + 1 \in Nat
    BY <2>2
  <2>5. id[e] \in Nat
    BY <2>3
  <2> QED
    BY <2>1, <2>2, <2>3, <2>4, <2>5, Zenon
<1>1. UNCHANGED <<client, toServer, server, heard, sentLate, missed>> /\ fires' = [fires EXCEPT ![e] = @ + 1]
  BY DEF Fire
<1>2. PICK m \in ResponseMessages :
         m = Response("EventFire", id[e], fires[e] + 1) /\ m.type = "EventFire" /\ m.id = id[e] /\ m.data = fires[e] + 1
  BY <1>0, NewResponse
<1>3. PICK ms \in Seq(ResponseMessages) : SendResponses(ms) /\ Elements(ms) \subseteq {m}
  <2> DEFINE s == [k \in 1..subs[e] |-> m]
  <2>1. s \in Seq(ResponseMessages) /\ Elements(s) \subseteq {m}
    BY <1>0 DEF Elements
  <2>2. SendResponses(s)
    BY <1>2 DEF Fire
  <2> HIDE DEF s
  <2> QED
    BY <2>1, <2>2
<1>4. toClient' \in Seq(ResponseMessages) /\ Elements(toClient') \subseteq Elements(toClient) \cup {m}
  BY <1>0, <1>3, SendResponsesFacts
<1>5. TypeOK'
  <2>1. fires' \in [Events -> 0..MaxFires]
    BY <1>0, <1>1, IpcBounds DEF TypeOK
  <2> QED
    BY <1>0, <1>1, <1>4, <2>1 DEF TypeOK, client, server
<1>6. IdsAreUnique' /\ KeepsIds
  BY <1>1, SameIds DEF client
<1>7. ClientIds' /\ ServerIds'
  BY <1>1 DEF client, server, IdInv, ClientIds, ServerIds, HasId
<1>8. GenuineResponse(m)'
  BY <1>0, <1>1, <1>2 DEF GenuineResponse, IsAnswer, HasId, client
<1>9. MessagesAreGenuine'
  BY <1>1, <1>4, <1>6, <1>8, MessagesKept DEF client, server
<1> QED
  BY <1>5, <1>6, <1>7, <1>9 DEF IdInv

LEMMA ReceiveInitializeId == ASSUME IdInv, ReceiveInitialize PROVE IdInv'
<1>0. TypeOK /\ toClient # <<>> /\ toClient \in Seq(ResponseMessages)
  BY DEF IdInv, TypeOK, ReceiveInitialize
<1>1. toClient' \in Seq(ResponseMessages) /\ Elements(toClient') \subseteq Elements(toClient)
  BY <1>0, TailFacts DEF ReceiveInitialize
<1>2. TypeOK'
  BY <1>0, <1>1 DEF TypeOK, ReceiveInitialize, server, history
<1>3. IdsAreUnique' /\ KeepsIds
  BY SameIds DEF ReceiveInitialize
<1>4. ClientIds' /\ ServerIds'
  BY DEF ReceiveInitialize, server, IdInv, ClientIds, ServerIds, HasId
<1>5. MessagesAreGenuine'
  BY <1>1, <1>3, MessagesKept DEF ReceiveInitialize, server
<1> QED
  BY <1>2, <1>3, <1>4, <1>5 DEF IdInv

\* What a response does, by the request whose handler it finds.
LEMMA ResponseFacts ==
    ASSUME IdInv, ReceiveResponse
    PROVE  \E m \in ResponseMessages, r \in Requests \cup {None} :
              /\ toClient # <<>> /\ ~isDisposed /\ m = Head(toClient) /\ m \in Elements(toClient) /\ m.type # "Initialize"
              /\ m.id \in Ids /\ r = handlers[m.id] /\ (r # None => id[r] = m.id)
              /\ toClient' = Tail(toClient)
              /\ UNCHANGED <<state, isDisposed, lastRequestId, id, uninitialized, due, listening, listens,
                             toServer, server, fires, sentLate, missed>>
              /\ ~(r \in Calls /\ IsAnswer(m)) => UNCHANGED <<handlers, outcome, answer, active>>
              /\ r \in Calls /\ IsAnswer(m) => Settle(r, m) /\ m.data = r
              /\ r \notin listening => heard' = heard
              /\ r \in listening => heard' = [heard EXCEPT ![r] = Append(@, m.data)] /\ m.type = "EventFire" /\ m.data \in Nat
<1> USE RequestSets
<1>0. TypeOK /\ toClient # <<>> /\ ~isDisposed /\ toClient \in Seq(ResponseMessages) /\ Head(toClient).type # "Initialize"
  BY DEF IdInv, TypeOK, ReceiveResponse
<1>1. PICK m \in ResponseMessages : m = Head(toClient) /\ m \in Elements(toClient) /\ m.type # "Initialize"
  BY <1>0, TailFacts
<1>2. GenuineResponse(m) /\ m.id \in Nat /\ (IsAnswer(m) \/ m.type = "EventFire") /\ (IsAnswer(m) <=> m.type # "EventFire")
  BY <1>1, MessageFacts DEF IdInv, MessagesAreGenuine, IsAnswer
<1>3. PICK q \in Requests : id[q] = m.id /\ (IsAnswer(m) => q = m.data /\ q \in Calls)
                            /\ (~IsAnswer(m) => q \in Events /\ m.data \in Nat)
  BY <1>2 DEF GenuineResponse
<1>4. m.id \in Ids
  BY <1>0, <1>2, <1>3 DEF TypeOK
<1>5. PICK r \in Requests \cup {None} : r = handlers[m.id] /\ (r # None => id[r] = m.id)
  BY <1>0, <1>4 DEF TypeOK, IdInv, ClientIds
<1>6. r # None => r = q
  BY <1>3, <1>4, <1>5 DEF IdInv, IdsAreUnique, HasId
<1>7. /\ ~(r \in Calls /\ IsAnswer(m)) => UNCHANGED <<handlers, outcome, answer, active>>
      /\ r \in Calls /\ IsAnswer(m) => Settle(r, m)
      /\ heard' = IF r \in listening THEN [heard EXCEPT ![r] = Append(@, m.data)] ELSE heard
      /\ toClient' = Tail(toClient)
      /\ UNCHANGED <<state, isDisposed, lastRequestId, id, uninitialized, due, listening, listens,
                     toServer, server, fires, sentLate, missed>>
  BY <1>1, <1>2, <1>5, Zenon DEF ReceiveResponse
<1>8. r \in Calls /\ IsAnswer(m) => m.data = r
  BY <1>3, <1>6
<1>9. r \in listening => m.type = "EventFire" /\ m.data \in Nat
  BY <1>0, <1>2, <1>3, <1>6 DEF TypeOK
<1> QED
  BY <1>0, <1>1, <1>4, <1>5, <1>7, <1>8, <1>9

\* What the handler of requestPromise does.
LEMMA SettleFacts ==
    ASSUME TypeOK, NEW c \in Calls, NEW m \in ResponseMessages, m.id \in Ids, Settle(c, m), m.data = c
    PROVE  /\ handlers' \in [Ids -> Requests \cup {None}]
           /\ handlers'[m.id] = None /\ \A i \in Ids : i # m.id => handlers'[i] = handlers[i]
           /\ outcome' \in [Calls -> {"none", "pending", "ok", "error", "cancelled"}]
           /\ \A d \in Calls : d # c => outcome'[d] = outcome[d] /\ answer'[d] = answer[d]
           /\ outcome[c] # "pending" => UNCHANGED <<outcome, answer, active>>
           /\ outcome[c] = "pending" => outcome'[c] \in {"ok", "error"} /\ answer'[c] = c /\ active' = active \ {c}
           /\ answer' \in [Calls -> Calls \cup {None}]
           /\ active' \subseteq active /\ active' \in SUBSET Requests
<1>1. handlers' = [handlers EXCEPT ![m.id] = None]
  BY DEF Settle
<1>2. /\ handlers' \in [Ids -> Requests \cup {None}]
      /\ handlers'[m.id] = None /\ \A i \in Ids : i # m.id => handlers'[i] = handlers[i]
  BY <1>1 DEF TypeOK
<1>3. CASE outcome[c] = "pending"
  <2>1. PICK o \in {"ok", "error"} : outcome' = [outcome EXCEPT ![c] = o]
    BY <1>3 DEF Settle
  <2>2. answer' = [answer EXCEPT ![c] = c] /\ active' = active \ {c}
    BY <1>3 DEF Settle
  <2> QED
    BY <1>2, <1>3, <2>1, <2>2 DEF TypeOK
<1>4. CASE outcome[c] # "pending"
  <2>1. UNCHANGED <<outcome, answer, active>>
    BY <1>4 DEF Settle
  <2> QED
    BY <1>2, <1>4, <2>1 DEF TypeOK
<1> QED
  BY <1>3, <1>4

LEMMA ReceiveResponseId == ASSUME IdInv, ReceiveResponse PROVE IdInv'
<1> USE RequestSets
<1>0. TypeOK /\ toClient \in Seq(ResponseMessages)
  BY DEF IdInv, TypeOK
<1>1. PICK m \in ResponseMessages, r \in Requests \cup {None} :
              /\ toClient # <<>> /\ ~isDisposed /\ m = Head(toClient) /\ m \in Elements(toClient) /\ m.type # "Initialize"
              /\ m.id \in Ids /\ r = handlers[m.id] /\ (r # None => id[r] = m.id)
              /\ toClient' = Tail(toClient)
              /\ UNCHANGED <<state, isDisposed, lastRequestId, id, uninitialized, due, listening, listens,
                             toServer, server, fires, sentLate, missed>>
              /\ ~(r \in Calls /\ IsAnswer(m)) => UNCHANGED <<handlers, outcome, answer, active>>
              /\ r \in Calls /\ IsAnswer(m) => Settle(r, m) /\ m.data = r
              /\ r \notin listening => heard' = heard
              /\ r \in listening => heard' = [heard EXCEPT ![r] = Append(@, m.data)] /\ m.type = "EventFire" /\ m.data \in Nat
  BY ResponseFacts
<1>2. toClient' \in Seq(ResponseMessages) /\ Elements(toClient') \subseteq Elements(toClient)
  BY <1>0, <1>1, TailFacts
<1>3. heard' \in [Events -> Seq(Nat)]
  <2>1. CASE r \in listening
    <3>1. r \in Events /\ heard[r] \in Seq(Nat) /\ Append(heard[r], m.data) \in Seq(Nat)
      <4>1. r \in Events /\ heard[r] \in Seq(Nat)
        BY <1>0, <2>1 DEF TypeOK
      <4>2. m.data \in Nat
        BY <1>1, <2>1
      <4> QED
        BY <4>1, <4>2, AppendFacts, Zenon
    <3>2. PICK h \in Seq(Nat) : h = Append(heard[r], m.data)
      BY <3>1
    <3>3. heard' = [heard EXCEPT ![r] = h]
      BY <1>1, <2>1, <3>2
    <3> QED
      BY <1>0, <3>1, <3>2, <3>3 DEF TypeOK
  <2>2. CASE r \notin listening
    BY <1>0, <1>1, <2>2 DEF TypeOK
  <2> QED
    BY <2>1, <2>2
<1>4. /\ handlers' \in [Ids -> Requests \cup {None}] /\ \A i \in Ids : handlers'[i] = handlers[i] \/ handlers'[i] = None
      /\ outcome' \in [Calls -> {"none", "pending", "ok", "error", "cancelled"}]
      /\ \A d \in Calls : outcome'[d] = outcome[d] \/ (outcome[d] = "pending" /\ outcome'[d] \in {"ok", "error"})
      /\ answer' \in [Calls -> Calls \cup {None}] /\ active' \subseteq active
  <2>1. CASE r \in Calls /\ IsAnswer(m)
    BY <1>0, <1>1, <2>1, SettleFacts
  <2>2. CASE ~(r \in Calls /\ IsAnswer(m))
    BY <1>0, <1>1, <2>2 DEF TypeOK
  <2> QED
    BY <2>1, <2>2
<1>5. TypeOK'
  BY <1>0, <1>1, <1>2, <1>3, <1>4 DEF TypeOK, server
<1>6. IdsAreUnique' /\ KeepsIds
  BY <1>1, <1>4, SameIds
<1>7. ClientIds' /\ ServerIds'
  BY <1>1, <1>4 DEF server, IdInv, ClientIds, ServerIds, HasId
<1>8. MessagesAreGenuine'
  BY <1>1, <1>2, <1>6, MessagesKept DEF server
<1> QED
  BY <1>5, <1>6, <1>7, <1>8 DEF IdInv

\* What dispose sends: the cancellations and the ends of subscriptions of
\* all requests that were sent, in some order.
LEMMA FarewellFacts ==
    ASSUME IdInv, DisposeClient
    PROVE  \E s \in Seq(RequestMessages) :
              /\ toServer' = toServer \o s
              /\ \A m \in Elements(s) : m.name \in active \ uninitialized /\ m.id = id[m.name]
                    /\ m.type = (IF m.name \in Calls THEN "PromiseCancel" ELSE "EventDispose")
<1> DEFINE R == active \ uninitialized
           far(r) == Request(IF r \in Calls THEN "PromiseCancel" ELSE "EventDispose", id[r], r)
           F == {far(r) : r \in R}
<1>1. ASSUME NEW r \in R
      PROVE  /\ far(r) \in RequestMessages /\ far(r).name = r /\ far(r).id = id[r]
             /\ far(r).type = (IF r \in Calls THEN "PromiseCancel" ELSE "EventDispose")
  <2>1. r \in Requests /\ id[r] \in Ids
    BY DEF IdInv, TypeOK, ClientIds, HasId
  <2>2. CASE r \in Calls
    BY <2>1, <2>2, MessageFacts
  <2>3. CASE r \notin Calls
    BY <2>1, <2>3, MessageFacts
  <2> QED
    BY <2>2, <2>3
<1>2. PICK s \in SetToSeqs(F) : toServer' = toServer \o s
  BY DEF DisposeClient
<1>3. IsFiniteSet(R) /\ R \subseteq Requests
  BY FiniteRequests DEF IdInv, TypeOK
<1>4. IsFiniteSet(F) /\ Cardinality(F) \in Nat
  <2>1. IsFiniteSet(F)
    <3>1. [r \in R |-> far(r)] \in Surjection(R, F)
      BY DEF Surjection
    <3> HIDE DEF R, far, F
    <3> QED
      BY <1>3, <3>1, FS_Surjection
  <2> HIDE DEF F
  <2> QED
    BY <2>1, FS_CardinalityType
<1>5. s \in [1..Cardinality(F) -> F]
  BY <1>2 DEF SetToSeqs
<1>6. F \subseteq RequestMessages
  BY <1>1
<1>7. s \in Seq(RequestMessages) /\ Elements(s) \subseteq F
  <2> HIDE DEF F
  <2>1. s \in Seq(F) /\ Len(s) = Cardinality(F)
    BY <1>4, <1>5
  <2> QED
    BY <1>4, <1>5, <1>6, <2>1 DEF Elements
<1>8. \A m \in F : m.name \in active \ uninitialized /\ m.id = id[m.name]
                   /\ m.type = (IF m.name \in Calls THEN "PromiseCancel" ELSE "EventDispose")
  BY <1>1
<1> QED
  BY <1>2, <1>7, <1>8

LEMMA DisposeClientId == ASSUME IdInv, DisposeClient PROVE IdInv'
<1> USE RequestSets
<1>0. TypeOK /\ toServer \in Seq(RequestMessages)
  BY DEF IdInv, TypeOK
<1>1. /\ isDisposed' = TRUE /\ active' = {} /\ toClient' = <<>>
      /\ outcome' = [c \in Calls |-> IF c \in active THEN "cancelled" ELSE outcome[c]]
      /\ listening' = listening \ active /\ uninitialized' = uninitialized \ active
      /\ UNCHANGED <<state, lastRequestId, id, handlers, due, answer, listens, server, history>>
  BY DEF DisposeClient
<1>2. PICK s \in Seq(RequestMessages) :
         /\ toServer' = toServer \o s
         /\ \A m \in Elements(s) : m.name \in active \ uninitialized /\ m.id = id[m.name]
               /\ m.type = (IF m.name \in Calls THEN "PromiseCancel" ELSE "EventDispose")
  BY FarewellFacts
<1>3. toServer' \in Seq(RequestMessages) /\ Elements(toServer') = Elements(toServer) \cup Elements(s)
  BY <1>0, <1>2, ConcatFacts
<1>4. TypeOK'
  <2>1. <<>> \in Seq(ResponseMessages)
    OBVIOUS
  <2>2. outcome' \in [Calls -> {"none", "pending", "ok", "error", "cancelled"}]
    BY <1>0, <1>1 DEF TypeOK
  <2> QED
    BY <1>0, <1>1, <1>3, <2>1, <2>2 DEF TypeOK, server, history
<1>5. IdsAreUnique' /\ KeepsIds
  <2>1. \A c \in Calls : outcome'[c] = "none" <=> outcome[c] = "none"
    BY <1>0, <1>1 DEF IdInv, IdsAreUnique, ClientIds
  <2> QED
    BY <1>1, <2>1, SameIds
<1>6. ClientIds' /\ ServerIds'
  BY <1>0, <1>1 DEF server, IdInv, ClientIds, ServerIds, HasId, TypeOK
<1>7. \A m \in Elements(s) : Genuine(m)'
  BY <1>0, <1>1, <1>2 DEF Genuine, TypeOK
<1>8. Elements(toClient') = {}
  BY <1>1, ElementsFacts
<1>9. MessagesAreGenuine'
  BY <1>1, <1>3, <1>5, <1>7, <1>8, MessagesKept DEF server
<1> QED
  BY <1>4, <1>5, <1>6, <1>9 DEF IdInv

\* Requests that are genuine keep the server's state in order.
LEMMA StartIds ==
    ASSUME IdInv, UNCHANGED <<id>>, NEW reqs \in Seq(RequestMessages), Start(reqs),
           \A m \in Elements(reqs) : Genuine(m) /\ m.type \in {"Promise", "EventListen"}
    PROVE  /\ ServerIds'
           /\ running' = running \cup {m \in Elements(reqs) : m.type = "Promise"} /\ running' \subseteq RequestMessages
           /\ subs' \in [Events -> Nat] /\ serverActive' \in [Ids -> Requests \cup {None}]
<1> USE RequestSets
<1>0. TypeOK /\ \A k \in 1..Len(reqs) : reqs[k] \in RequestMessages /\ reqs[k] \in Elements(reqs)
                   /\ reqs[k].name \in Requests /\ reqs[k].id \in Ids
  BY ElementsFacts, MessageFacts DEF IdInv
<1>1. /\ running' = running \cup {m \in Elements(reqs) : m.type = "Promise"}
      /\ subs' \in [Events -> Nat] /\ serverActive' \in [Ids -> Requests \cup {None}]
      /\ \A e \in Events :
            /\ subs'[e] >= subs[e]
            /\ (\A k \in 1..Len(reqs) : reqs[k].name # e \/ reqs[k].type # "EventListen") => subs'[e] = subs[e]
            /\ \A k \in 1..Len(reqs) : reqs[k].name = e /\ reqs[k].type = "EventListen" => subs'[e] > 0
  BY <1>0, StartFacts
<1>2. ASSUME NEW e \in Events
      PROVE  /\ subs'[e] >= subs[e] /\ subs[e] \in Nat /\ subs'[e] \in Nat
             /\ (\A k \in 1..Len(reqs) : reqs[k].name # e \/ reqs[k].type # "EventListen") => subs'[e] = subs[e]
             /\ \A k \in 1..Len(reqs) : reqs[k].name = e /\ reqs[k].type = "EventListen" => subs'[e] > 0
  <2>1. subs[e] \in Nat /\ subs'[e] \in Nat
    BY <1>0, <1>1 DEF TypeOK
  <2>2. /\ subs'[e] >= subs[e]
        /\ (\A k \in 1..Len(reqs) : reqs[k].name # e \/ reqs[k].type # "EventListen") => subs'[e] = subs[e]
        /\ \A k \in 1..Len(reqs) : reqs[k].name = e /\ reqs[k].type = "EventListen" => subs'[e] > 0
    BY <1>1
  <2> QED
    BY <2>1, <2>2
<1>3. ASSUME NEW i \in Ids
      PROVE  \/ serverActive'[i] = serverActive[i]
             \/ \E k \in 1..Len(reqs) : reqs[k].id = i /\ serverActive'[i] = reqs[k].name
  BY <1>0, StartFacts
<1>4. ASSUME NEW k \in 1..Len(reqs)
      PROVE  /\ HasId(reqs[k].name) /\ id[reqs[k].name] = reqs[k].id
             /\ reqs[k].name \in Events => reqs[k].type = "EventListen"
  <2>1. Genuine(reqs[k]) /\ reqs[k].type \in {"Promise", "EventListen"} /\ reqs[k].id # -1
    BY <1>0
  <2>2. id[reqs[k].name] = reqs[k].id /\ (reqs[k].type = "Promise" => reqs[k].name \in Calls)
    BY <2>1 DEF Genuine
  <2> QED
    BY <2>1, <2>2 DEF HasId
<1>5. ASSUME NEW e \in Events, subs'[e] > 0 PROVE HasId(e)'
  <2>1. CASE \E k \in 1..Len(reqs) : reqs[k].name = e
    BY <1>4, <2>1 DEF HasId
  <2>2. CASE ~\E k \in 1..Len(reqs) : reqs[k].name = e
    BY <1>2, <1>5, <2>2 DEF IdInv, ServerIds, HasId
  <2> QED
    BY <2>1, <2>2
<1>6. ASSUME NEW i \in Ids, serverActive'[i] # None
      PROVE  id'[serverActive'[i]] = i /\ (serverActive'[i] \in Events => subs'[serverActive'[i]] > 0)
  <2>1. CASE serverActive'[i] = serverActive[i]
    <3>1. id[serverActive[i]] = i /\ (serverActive[i] \in Events => subs[serverActive[i]] > 0)
      BY <1>6, <2>1 DEF IdInv, ServerIds
    <3> QED
      BY <1>2, <2>1, <3>1
  <2>2. CASE \E k \in 1..Len(reqs) : reqs[k].id = i /\ serverActive'[i] = reqs[k].name
    BY <1>2, <1>4, <2>2
  <2> QED
    BY <1>3, <2>1, <2>2
<1>7. running' \subseteq RequestMessages
  BY <1>0, <1>1, ElementsFacts DEF TypeOK
<1>8. ServerIds'
  BY <1>5, <1>6 DEF ServerIds
<1> QED
  BY <1>1, <1>7, <1>8

LEMMA OneRequest ==
    ASSUME NEW m \in RequestMessages
    PROVE  <<m>> \in Seq(RequestMessages) /\ Elements(<<m>>) = {m} /\ Len(<<m>>) = 1 /\ <<m>>[1] = m
  BY DEF Elements

LEMMA ReceiveRequestId == ASSUME IdInv, ReceiveRequest PROVE IdInv'
<1>0. TypeOK /\ toServer # <<>> /\ toServer \in Seq(RequestMessages) /\ pending \in Seq(PendingRequests)
  BY DEF IdInv, TypeOK, ReceiveRequest
<1>1. PICK m \in RequestMessages : m = Head(toServer) /\ m \in Elements(toServer) /\ m.type \in {"Promise", "EventListen"}
  BY <1>0, TailFacts DEF ReceiveRequest
<1>2. Genuine(m)
  BY <1>1 DEF IdInv, MessagesAreGenuine
<1>3. UNCHANGED <<client, toClient, registered, flushDue, cancelled, serverDisposed, fires, heard, sentLate, missed>>
      /\ id' = id /\ lastRequestId' = lastRequestId /\ outcome' = outcome
  BY DEF ReceiveRequest, client
<1>4. toServer' \in Seq(RequestMessages) /\ Elements(toServer') \subseteq Elements(toServer)
  BY <1>0, TailFacts DEF ReceiveRequest
<1>5. IdsAreUnique' /\ KeepsIds
  BY <1>3, SameIds
<1>6. ClientIds'
  BY <1>3 DEF client, IdInv, ClientIds, HasId
<1>7. Genuine(m)'
  BY <1>2, <1>3 DEF Genuine
<1>8. CASE registered
  <2>1. Start(<<m>>) /\ pending' = pending
    BY <1>1, <1>8 DEF ReceiveRequest
  <2>2. /\ ServerIds' /\ running' = running \cup {x \in {m} : x.type = "Promise"} /\ running' \subseteq RequestMessages
        /\ subs' \in [Events -> Nat] /\ serverActive' \in [Ids -> Requests \cup {None}]
    <3>1. PICK reqs \in Seq(RequestMessages) : reqs = <<m>> /\ Elements(reqs) = {m}
      BY OneRequest
    <3> QED
      BY <1>1, <1>2, <1>3, <2>1, <3>1, StartIds
  <2>3. TypeOK'
    BY <1>0, <1>3, <1>4, <2>1, <2>2 DEF TypeOK, client
  <2>4. MessagesAreGenuine'
    BY <1>3, <1>4, <1>5, <1>7, <2>1, <2>2, MessagesKept
  <2> QED
    BY <1>5, <1>6, <2>2, <2>3, <2>4 DEF IdInv
<1>9. CASE ~registered
  <2>1. PICK p \in PendingRequests : p = [request |-> m, timer |-> TRUE] /\ p.request = m
    BY NewPending
  <2>2. pending' = Append(pending, p) /\ UNCHANGED <<running, subs, serverActive>>
    BY <1>1, <1>9, <2>1 DEF ReceiveRequest
  <2>3. pending' \in Seq(PendingRequests) /\ Elements(pending') = Elements(pending) \cup {p}
    BY <1>0, <2>2, AppendFacts
  <2>4. TypeOK'
    BY <1>0, <1>3, <1>4, <2>2, <2>3 DEF TypeOK, client
  <2>5. MessagesAreGenuine'
    BY <1>1, <1>3, <1>4, <1>5, <1>7, <2>1, <2>2, <2>3, MessagesKept
  <2>6. ServerIds'
    BY <1>3, <2>2 DEF IdInv, ServerIds, HasId
  <2> QED
    BY <1>5, <1>6, <2>4, <2>5, <2>6 DEF IdInv
<1> QED
  BY <1>8, <1>9

\* What disposeActiveRequest does.
LEMMA DisposeFacts ==
    ASSUME IdInv, ReceiveDispose
    PROVE  \E m \in RequestMessages, r \in Requests \cup {None} :
              /\ toServer # <<>> /\ ~serverDisposed /\ m = Head(toServer) /\ m \in Elements(toServer)
              /\ m.type \in {"PromiseCancel", "EventDispose"} /\ Genuine(m) /\ m.name \in Requests /\ m.id \in Ids
              /\ r = serverActive[m.id] /\ (r # None => r = m.name)
              /\ toServer' = Tail(toServer)
              /\ serverActive' = [serverActive EXCEPT ![m.id] = None]
              /\ cancelled' = cancelled \cup (Calls \cap {r})
              /\ subs' = [e \in Events |-> IF e = r THEN subs[e] - 1 ELSE subs[e]]
              /\ r \in Events => subs[r] \in Nat /\ subs[r] > 0
              /\ missed' = missed \cup {x \in Requests : \E k \in DOMAIN pending :
                                          pending[k].request.name = x /\ x = m.name}
              /\ UNCHANGED <<client, toClient, registered, flushDue, pending, running, serverDisposed,
                             fires, heard, sentLate>>
<1>0. TypeOK /\ toServer # <<>> /\ toServer \in Seq(RequestMessages)
  BY DEF IdInv, TypeOK, ReceiveDispose
<1>1. PICK m \in RequestMessages : m = Head(toServer) /\ m \in Elements(toServer) /\ m.type \in {"PromiseCancel", "EventDispose"}
  BY <1>0, TailFacts DEF ReceiveDispose
<1>2. Genuine(m) /\ m.name \in Requests /\ m.id \in Ids
  BY <1>1, MessageFacts DEF IdInv, MessagesAreGenuine
<1>3. PICK r \in Requests \cup {None} : r = serverActive[m.id]
  BY <1>0, <1>2 DEF TypeOK
<1>4. r # None => r = m.name
  <2> SUFFICES ASSUME r # None PROVE r = m.name
    OBVIOUS
  <2>1. id[r] = m.id /\ id[m.name] = m.id /\ m.id # -1
    BY <1>2, <1>3, RequestSets DEF IdInv, ServerIds, Genuine
  <2> QED
    BY <1>2, <1>3, <2>1 DEF IdInv, IdsAreUnique, HasId
<1>5. r \in Events => subs[r] \in Nat /\ subs[r] > 0
  BY <1>0, <1>2, <1>3, RequestSets DEF TypeOK, IdInv, ServerIds
<1> QED
  BY <1>0, <1>1, <1>2, <1>3, <1>4, <1>5, Zenon DEF ReceiveDispose

LEMMA ReceiveDisposeId == ASSUME IdInv, ReceiveDispose PROVE IdInv'
<1> USE RequestSets
<1>0. TypeOK /\ toServer \in Seq(RequestMessages)
  BY DEF IdInv, TypeOK
<1>1. PICK m \in RequestMessages, r \in Requests \cup {None} :
              /\ toServer # <<>> /\ ~serverDisposed /\ m = Head(toServer) /\ m \in Elements(toServer)
              /\ m.type \in {"PromiseCancel", "EventDispose"} /\ Genuine(m) /\ m.name \in Requests /\ m.id \in Ids
              /\ r = serverActive[m.id] /\ (r # None => r = m.name)
              /\ toServer' = Tail(toServer)
              /\ serverActive' = [serverActive EXCEPT ![m.id] = None]
              /\ cancelled' = cancelled \cup (Calls \cap {r})
              /\ subs' = [e \in Events |-> IF e = r THEN subs[e] - 1 ELSE subs[e]]
              /\ r \in Events => subs[r] \in Nat /\ subs[r] > 0
              /\ missed' = missed \cup {x \in Requests : \E k \in DOMAIN pending :
                                          pending[k].request.name = x /\ x = m.name}
              /\ UNCHANGED <<client, toClient, registered, flushDue, pending, running, serverDisposed,
                             fires, heard, sentLate>>
  BY DisposeFacts
<1>2. toServer' \in Seq(RequestMessages) /\ Elements(toServer') \subseteq Elements(toServer)
  BY <1>0, <1>1, TailFacts
<1>3. id' = id /\ lastRequestId' = lastRequestId /\ outcome' = outcome
  BY <1>1 DEF client
<1>4. \A e \in Events : subs[e] \in Nat /\ subs'[e] \in Nat /\ (e # r => subs'[e] = subs[e]) /\ subs'[e] <= subs[e]
  BY <1>0, <1>1 DEF TypeOK
<1>5. subs' \in [Events -> Nat] /\ serverActive' \in [Ids -> Requests \cup {None}]
  BY <1>0, <1>1, <1>4 DEF TypeOK
<1>6. TypeOK'
  BY <1>0, <1>1, <1>2, <1>5 DEF TypeOK, client
<1>7. IdsAreUnique' /\ KeepsIds
  BY <1>3, SameIds
<1>8. ClientIds'
  BY <1>1 DEF client, IdInv, ClientIds, HasId
<1>9. ServerIds'
  <2>1. \A e \in Events : subs'[e] > 0 => HasId(e)'
    BY <1>3, <1>4 DEF IdInv, ServerIds, HasId
  <2>2. ASSUME NEW i \in Ids, serverActive'[i] # None
        PROVE  id'[serverActive'[i]] = i /\ (serverActive'[i] \in Events => subs'[serverActive'[i]] > 0)
    <3>1. i # m.id /\ serverActive'[i] = serverActive[i]
      BY <1>0, <1>1, <2>2 DEF TypeOK
    <3>2. id[serverActive[i]] = i /\ (serverActive[i] \in Events => subs[serverActive[i]] > 0)
      BY <2>2, <3>1 DEF IdInv, ServerIds
    <3>3. serverActive[i] = r => FALSE
      BY <1>1, <2>2, <3>1, <3>2 DEF IdInv, ServerIds
    <3> QED
      BY <1>3, <1>4, <3>1, <3>2, <3>3
  <2> QED
    BY <2>1, <2>2 DEF ServerIds
<1>10. MessagesAreGenuine'
  BY <1>1, <1>2, <1>7, MessagesKept
<1> QED
  BY <1>6, <1>7, <1>8, <1>9, <1>10 DEF IdInv

LEMMA FinishFacts ==
    ASSUME IdInv, NEW x \in running, NEW t \in {"PromiseSuccess", "PromiseError"}, Finish(x, t)
    PROVE  \E m \in ResponseMessages :
              /\ m.type = t /\ IsAnswer(m) /\ m.id = x.id /\ m.data = x.name
              /\ SendResponses(<<m>>)
              /\ x \in RequestMessages /\ x.name \in Calls /\ x.id \in Ids /\ x.id = id[x.name] /\ x.type = "Promise"
<1>0. x \in RequestMessages /\ Genuine(x) /\ x.type = "Promise"
  BY DEF IdInv, MessagesAreGenuine, TypeOK
<1>1. x.name \in Calls /\ x.id \in Ids /\ x.id = id[x.name] /\ x.name \in Nat /\ x.id \in Nat
  BY <1>0, MessageFacts, RequestSets DEF Genuine
<1>2. PICK m \in ResponseMessages : m = Response(t, x.id, x.name) /\ m.type = t /\ m.id = x.id /\ m.data = x.name
  BY <1>1, NewResponse
<1> QED
  BY <1>0, <1>1, <1>2 DEF Finish, IsAnswer

LEMMA FinishId ==
    ASSUME IdInv, NEW x \in running, NEW t \in {"PromiseSuccess", "PromiseError"}, Finish(x, t)
    PROVE  IdInv'
<1> USE RequestSets
<1>0. TypeOK
  BY DEF IdInv
<1>1. PICK m \in ResponseMessages :
         /\ m.type = t /\ IsAnswer(m) /\ m.id = x.id /\ m.data = x.name
         /\ SendResponses(<<m>>)
         /\ x \in RequestMessages /\ x.name \in Calls /\ x.id \in Ids /\ x.id = id[x.name] /\ x.type = "Promise"
  BY FinishFacts
<1>2. /\ running' = running \ {x} /\ serverActive' = [serverActive EXCEPT ![x.id] = None]
      /\ cancelled' = cancelled \cup {x.name}
      /\ UNCHANGED <<client, toServer, registered, flushDue, pending, subs, serverDisposed, history>>
  BY DEF Finish
<1>3. toClient' \in Seq(ResponseMessages) /\ Elements(toClient') \subseteq Elements(toClient) \cup {m}
  BY <1>0, <1>1, OneResponse, SendResponsesFacts
<1>4. id' = id /\ lastRequestId' = lastRequestId /\ outcome' = outcome
  BY <1>2 DEF client
<1>5. serverActive' \in [Ids -> Requests \cup {None}]
      /\ \A i \in Ids : serverActive'[i] = serverActive[i] \/ serverActive'[i] = None
  BY <1>0, <1>1, <1>2 DEF TypeOK
<1>6. TypeOK'
  BY <1>0, <1>1, <1>2, <1>3, <1>5 DEF TypeOK, client, history
<1>7. IdsAreUnique' /\ KeepsIds
  BY <1>4, SameIds
<1>8. ClientIds' /\ ServerIds'
  BY <1>2, <1>5 DEF client, IdInv, ClientIds, ServerIds, HasId
<1>9. GenuineResponse(m)'
  BY <1>1, <1>4 DEF GenuineResponse, IsAnswer
<1>10. MessagesAreGenuine'
  BY <1>2, <1>3, <1>7, <1>9, MessagesKept
<1> QED
  BY <1>6, <1>7, <1>8, <1>10 DEF IdInv

LEMMA RegisterChannelId == ASSUME IdInv, RegisterChannel PROVE IdInv'
<1>1. TypeOK'
  BY DEF IdInv, TypeOK, RegisterChannel, client, history
<1>2. IdsAreUnique' /\ KeepsIds
  BY SameIds DEF RegisterChannel, client
<1>3. ClientIds' /\ ServerIds'
  BY DEF RegisterChannel, client, IdInv, ClientIds, ServerIds, HasId
<1>4. MessagesAreGenuine'
  BY <1>2, MessagesKept DEF RegisterChannel, client
<1> QED
  BY <1>1, <1>2, <1>3, <1>4 DEF IdInv

\* The requests that waited for their channel.
LEMMA WaitingFacts ==
    ASSUME IdInv, NEW reqs, reqs = [k \in DOMAIN pending |-> pending[k].request]
    PROVE  /\ reqs \in Seq(RequestMessages) /\ Len(reqs) = Len(pending)
           /\ \A k \in 1..Len(pending) : reqs[k] = pending[k].request /\ reqs[k] \in Elements(reqs)
           /\ \A m \in Elements(reqs) : \E p \in Elements(pending) : m = p.request
           /\ \A m \in Elements(reqs) : Genuine(m) /\ m.type \in {"Promise", "EventListen"}
<1>1. /\ Len(pending) \in Nat /\ DOMAIN pending = 1..Len(pending)
      /\ \A k \in 1..Len(pending) : pending[k] \in PendingRequests /\ pending[k] \in Elements(pending)
                                    /\ pending[k].request \in RequestMessages
  BY ElementsFacts, MessageFacts DEF IdInv, TypeOK
<1>2. reqs \in Seq(RequestMessages) /\ Len(reqs) = Len(pending)
  BY <1>1
<1>3. \A k \in 1..Len(pending) : reqs[k] = pending[k].request /\ reqs[k] \in Elements(reqs)
  BY <1>1, <1>2 DEF Elements
<1>4. \A m \in Elements(reqs) : \E p \in Elements(pending) : m = p.request
  BY <1>1, <1>2, <1>3 DEF Elements
<1>5. \A m \in Elements(reqs) : Genuine(m) /\ m.type \in {"Promise", "EventListen"}
  BY <1>4 DEF IdInv, MessagesAreGenuine
<1> QED
  BY <1>2, <1>3, <1>4, <1>5

LEMMA FlushPendingRequestsId == ASSUME IdInv, FlushPendingRequests PROVE IdInv'
<1>0. TypeOK
  BY DEF IdInv
<1>1. PICK reqs : reqs = [k \in DOMAIN pending |-> pending[k].request]
  OBVIOUS
<1>2. /\ reqs \in Seq(RequestMessages)
      /\ \A m \in Elements(reqs) : Genuine(m) /\ m.type \in {"Promise", "EventListen"}
  BY <1>1, WaitingFacts
<1>3. /\ Start(reqs) /\ flushDue' = FALSE /\ pending' = <<>>
      /\ UNCHANGED <<client, toServer, toClient, registered, cancelled, serverDisposed, fires, heard, sentLate, missed>>
      /\ id' = id /\ lastRequestId' = lastRequestId /\ outcome' = outcome
  BY <1>1 DEF FlushPendingRequests, client
<1>4. /\ ServerIds' /\ running' = running \cup {m \in Elements(reqs) : m.type = "Promise"}
      /\ running' \subseteq RequestMessages
      /\ subs' \in [Events -> Nat] /\ serverActive' \in [Ids -> Requests \cup {None}]
  BY <1>2, <1>3, StartIds
<1>5. Elements(pending') = {} /\ pending' \in Seq(PendingRequests)
  BY <1>3, EmptyFacts
<1>6. TypeOK'
  BY <1>0, <1>3, <1>4, <1>5 DEF TypeOK, client
<1>7. IdsAreUnique' /\ KeepsIds
  BY <1>3, SameIds
<1>8. ClientIds'
  BY <1>3 DEF client, IdInv, ClientIds, HasId
<1>9. \A m \in Elements(reqs) : Genuine(m)'
  BY <1>2, <1>3 DEF Genuine
<1>10. MessagesAreGenuine'
  BY <1>3, <1>4, <1>5, <1>7, <1>9, MessagesKept
<1> QED
  BY <1>4, <1>6, <1>7, <1>8, <1>10 DEF IdInv

LEMMA TimeoutFacts ==
    ASSUME IdInv, NEW k \in DOMAIN pending, PendingTimeout(k)
    PROVE  \E m \in RequestMessages :
              /\ k \in 1..Len(pending) /\ m = pending[k].request /\ pending[k] \in Elements(pending)
              /\ Genuine(m) /\ m.type \in {"Promise", "EventListen"} /\ m.id \in Ids /\ m.name \in Requests
              /\ pending' \in Seq(PendingRequests) /\ Len(pending') = Len(pending)
              /\ \A j \in 1..Len(pending) : pending'[j].request = pending[j].request
              /\ \A p \in Elements(pending') : \E q \in Elements(pending) : p.request = q.request
              /\ \A q \in Elements(pending) : \E p \in Elements(pending') : p.request = q.request
<1>1. /\ pending \in Seq(PendingRequests) /\ Len(pending) \in Nat /\ DOMAIN pending = 1..Len(pending)
      /\ \A j \in 1..Len(pending) : pending[j] \in PendingRequests /\ pending[j] \in Elements(pending)
  BY ElementsFacts DEF IdInv, TypeOK
<1>2. PICK m \in RequestMessages : m = pending[k].request /\ m.id \in Ids /\ m.name \in Requests
  BY <1>1, MessageFacts
<1>3. Genuine(m) /\ m.type \in {"Promise", "EventListen"}
  BY <1>1, <1>2 DEF IdInv, MessagesAreGenuine
<1>4. PICK p \in PendingRequests : p = TimedOut(pending[k]) /\ p.request = pending[k].request
  BY <1>1, MessageFacts
<1>5. pending' = [pending EXCEPT ![k] = p]
  BY <1>4 DEF PendingTimeout
<1>6. /\ pending' \in Seq(PendingRequests) /\ Len(pending') = Len(pending)
      /\ pending'[k] = p /\ \A j \in 1..Len(pending) : j # k => pending'[j] = pending[j]
  BY <1>1, <1>5
<1>7. \A j \in 1..Len(pending) : pending'[j].request = pending[j].request
  BY <1>4, <1>6
<1>8. \A q \in Elements(pending') : \E r \in Elements(pending) : q.request = r.request
  BY <1>6, <1>7 DEF Elements
<1>9. \A r \in Elements(pending) : \E q \in Elements(pending') : q.request = r.request
  BY <1>6, <1>7 DEF Elements
<1> QED
  BY <1>1, <1>2, <1>3, <1>6, <1>7, <1>8, <1>9

LEMMA PendingTimeoutId == ASSUME IdInv, NEW k \in DOMAIN pending, PendingTimeout(k) PROVE IdInv'
<1> USE RequestSets
<1>0. TypeOK
  BY DEF IdInv
<1>1. PICK m \in RequestMessages :
              /\ k \in 1..Len(pending) /\ m = pending[k].request /\ pending[k] \in Elements(pending)
              /\ Genuine(m) /\ m.type \in {"Promise", "EventListen"} /\ m.id \in Ids /\ m.name \in Requests
              /\ pending' \in Seq(PendingRequests) /\ Len(pending') = Len(pending)
              /\ \A j \in 1..Len(pending) : pending'[j].request = pending[j].request
              /\ \A p \in Elements(pending') : \E q \in Elements(pending) : p.request = q.request
  BY TimeoutFacts
<1>2. UNCHANGED <<client, toServer, registered, flushDue, serverActive, running, cancelled, subs,
                  serverDisposed, fires, heard, sentLate, missed>>
      /\ id' = id /\ lastRequestId' = lastRequestId /\ outcome' = outcome
  BY DEF PendingTimeout, client
<1>3. toClient' \in Seq(ResponseMessages)
      /\ \A x \in Elements(toClient') : x \in Elements(toClient) \/ GenuineResponse(x)'
  <2>1. CASE m.type = "Promise"
    <3>1. m.name \in Calls /\ m.id = id[m.name] /\ m.name \in Nat /\ m.id \in Nat
      BY <1>1, <2>1 DEF Genuine
    <3>2. PICK x \in ResponseMessages :
             x = Response("PromiseError", m.id, m.name) /\ x.type = "PromiseError" /\ x.id = m.id /\ x.data = m.name
      BY <3>1, NewResponse
    <3>3. SendResponses(<<x>>)
      BY <1>1, <2>1, <3>2 DEF PendingTimeout
    <3>4. GenuineResponse(x)'
      <4>1. x.data \in Calls /\ x.id = id'[x.data] /\ x.type # "EventFire"
        BY <1>2, <3>1, <3>2
      <4> QED
        BY <4>1 DEF GenuineResponse
    <3>5. toClient' \in Seq(ResponseMessages) /\ Elements(toClient') \subseteq Elements(toClient) \cup {x}
      BY <1>0, <3>3, OneResponse, SendResponsesFacts
    <3> QED
      BY <3>4, <3>5
  <2>2. CASE m.type # "Promise"
    BY <1>0, <1>1, <2>2 DEF PendingTimeout, TypeOK
  <2> QED
    BY <2>1, <2>2
<1>4. TypeOK'
  BY <1>0, <1>1, <1>2, <1>3 DEF TypeOK, client
<1>5. IdsAreUnique' /\ KeepsIds
  BY <1>2, SameIds
<1>6. ClientIds' /\ ServerIds'
  BY <1>2 DEF client, IdInv, ClientIds, ServerIds, HasId
<1>7. \A p \in Elements(pending') : Genuine(p.request)' /\ p.request.type \in {"Promise", "EventListen"}
  BY <1>1, <1>2 DEF IdInv, MessagesAreGenuine, Genuine
<1>8. MessagesAreGenuine'
  BY <1>2, <1>3, <1>5, <1>7, MessagesKept
<1> QED
  BY <1>4, <1>5, <1>6, <1>8 DEF IdInv

LEMMA DisposeServerId == ASSUME IdInv, DisposeServer PROVE IdInv'
<1> USE RequestSets
<1>0. TypeOK
  BY DEF IdInv
<1>1. /\ serverDisposed' = TRUE
      /\ cancelled' = cancelled \cup {c \in Calls : \E i \in Ids : serverActive[i] = c}
      /\ subs' = [e \in Events |-> subs[e] - Cardinality({i \in Ids : serverActive[i] = e})]
      /\ serverActive' = [i \in Ids |-> None]
      /\ UNCHANGED <<client, toServer, toClient, registered, flushDue, pending, running, history>>
      /\ id' = id /\ lastRequestId' = lastRequestId /\ outcome' = outcome
  BY DEF DisposeServer, client
<1>2. ASSUME NEW e \in Events PROVE subs'[e] \in Nat /\ subs'[e] <= subs[e] /\ subs[e] \in Nat
  <2> DEFINE D == {i \in Ids : serverActive[i] = e}
  <2>1. subs[e] \in Nat /\ subs'[e] = subs[e] - Cardinality(D)
    BY <1>0, <1>1 DEF TypeOK
  <2>2. CASE D = {}
    <3> HIDE DEF D
    <3>1. Cardinality(D) = 0
      BY <2>2, FS_EmptySet
    <3> QED
      BY <2>1, <3>1
  <2>3. CASE D # {}
    <3>1. D = {id[e]} /\ subs[e] > 0
      <4>1. \A i \in D : id[e] = i /\ subs[e] > 0
        BY DEF IdInv, ServerIds
      <4> HIDE DEF D
      <4> QED
        BY <2>3, <4>1
    <3> HIDE DEF D
    <3>2. Cardinality(D) = 1
      BY <3>1, FS_Singleton
    <3> QED
      BY <2>1, <3>1, <3>2
  <2> QED
    BY <2>2, <2>3
<1>3. subs' \in [Events -> Nat]
  BY <1>1, <1>2
<1>4. TypeOK'
  BY <1>0, <1>1, <1>3 DEF TypeOK, client, history
<1>5. IdsAreUnique' /\ KeepsIds
  BY <1>1, SameIds
<1>6. ClientIds'
  BY <1>1 DEF client, IdInv, ClientIds, HasId
<1>7. ServerIds'
  BY <1>1, <1>2 DEF IdInv, ServerIds, HasId
<1>8. MessagesAreGenuine'
  BY <1>1, <1>5, MessagesKept
<1> QED
  BY <1>4, <1>5, <1>6, <1>7, <1>8 DEF IdInv

-----------------------------------------------------------------------------

LEMMA InitId == Init => IdInv
<1> SUFFICES ASSUME Init PROVE IdInv
  OBVIOUS
<1> USE RequestSets
<1>1. toClient \in Seq(ResponseMessages) /\ Elements(toClient) = {[type |-> "Initialize", id |-> 0, data |-> None]}
  <2>1. [type |-> "Initialize", id |-> 0, data |-> None] \in ResponseMessages
    BY DEF ResponseMessages
  <2> QED
    BY <2>1, OneResponse DEF Init
<1>2. Elements(toServer) = {} /\ Elements(pending) = {} /\ toServer \in Seq(RequestMessages) /\ pending \in Seq(PendingRequests)
  BY EmptyFacts DEF Init
<1>3. Cardinality(Requests) \in Nat /\ Used = {} /\ Cardinality(Used) = 0
  <2>1. Used = {}
    BY DEF Init, Used
  <2> QED
    BY <2>1, FiniteRequests, FS_EmptySet
<1>4. TypeOK
  <2>1. 0 \in 0..Cardinality(Requests) /\ 0 \in 0..MaxListens /\ 0 \in 0..MaxFires
    BY <1>3, IpcBounds
  <2>2. /\ id \in [Requests -> Ids \cup {-1}] /\ handlers \in [Ids -> Requests \cup {None}]
        /\ outcome \in [Calls -> {"none", "pending", "ok", "error", "cancelled"}]
        /\ answer \in [Calls -> Calls \cup {None}] /\ listens \in [Events -> 0..MaxListens]
        /\ serverActive \in [Ids -> Requests \cup {None}] /\ subs \in [Events -> Nat]
        /\ fires \in [Events -> 0..MaxFires]
    BY <2>1 DEF Init
  <2>3. heard \in [Events -> Seq(Nat)]
    BY EmptyFacts DEF Init
  <2> QED
    BY <1>1, <1>2, <2>1, <2>2, <2>3 DEF Init, TypeOK
<1>5. IdsAreUnique /\ ClientIds /\ ServerIds
  BY <1>3 DEF Init, IdsAreUnique, ClientIds, ServerIds, HasId
<1>6. MessagesAreGenuine
  BY <1>1, <1>2 DEF Init, MessagesAreGenuine, GenuineResponse, IsAnswer
<1> QED
  BY <1>4, <1>5, <1>6 DEF IdInv

LEMMA StutterId == ASSUME IdInv, UNCHANGED vars PROVE IdInv'
<1> USE DEF vars, client, server, history
<1>1. TypeOK' /\ IdsAreUnique' /\ ClientIds' /\ ServerIds'
  BY DEF IdInv, TypeOK, IdsAreUnique, ClientIds, ServerIds, HasId, Used
<1>2. MessagesAreGenuine'
  BY DEF IdInv, MessagesAreGenuine, Genuine, GenuineResponse, HasId
<1> QED
  BY <1>1, <1>2 DEF IdInv

\* No two requests share an id, and everything that carries an id, on either
\* side or on its way, belongs to the request that was given it.
THEOREM IdsTellRequests == Spec => []IdInv
<1>1. IdInv /\ [Next]_vars => IdInv'
  <2> SUFFICES ASSUME IdInv, [Next]_vars PROVE IdInv'
    OBVIOUS
  <2>1. CASE \E c \in Calls : Call(c) \/ CallRejected(c) \/ Cancel(c)
    BY <2>1, CallId, CallRejectedId, CancelId
  <2>2. CASE \E e \in Events : AddFirstListener(e) \/ RemoveLastListener(e) \/ Fire(e)
    BY <2>2, AddFirstListenerId, RemoveLastListenerId, FireId
  <2>3. CASE \E r \in Requests : Initialized(r) \/ DoRequest(r)
    BY <2>3, InitializedId, DoRequestId
  <2>4. CASE ReceiveInitialize \/ ReceiveResponse \/ DisposeClient
    BY <2>4, ReceiveInitializeId, ReceiveResponseId, DisposeClientId
  <2>5. CASE ReceiveRequest \/ ReceiveDispose
    BY <2>5, ReceiveRequestId, ReceiveDisposeId
  <2>6. CASE \E x \in running, type \in {"PromiseSuccess", "PromiseError"} : Finish(x, type)
    BY <2>6, FinishId
  <2>7. CASE RegisterChannel \/ FlushPendingRequests \/ DisposeServer
    BY <2>7, RegisterChannelId, FlushPendingRequestsId, DisposeServerId
  <2>8. CASE \E k \in DOMAIN pending : PendingTimeout(k)
    BY <2>8, PendingTimeoutId
  <2>9. CASE UNCHANGED vars
    BY <2>9, StutterId
  <2> QED
    BY <2>1, <2>2, <2>3, <2>4, <2>5, <2>6, <2>7, <2>8, <2>9, Zenon DEF Next
<1> QED
  BY InitId, <1>1, PTL DEF Spec

-----------------------------------------------------------------------------
(* Calls *)

\* The Promise message of a call, which does not change.
LEMMA PromiseFacts ==
    ASSUME IdInv, KeepsIds, NEW c \in Calls, HasId(c)
    PROVE  \E m \in RequestMessages :
              /\ m = PromiseOf(c) /\ m = PromiseOf(c)' /\ m.type = "Promise" /\ m.id = id[c] /\ m.name = c
              /\ id[c] \in Ids /\ id'[c] = id[c]
<1>1. c \in Requests /\ id[c] \in Ids /\ id'[c] = id[c]
  BY RequestSets DEF IdInv, TypeOK, HasId, KeepsIds
<1>2. PICK m \in RequestMessages : m = Request("Promise", id[c], c) /\ m.type = "Promise" /\ m.id = id[c] /\ m.name = c
  BY <1>1, NewRequest
<1> QED
  BY <1>1, <1>2 DEF PromiseOf

LEMMA PromiseIs ==
    ASSUME NEW m \in RequestMessages, Genuine(m), m.type = "Promise"
    PROVE  m = PromiseOf(m.name) /\ m.name \in Calls /\ m.id = id[m.name] /\ m.id \in Ids
<1>1. m = Request(m.type, m.id, m.name) /\ m.id \in Ids
  BY MessageFacts
<1>2. m.id = id[m.name] /\ m.name \in Calls
  BY DEF Genuine
<1> QED
  BY <1>1, <1>2 DEF PromiseOf

\* Handlers that stay, or came with their request, will get their answers.
LEMMA AwaitedRule ==
    ASSUME CallInv, KeepsIds, isDisposed' = isDisposed,
           ~isDisposed => \A i \in Ids, c \in Calls : handlers'[i] = c =>
              handlers[i] = c \/ PromiseOf(c)' \in Elements(toServer'),
           \A m \in RequestMessages : ~isDisposed /\ Flies(m) /\ m.type = "Promise" /\ m.name \in Calls
                 /\ handlers[m.id] = m.name /\ handlers'[m.id] = m.name => Flies(m)'
    PROVE  Awaited'
<1> SUFFICES ASSUME ~isDisposed, NEW i \in Ids, NEW c \in Calls, handlers'[i] = c
             PROVE  Flies(PromiseOf(c))'
  BY DEF Awaited
<1>0. IdInv
  BY DEF CallInv
<1>2. CASE handlers[i] = c
  <2>1. id[c] = i /\ HasId(c) /\ Flies(PromiseOf(c))
    BY <1>2, RequestSets DEF CallInv, IdInv, ClientIds, HasId, Awaited
  <2>2. PICK m \in RequestMessages : m = PromiseOf(c) /\ m = PromiseOf(c)' /\ m.type = "Promise" /\ m.id = i /\ m.name = c
    BY <1>0, <2>1, PromiseFacts
  <2>3. Flies(m)'
    BY <1>2, <2>1, <2>2
  <2> QED
    BY <2>2, <2>3 DEF Flies
<1>3. CASE PromiseOf(c)' \in Elements(toServer')
  BY <1>3 DEF Flies
<1> QED
  BY <1>2, <1>3

\* What the server runs it keeps running.
LEMMA ServedRule ==
    ASSUME CallInv, KeepsIds,
           \A i \in Ids, c \in Calls : serverActive'[i] = c =>
              serverActive[i] = c \/ PromiseOf(c)' \in running',
           \A m \in running : serverActive'[m.id] = m.name => m \in running'
    PROVE  ServedCalls'
<1> SUFFICES ASSUME NEW i \in Ids, NEW c \in Calls, serverActive'[i] = c PROVE PromiseOf(c)' \in running'
  BY DEF ServedCalls
<1>0. IdInv
  BY DEF CallInv
<1>1. CASE serverActive[i] = c
  <2>1. id[c] = i /\ HasId(c) /\ PromiseOf(c) \in running
    BY <1>1, RequestSets DEF CallInv, IdInv, ServerIds, HasId, ServedCalls
  <2>2. PICK m \in RequestMessages : m = PromiseOf(c) /\ m = PromiseOf(c)' /\ m.type = "Promise" /\ m.id = i /\ m.name = c
    BY <1>0, <2>1, PromiseFacts
  <2> QED
    BY <2>1, <2>2
<1> QED
  BY <1>1

LEMMA CallCalls == ASSUME CallInv, NEW c \in Calls, Call(c) PROVE CallInv'
<1> USE RequestSets
<1>0. IdInv /\ TypeOK /\ c \in Requests /\ outcome[c] = "none" /\ ~isDisposed /\ ~HasId(c) /\ c \notin Used
  BY DEF CallInv, IdInv, Call, IdsAreUnique, Used
<1>1. IdInv'
  BY <1>0, CallId
<1>2. lastRequestId \in Ids /\ lastRequestId \in Nat /\ \A r \in Requests : id[r] # lastRequestId
  <2>1. lastRequestId \in Ids /\ lastRequestId \in Nat
    BY <1>0, NewId
  <2>2. \A r \in Requests : id[r] < lastRequestId
    BY <1>0 DEF IdInv, IdsAreUnique
  <2> QED
    BY <2>1, <2>2
<1>3. /\ id' = [id EXCEPT ![c] = lastRequestId] /\ isDisposed' = isDisposed /\ answer' = answer
      /\ outcome' = [outcome EXCEPT ![c] = "pending"] /\ active' = active \cup {c}
      /\ UNCHANGED <<toClient, registered, flushDue, pending, serverActive, running>>
  BY DEF Call, server
<1>4. KeepsIds /\ id'[c] = lastRequestId
  BY <1>0, <1>2, <1>3 DEF KeepsIds, TypeOK
<1>5. PICK m \in RequestMessages :
         m = Request("Promise", lastRequestId, c) /\ m.type = "Promise" /\ m.id = lastRequestId /\ m.name = c
  BY <1>0, <1>2, NewRequest
<1>6. /\ Elements(toServer) \subseteq Elements(toServer') /\ uninitialized \subseteq uninitialized'
      /\ uninitialized' \subseteq uninitialized \cup {c}
      /\ \A i \in Ids : i # lastRequestId => handlers'[i] = handlers[i]
      /\ \/ c \in uninitialized' /\ handlers' = handlers
         \/ c \notin uninitialized' /\ handlers'[lastRequestId] = c /\ m \in Elements(toServer')
  <2>1. CASE state = "Idle"
    <3>1. SendRequest(m) /\ handlers' = [handlers EXCEPT ![lastRequestId] = c] /\ uninitialized' = uninitialized
      BY <1>5, <2>1 DEF Call
    <3>2. Elements(toServer) \subseteq Elements(toServer') /\ m \in Elements(toServer')
      BY <1>0, <3>1, SendRequestFacts
    <3>3. c \notin uninitialized
      BY <1>0 DEF IdInv, ClientIds
    <3> QED
      BY <1>0, <1>2, <3>1, <3>2, <3>3 DEF TypeOK
  <2>2. CASE state # "Idle"
    BY <2>2 DEF Call
  <2> QED
    BY <2>1, <2>2
<1>7. ActiveCalls'
  <2>1. \A d \in Calls : outcome'[d] = "pending" <=> d \in active'
    BY <1>0, <1>3 DEF CallInv, ActiveCalls, TypeOK
  <2>2. ASSUME NEW d \in Calls, d \in active' PROVE d \notin uninitialized' <=> handlers'[id'[d]] = d
    <3>1. CASE d = c
      <4>1. handlers[lastRequestId] # c
        BY <1>0, <1>2 DEF IdInv, ClientIds, HasId
      <4> QED
        BY <1>4, <1>6, <3>1, <4>1
    <3>2. CASE d # c
      <4>1. d \in active /\ HasId(d) /\ id[d] \in Ids
        BY <1>0, <1>3, <2>2, <3>2 DEF IdInv, ClientIds, TypeOK, HasId
      <4>2. id'[d] = id[d] /\ handlers'[id[d]] = handlers[id[d]]
        BY <1>2, <1>4, <1>6, <4>1 DEF KeepsIds
      <4> QED
        BY <1>6, <3>2, <4>1, <4>2 DEF CallInv, ActiveCalls
    <3> QED
      BY <3>1, <3>2
  <2> QED
    BY <1>0, <1>3, <1>6, <2>1, <2>2 DEF CallInv, ActiveCalls
<1>8. Awaited'
  <2>1. ASSUME NEW i \in Ids, NEW d \in Calls, handlers'[i] = d, handlers[i] # d
        PROVE  PromiseOf(d)' \in Elements(toServer')
    <3>1. i = lastRequestId /\ handlers'[lastRequestId] = c /\ m \in Elements(toServer')
      BY <1>6, <2>1
    <3>2. d = c /\ PromiseOf(d)' = m
      BY <1>4, <1>5, <2>1, <3>1 DEF PromiseOf
    <3> QED
      BY <3>1, <3>2
  <2>2. \A x \in RequestMessages : Flies(x) => Flies(x)'
    BY <1>3, <1>6 DEF Flies, IsAnswer
  <2> QED
    BY <1>3, <1>4, <2>1, <2>2, AwaitedRule
<1>9. ServedCalls'
  BY <1>3, <1>4, ServedRule
<1>10. OwnAnswer'
  BY <1>0, <1>3 DEF CallInv, OwnAnswer, TypeOK
<1> QED
  BY <1>1, <1>7, <1>8, <1>9, <1>10 DEF CallInv

LEMMA CallRejectedCalls == ASSUME CallInv, NEW c \in Calls, CallRejected(c) PROVE CallInv'
<1>0. IdInv /\ TypeOK /\ outcome[c] = "none"
  BY DEF CallInv, IdInv, CallRejected
<1>1. IdInv'
  BY <1>0, CallRejectedId
<1>2. /\ outcome' = [outcome EXCEPT ![c] = "cancelled"]
      /\ UNCHANGED <<isDisposed, id, handlers, active, uninitialized, answer, toServer, toClient,
                     pending, running, serverActive>>
  BY DEF CallRejected, server
<1>3. KeepsIds
  BY <1>2 DEF KeepsIds
<1>4. ActiveCalls' /\ OwnAnswer'
  BY <1>0, <1>2 DEF CallInv, ActiveCalls, OwnAnswer, TypeOK
<1>5. Awaited'
  BY <1>2, <1>3, AwaitedRule DEF Flies
<1>6. ServedCalls'
  BY <1>2, <1>3, ServedRule
<1> QED
  BY <1>1, <1>4, <1>5, <1>6 DEF CallInv

LEMMA CancelCalls == ASSUME CallInv, NEW c \in Calls, Cancel(c) PROVE CallInv'
<1>0. IdInv /\ TypeOK /\ outcome[c] = "pending" /\ c \in Requests /\ id[c] \in Ids
  BY RequestSets DEF CallInv, IdInv, Cancel, ClientIds, HasId, TypeOK
<1>1. IdInv'
  BY <1>0, CancelId
<1>2. /\ outcome' = [outcome EXCEPT ![c] = "cancelled"]
      /\ active' = active \ {c} /\ uninitialized' = uninitialized \ {c}
      /\ UNCHANGED <<isDisposed, id, handlers, answer, toClient, pending, running, serverActive>>
  BY DEF Cancel, server
<1>3. KeepsIds
  BY <1>2 DEF KeepsIds
<1>4. Elements(toServer) \subseteq Elements(toServer')
  <2>1. CASE c \in uninitialized
    BY <2>1 DEF Cancel
  <2>2. CASE c \notin uninitialized
    <3>1. PICK m \in RequestMessages : m = Request("PromiseCancel", id[c], c)
      BY <1>0, NewRequest
    <3>2. SendRequest(m)
      BY <2>2, <3>1 DEF Cancel
    <3> QED
      BY <1>0, <3>2, SendRequestFacts
  <2> QED
    BY <2>1, <2>2
<1>5. ActiveCalls' /\ OwnAnswer'
  BY <1>0, <1>2 DEF CallInv, ActiveCalls, OwnAnswer, TypeOK
<1>6. Awaited'
  BY <1>2, <1>3, <1>4, AwaitedRule DEF Flies
<1>7. ServedCalls'
  BY <1>2, <1>3, ServedRule
<1> QED
  BY <1>1, <1>5, <1>6, <1>7 DEF CallInv

LEMMA AddFirstListenerCalls == ASSUME CallInv, NEW e \in Events, AddFirstListener(e) PROVE CallInv'
<1> USE RequestSets
<1> DEFINE i == IF id[e] = -1 THEN lastRequestId ELSE id[e]
<1>0. IdInv /\ TypeOK /\ ~isDisposed /\ e \in Requests /\ (~HasId(e) => e \notin Used)
  BY DEF CallInv, IdInv, AddFirstListener, Used, HasId
<1>1. IdInv'
  BY <1>0, AddFirstListenerId
<1>2. /\ id' = [id EXCEPT ![e] = i] /\ handlers' = [handlers EXCEPT ![i] = e]
      /\ active \subseteq active' /\ uninitialized \subseteq uninitialized'
      /\ active' \subseteq active \cup {e} /\ uninitialized' \subseteq uninitialized \cup {e}
      /\ UNCHANGED <<isDisposed, outcome, answer, toClient, pending, running, serverActive>>
  BY DEF AddFirstListener, server
<1>3. i \in Ids /\ i = id'[e] /\ HasId(e)'
  <2>1. id'[e] = i
    BY <1>0, <1>2 DEF TypeOK
  <2>2. CASE HasId(e)
    BY <1>0, <2>1, <2>2 DEF HasId, TypeOK
  <2>3. CASE ~HasId(e)
    BY <1>0, <2>1, <2>3, NewId DEF HasId
  <2> QED
    BY <2>2, <2>3
<1>4. Elements(toServer) \subseteq Elements(toServer')
  <2>1. CASE state = "Idle"
    <3>1. PICK m \in RequestMessages : m = Request("EventListen", i, e)
      <4> HIDE DEF i
      <4> QED
        BY <1>0, <1>3, NewRequest
    <3>2. SendRequest(m)
      BY <2>1, <3>1 DEF AddFirstListener
    <3> QED
      BY <1>0, <3>2, SendRequestFacts
  <2>2. CASE state # "Idle"
    BY <2>2 DEF AddFirstListener
  <2> QED
    BY <2>1, <2>2
<1>5. KeepsIds
  BY <1>0, <1>2 DEF KeepsIds, HasId, TypeOK
<1> HIDE DEF i
<1>6. \A j \in Ids, d \in Calls : handlers'[j] = d => handlers[j] = d
  BY <1>0, <1>2, <1>3 DEF TypeOK
<1>7. ActiveCalls'
  <2>1. ASSUME NEW d \in Calls, d \in active' PROVE d \notin uninitialized' <=> handlers'[id'[d]] = d
    <3>1. d \in active /\ HasId(d) /\ id[d] \in Ids /\ id'[d] = id[d] /\ d # e
      BY <1>0, <1>2, <1>5, <2>1 DEF IdInv, ClientIds, TypeOK, HasId, KeepsIds
    <3>2. id[d] # i
      BY <1>0, <1>1, <1>3, <3>1 DEF IdInv, IdsAreUnique, HasId
    <3>3. handlers'[id[d]] = handlers[id[d]]
      BY <1>0, <1>2, <3>1, <3>2 DEF TypeOK
    <3> QED
      BY <1>2, <3>1, <3>3 DEF CallInv, ActiveCalls
  <2> QED
    BY <1>0, <1>2, <2>1 DEF CallInv, ActiveCalls
<1>8. Awaited'
  <2>1. \A x \in RequestMessages : Flies(x) => Flies(x)'
    BY <1>2, <1>4 DEF Flies, IsAnswer
  <2> QED
    BY <1>2, <1>5, <1>6, <2>1, AwaitedRule
<1>9. ServedCalls'
  BY <1>2, <1>5, ServedRule
<1>10. OwnAnswer'
  BY <1>2 DEF CallInv, OwnAnswer
<1> QED
  BY <1>1, <1>7, <1>8, <1>9, <1>10 DEF CallInv

LEMMA RemoveLastListenerCalls == ASSUME CallInv, NEW e \in Events, RemoveLastListener(e) PROVE CallInv'
<1> USE RequestSets
<1>0. IdInv /\ TypeOK /\ e \in Requests /\ id[e] \in Ids
  BY DEF CallInv, IdInv, RemoveLastListener, ClientIds, HasId, TypeOK
<1>1. IdInv'
  BY <1>0, RemoveLastListenerId
<1>2. /\ active' \subseteq active /\ active \subseteq active' \cup {e} /\ uninitialized' = uninitialized \ {e}
      /\ UNCHANGED <<isDisposed, id, handlers, outcome, answer, toClient, pending, running, serverActive>>
  BY DEF RemoveLastListener, server
<1>3. KeepsIds
  BY <1>2 DEF KeepsIds
<1>4. Elements(toServer) \subseteq Elements(toServer')
  <2>1. CASE e \in uninitialized
    BY <2>1 DEF RemoveLastListener
  <2>2. CASE e \notin uninitialized
    <3>1. PICK m \in RequestMessages : m = Request("EventDispose", id[e], e)
      BY <1>0, NewRequest
    <3>2. SendRequest(m)
      BY <2>2, <3>1 DEF RemoveLastListener
    <3> QED
      BY <1>0, <3>2, SendRequestFacts
  <2> QED
    BY <2>1, <2>2
<1>5. \A c \in Calls : (c \in active' <=> c \in active) /\ (c \in uninitialized' <=> c \in uninitialized)
  BY <1>2
<1>6. ActiveCalls' /\ OwnAnswer'
  BY <1>2, <1>5 DEF CallInv, ActiveCalls, OwnAnswer
<1>7. Awaited'
  BY <1>2, <1>3, <1>4, AwaitedRule DEF Flies
<1>8. ServedCalls'
  BY <1>2, <1>3, ServedRule
<1> QED
  BY <1>1, <1>6, <1>7, <1>8 DEF CallInv

LEMMA InitializedCalls == ASSUME CallInv, NEW r \in Requests, Initialized(r) PROVE CallInv'
<1>0. IdInv
  BY DEF CallInv
<1>1. IdInv'
  BY <1>0, InitializedId
<1>2. UNCHANGED <<isDisposed, id, handlers, active, uninitialized, outcome, answer, toServer, toClient,
                  pending, running, serverActive>> /\ KeepsIds
  BY DEF Initialized, server, KeepsIds
<1>3. ActiveCalls' /\ OwnAnswer' /\ Awaited' /\ ServedCalls'
  BY <1>2 DEF CallInv, ActiveCalls, OwnAnswer, Awaited, ServedCalls, Flies, PromiseOf
<1> QED
  BY <1>1, <1>3 DEF CallInv

LEMMA DoRequestCalls == ASSUME CallInv, NEW r \in Requests, DoRequest(r) PROVE CallInv'
<1> USE RequestSets
<1>0. IdInv /\ TypeOK /\ r \in due /\ id[r] \in Ids /\ HasId(r)
  BY DEF CallInv, IdInv, ClientIds, DoRequest, TypeOK, HasId
<1>1. IdInv'
  BY <1>0, DoRequestId
<1>2. /\ uninitialized' = uninitialized \ {r} /\ active' = active \cup (Events \cap {r})
      /\ handlers' = [handlers EXCEPT ![id[r]] = r]
      /\ UNCHANGED <<isDisposed, id, outcome, answer, toClient, pending, running, serverActive>> /\ KeepsIds
  BY DEF DoRequest, server, KeepsIds
<1> DEFINE t == IF r \in Calls THEN "Promise" ELSE "EventListen"
<1>3. PICK m \in RequestMessages : m = Request(t, id[r], r) /\ m.type = t /\ m.id = id[r] /\ m.name = r
  <2>1. t \in {"Promise", "PromiseCancel", "EventListen", "EventDispose"}
    OBVIOUS
  <2> HIDE DEF t
  <2> QED
    BY <1>0, <2>1, NewRequest
<1>4. SendRequest(m)
  BY <1>3 DEF DoRequest
<1>5. Elements(toServer) \subseteq Elements(toServer') /\ (~isDisposed => m \in Elements(toServer'))
  BY <1>0, <1>4, SendRequestFacts
<1>6. handlers'[id[r]] = r /\ \A i \in Ids : i # id[r] => handlers'[i] = handlers[i]
  BY <1>0, <1>2 DEF TypeOK
<1>7. ActiveCalls'
  <2>1. ASSUME NEW d \in Calls, d \in active' PROVE d \notin uninitialized' <=> handlers'[id'[d]] = d
    <3>1. CASE d = r
      BY <1>2, <1>6, <3>1
    <3>2. CASE d # r
      <4>1. d \in active /\ HasId(d) /\ id[d] \in Ids
        BY <1>0, <1>2, <2>1, <3>2 DEF IdInv, ClientIds, TypeOK, HasId
      <4>2. id[d] # id[r]
        BY <1>0, <3>2, <4>1 DEF IdInv, IdsAreUnique
      <4> QED
        BY <1>2, <1>6, <3>2, <4>1, <4>2 DEF CallInv, ActiveCalls
    <3> QED
      BY <3>1, <3>2
  <2> QED
    BY <1>0, <1>2, <2>1 DEF CallInv, ActiveCalls
<1>8. Awaited'
  <2>1. ASSUME NEW i \in Ids, NEW d \in Calls, handlers'[i] = d, handlers[i] # d, ~isDisposed
        PROVE  PromiseOf(d)' \in Elements(toServer')
    <3>1. d = r /\ m \in Elements(toServer')
      BY <1>5, <1>6, <2>1
    <3>2. PromiseOf(d)' = m
      BY <1>2, <1>3, <3>1 DEF PromiseOf
    <3> QED
      BY <3>1, <3>2
  <2>2. \A x \in RequestMessages : Flies(x) => Flies(x)'
    BY <1>2, <1>5 DEF Flies, IsAnswer
  <2> QED
    BY <1>2, <2>1, <2>2, AwaitedRule
<1>9. ServedCalls'
  BY <1>2, ServedRule
<1>10. OwnAnswer'
  BY <1>2 DEF CallInv, OwnAnswer
<1> QED
  BY <1>1, <1>7, <1>8, <1>9, <1>10 DEF CallInv

\* Steps of the server, and of the connection, that leave the client alone.
LEMMA ClientKept ==
    ASSUME CallInv, UNCHANGED client
    PROVE  ActiveCalls' /\ OwnAnswer' /\ KeepsIds /\ UNCHANGED <<isDisposed, handlers, id>>
  BY DEF CallInv, client, ActiveCalls, OwnAnswer, KeepsIds

LEMMA FireCalls == ASSUME CallInv, NEW e \in Events, Fire(e) PROVE CallInv'
<1>0. IdInv /\ TypeOK
  BY DEF CallInv, IdInv
<1>1. IdInv'
  BY <1>0, FireId
<1>2. UNCHANGED client /\ UNCHANGED <<toServer, pending, running, serverActive>>
  BY DEF Fire, server
<1>3. ActiveCalls' /\ OwnAnswer' /\ KeepsIds /\ UNCHANGED <<isDisposed, handlers, id>>
  BY <1>2, ClientKept
<1>4. Elements(toClient) \subseteq Elements(toClient')
  <2>1. subs[e] \in Nat /\ fires[e] \in 0..MaxFires /\ id[e] \in Ids
    BY <1>0, RequestSets DEF TypeOK, Fire, IdInv, ServerIds, HasId
  <2>2. fires[e] + 1 \in Nat
    BY <2>1
  <2>5. id[e] \in Nat
    BY <2>1, RequestSets
  <2>3. PICK m \in ResponseMessages : m = Response("EventFire", id[e], fires[e] + 1)
    BY <2>2, <2>5, NewResponse
  <2>4. [k \in 1..subs[e] |-> m] \in Seq(ResponseMessages) /\ SendResponses([k \in 1..subs[e] |-> m])
    BY <2>1, <2>3 DEF Fire
  <2> QED
    BY <1>0, <2>4, SendResponsesFacts
<1>5. Awaited'
  BY <1>2, <1>3, <1>4, AwaitedRule DEF Flies
<1>6. ServedCalls'
  BY <1>2, <1>3, ServedRule
<1> QED
  BY <1>1, <1>3, <1>5, <1>6 DEF CallInv

LEMMA ReceiveInitializeCalls == ASSUME CallInv, ReceiveInitialize PROVE CallInv'
<1>0. IdInv /\ TypeOK /\ toClient # <<>> /\ toClient \in Seq(ResponseMessages)
  BY DEF CallInv, IdInv, TypeOK, ReceiveInitialize
<1>1. IdInv'
  BY <1>0, ReceiveInitializeId
<1>2. UNCHANGED <<isDisposed, id, handlers, active, uninitialized, outcome, answer, toServer,
                  pending, running, serverActive>> /\ KeepsIds
  BY DEF ReceiveInitialize, server, KeepsIds
<1>3. \A a \in Elements(toClient) : IsAnswer(a) => a \in Elements(toClient')
  <2>1. Elements(toClient) \subseteq Elements(toClient') \cup {Head(toClient)} /\ ~IsAnswer(Head(toClient))
    BY <1>0, TailFacts DEF ReceiveInitialize, IsAnswer
  <2> QED
    BY <2>1
<1>4. ActiveCalls' /\ OwnAnswer'
  BY <1>2 DEF CallInv, ActiveCalls, OwnAnswer
<1>5. Awaited'
  BY <1>2, <1>3, AwaitedRule DEF Flies
<1>6. ServedCalls'
  BY <1>2, ServedRule
<1> QED
  BY <1>1, <1>4, <1>5, <1>6 DEF CallInv

LEMMA ReceiveResponseCalls == ASSUME CallInv, ReceiveResponse PROVE CallInv'
<1> USE RequestSets
<1>0. IdInv /\ TypeOK /\ toClient \in Seq(ResponseMessages)
  BY DEF CallInv, IdInv, TypeOK
<1>1. PICK m \in ResponseMessages, r \in Requests \cup {None} :
              /\ toClient # <<>> /\ ~isDisposed /\ m = Head(toClient) /\ m \in Elements(toClient) /\ m.type # "Initialize"
              /\ m.id \in Ids /\ r = handlers[m.id] /\ (r # None => id[r] = m.id)
              /\ toClient' = Tail(toClient)
              /\ UNCHANGED <<state, isDisposed, lastRequestId, id, uninitialized, due, listening, listens,
                             toServer, server, fires, sentLate, missed>>
              /\ ~(r \in Calls /\ IsAnswer(m)) => UNCHANGED <<handlers, outcome, answer, active>>
              /\ r \in Calls /\ IsAnswer(m) => Settle(r, m) /\ m.data = r
  BY <1>0, ResponseFacts
<1>2. IdInv'
  BY <1>0, ReceiveResponseId
<1>3. KeepsIds /\ UNCHANGED <<isDisposed, id, toServer, uninitialized, pending, running, serverActive>>
  BY <1>1 DEF KeepsIds, server
<1>4. /\ \A i \in Ids : handlers'[i] \in Calls => handlers'[i] = handlers[i] /\ ~(IsAnswer(m) /\ i = m.id)
      /\ ActiveCalls' /\ OwnAnswer'
  <2>1. CASE r \in Calls /\ IsAnswer(m)
    <3>1. /\ handlers'[m.id] = None /\ \A i \in Ids : i # m.id => handlers'[i] = handlers[i]
          /\ \A d \in Calls : d # r => outcome'[d] = outcome[d] /\ answer'[d] = answer[d]
          /\ outcome[r] # "pending" => UNCHANGED <<outcome, answer, active>>
          /\ outcome[r] = "pending" => outcome'[r] \in {"ok", "error"} /\ answer'[r] = r /\ active' = active \ {r}
      BY <1>0, <1>1, <2>1, SettleFacts
    <3>2. OwnAnswer'
      BY <3>1 DEF CallInv, OwnAnswer
    <3>3. \A d \in Calls : (outcome'[d] = "pending" <=> d \in active') /\ (d \in active' => d \in active /\ d # r)
      BY <2>1, <3>1 DEF CallInv, ActiveCalls
    <3>4. ASSUME NEW d \in Calls, d \in active' PROVE d \notin uninitialized' <=> handlers'[id'[d]] = d
      <4>1. d \in active /\ d # r /\ HasId(d) /\ id[d] \in Ids
        BY <1>0, <3>3, <3>4 DEF IdInv, ClientIds, TypeOK, HasId
      <4>2. id[d] # m.id
        BY <1>0, <1>1, <2>1, <4>1 DEF IdInv, IdsAreUnique
      <4> QED
        BY <1>3, <3>1, <4>1, <4>2 DEF CallInv, ActiveCalls
    <3>5. \A d \in Calls : d \in uninitialized' => d \in active'
      <4>1. r \notin uninitialized
        BY <1>1, <2>1 DEF CallInv, ActiveCalls
      <4> QED
        BY <1>3, <3>1, <4>1 DEF CallInv, ActiveCalls
    <3> QED
      BY <1>1, <1>3, <2>1, <3>1, <3>2, <3>3, <3>4, <3>5 DEF CallInv, ActiveCalls
  <2>2. CASE ~(r \in Calls /\ IsAnswer(m))
    BY <1>1, <1>3, <2>2 DEF CallInv, ActiveCalls, OwnAnswer
  <2> QED
    BY <2>1, <2>2
<1>5. Awaited'
  <2>1. Elements(toClient) \subseteq Elements(toClient') \cup {m}
    BY <1>0, <1>1, TailFacts
  <2>2. ASSUME NEW x \in RequestMessages, Flies(x), handlers'[x.id] = x.name, x.name \in Calls
        PROVE  Flies(x)'
    <3>1. x.id \in Ids
      BY MessageFacts
    <3>2. ~(IsAnswer(m) /\ x.id = m.id)
      BY <1>4, <2>2, <3>1
    <3>3. ASSUME NEW a \in Elements(toClient), IsAnswer(a), a.id = x.id PROVE a \in Elements(toClient')
      BY <2>1, <3>2, <3>3
    <3> QED
      BY <1>3, <2>2, <3>3 DEF Flies
  <2> QED
    BY <1>3, <1>4, <2>2, AwaitedRule
<1>6. ServedCalls'
  BY <1>3, ServedRule
<1> QED
  BY <1>2, <1>4, <1>5, <1>6 DEF CallInv

LEMMA DisposeClientCalls == ASSUME CallInv, DisposeClient PROVE CallInv'
<1>0. IdInv /\ TypeOK
  BY DEF CallInv, IdInv
<1>1. IdInv'
  BY <1>0, DisposeClientId
<1>2. /\ isDisposed' = TRUE /\ active' = {}
      /\ outcome' = [c \in Calls |-> IF c \in active THEN "cancelled" ELSE outcome[c]]
      /\ uninitialized' = uninitialized \ active
      /\ UNCHANGED <<id, handlers, answer, pending, running, serverActive>>
  BY DEF DisposeClient, server
<1>3. ActiveCalls'
  <2>1. \A c \in Calls : outcome'[c] # "pending"
    BY <1>2 DEF CallInv, ActiveCalls
  <2> QED
    BY <1>2, <2>1 DEF CallInv, ActiveCalls
<1>4. OwnAnswer'
  BY <1>0, <1>2 DEF CallInv, OwnAnswer, TypeOK
<1>5. Awaited'
  BY <1>2 DEF Awaited
<1>6. ServedCalls'
  BY <1>2 DEF CallInv, ServedCalls, PromiseOf
<1> QED
  BY <1>1, <1>3, <1>4, <1>5, <1>6 DEF CallInv

\* Requests that are started run.
LEMMA StartCalls ==
    ASSUME CallInv, UNCHANGED client, NEW reqs \in Seq(RequestMessages), Start(reqs),
           \A m \in Elements(reqs) : Genuine(m) /\ m.type \in {"Promise", "EventListen"}
    PROVE  ServedCalls' /\ running \subseteq running' /\ \A m \in Elements(reqs) : m.type = "Promise" => m \in running'
<1>0. IdInv /\ TypeOK /\ KeepsIds /\ id' = id
  BY DEF CallInv, IdInv, KeepsIds, client
<1>1. running' = running \cup {m \in Elements(reqs) : m.type = "Promise"}
  BY <1>0, StartFacts
<1>2. \A i \in Ids : serverActive'[i] = serverActive[i]
                      \/ \E k \in 1..Len(reqs) : reqs[k].id = i /\ serverActive'[i] = reqs[k].name
  BY <1>0, StartFacts
<1>3. ASSUME NEW i \in Ids, NEW c \in Calls, serverActive'[i] = c, serverActive[i] # c PROVE PromiseOf(c)' \in running'
  <2>1. PICK k \in 1..Len(reqs) : reqs[k].name = c
    BY <1>2, <1>3
  <2>2. PICK m \in RequestMessages : m = reqs[k] /\ m \in Elements(reqs)
    BY ElementsFacts
  <2>3. Genuine(m) /\ m.type = "Promise"
    BY <1>3, <2>1, <2>2, RequestSets DEF Genuine
  <2>4. m = PromiseOf(c)
    BY <2>1, <2>2, <2>3, PromiseIs
  <2>5. PromiseOf(c)' = m
    BY <1>0, <2>4 DEF PromiseOf
  <2> QED
    BY <1>1, <2>2, <2>3, <2>5
<1>4. ServedCalls'
  BY <1>0, <1>1, <1>3, ServedRule
<1> QED
  BY <1>1, <1>4

LEMMA ReceiveRequestCalls == ASSUME CallInv, ReceiveRequest PROVE CallInv'
<1>0. IdInv /\ TypeOK /\ toServer # <<>> /\ toServer \in Seq(RequestMessages) /\ pending \in Seq(PendingRequests)
  BY DEF CallInv, IdInv, TypeOK, ReceiveRequest
<1>1. IdInv'
  BY <1>0, ReceiveRequestId
<1>2. UNCHANGED client /\ toClient' = toClient
  BY DEF ReceiveRequest
<1>3. ActiveCalls' /\ OwnAnswer' /\ KeepsIds /\ UNCHANGED <<isDisposed, handlers, id>>
  BY <1>2, ClientKept
<1>4. PICK m \in RequestMessages : m = Head(toServer) /\ m \in Elements(toServer) /\ m.type \in {"Promise", "EventListen"}
  BY <1>0, TailFacts DEF ReceiveRequest
<1>5. Elements(toServer) \subseteq Elements(toServer') \cup {m}
  BY <1>0, <1>4, TailFacts DEF ReceiveRequest
<1>6. Genuine(m)
  BY <1>0, <1>4 DEF IdInv, MessagesAreGenuine
<1>7. /\ ServedCalls' /\ running \subseteq running' /\ Elements(pending) \subseteq Elements(pending')
      /\ m.type = "Promise" => m \in running' \/ \E p \in Elements(pending') : p.request = m
  <2>1. CASE registered
    <3>1. PICK reqs \in Seq(RequestMessages) : reqs = <<m>> /\ Elements(reqs) = {m}
      BY OneRequest
    <3>2. Start(reqs) /\ pending' = pending
      BY <1>4, <2>1, <3>1 DEF ReceiveRequest
    <3> QED
      BY <1>2, <1>4, <1>6, <3>1, <3>2, StartCalls
  <2>2. CASE ~registered
    <3>1. PICK p \in PendingRequests : p = [request |-> m, timer |-> TRUE] /\ p.request = m
      BY NewPending
    <3>2. pending' = Append(pending, p) /\ UNCHANGED <<running, serverActive>>
      BY <1>4, <2>2, <3>1 DEF ReceiveRequest
    <3>3. Elements(pending') = Elements(pending) \cup {p}
      BY <1>0, <3>2, AppendFacts
    <3>4. ServedCalls'
      BY <1>3, <3>2, ServedRule
    <3> QED
      BY <3>1, <3>2, <3>3, <3>4
  <2> QED
    BY <2>1, <2>2
<1>8. Awaited'
  <2>1. ASSUME NEW x \in RequestMessages, Flies(x), x.type = "Promise" PROVE Flies(x)'
    BY <1>2, <1>5, <1>7, <2>1 DEF Flies
  <2> QED
    BY <1>3, <2>1, AwaitedRule
<1> QED
  BY <1>1, <1>3, <1>7, <1>8 DEF CallInv

LEMMA ReceiveDisposeCalls == ASSUME CallInv, ReceiveDispose PROVE CallInv'
<1> USE RequestSets
<1>0. IdInv /\ TypeOK /\ toServer \in Seq(RequestMessages)
  BY DEF CallInv, IdInv, TypeOK
<1>1. IdInv'
  BY <1>0, ReceiveDisposeId
<1>2. PICK m \in RequestMessages :
         /\ toServer # <<>> /\ m = Head(toServer) /\ m.type \in {"PromiseCancel", "EventDispose"} /\ m.id \in Ids
         /\ toServer' = Tail(toServer) /\ serverActive' = [serverActive EXCEPT ![m.id] = None]
         /\ UNCHANGED client /\ UNCHANGED <<toClient, pending, running>>
  BY <1>0, DisposeFacts
<1>3. ActiveCalls' /\ OwnAnswer' /\ KeepsIds /\ UNCHANGED <<isDisposed, handlers, id>>
  BY <1>2, ClientKept
<1>4. Elements(toServer) \subseteq Elements(toServer') \cup {m}
  BY <1>0, <1>2, TailFacts
<1>5. Awaited'
  <2>1. ASSUME NEW x \in RequestMessages, Flies(x), x.type = "Promise" PROVE Flies(x)'
    BY <1>2, <1>4, <2>1 DEF Flies
  <2> QED
    BY <1>3, <2>1, AwaitedRule
<1>6. ServedCalls'
  <2>1. \A i \in Ids, c \in Calls : serverActive'[i] = c => serverActive[i] = c
    BY <1>0, <1>2 DEF TypeOK
  <2> QED
    BY <1>2, <1>3, <2>1, ServedRule
<1> QED
  BY <1>1, <1>3, <1>5, <1>6 DEF CallInv

LEMMA FinishCalls ==
    ASSUME CallInv, NEW x \in running, NEW t \in {"PromiseSuccess", "PromiseError"}, Finish(x, t)
    PROVE  CallInv'
<1> USE RequestSets
<1>0. IdInv /\ TypeOK
  BY DEF CallInv, IdInv
<1>1. IdInv'
  BY <1>0, FinishId
<1>2. PICK m \in ResponseMessages :
         /\ IsAnswer(m) /\ m.id = x.id /\ SendResponses(<<m>>)
         /\ x \in RequestMessages /\ x.name \in Calls /\ x.id \in Ids /\ x.id = id[x.name] /\ x.type = "Promise"
  BY <1>0, FinishFacts
<1>3. /\ running' = running \ {x} /\ serverActive' = [serverActive EXCEPT ![x.id] = None]
      /\ UNCHANGED client /\ UNCHANGED <<toServer, pending>>
  BY DEF Finish
<1>4. ActiveCalls' /\ OwnAnswer' /\ KeepsIds /\ UNCHANGED <<isDisposed, handlers, id>>
  BY <1>3, ClientKept
<1>5. Elements(toClient) \subseteq Elements(toClient') /\ (~isDisposed => m \in Elements(toClient'))
  BY <1>0, <1>2, OneResponse, SendResponsesFacts
<1>6. Awaited'
  <2>1. ASSUME NEW y \in RequestMessages, Flies(y), ~isDisposed PROVE Flies(y)'
    BY <1>2, <1>3, <1>5, <2>1 DEF Flies
  <2> QED
    BY <1>4, <2>1, AwaitedRule
<1>7. ServedCalls'
  <2>1. serverActive'[x.id] = None /\ \A i \in Ids, c \in Calls : serverActive'[i] = c => serverActive[i] = c
    BY <1>0, <1>2, <1>3 DEF TypeOK
  <2>2. \A y \in running : y.name \in Calls
    <3>1. \A y \in running : Genuine(y) /\ y.type = "Promise"
      BY <1>0 DEF IdInv, MessagesAreGenuine
    <3> QED
      BY <3>1 DEF Genuine
  <2>3. \A y \in running : serverActive'[y.id] = y.name => y # x
    BY <2>1, <2>2
  <2> QED
    BY <1>3, <1>4, <2>1, <2>3, ServedRule
<1> QED
  BY <1>1, <1>4, <1>6, <1>7 DEF CallInv

LEMMA RegisterChannelCalls == ASSUME CallInv, RegisterChannel PROVE CallInv'
<1>0. IdInv
  BY DEF CallInv
<1>1. IdInv'
  BY <1>0, RegisterChannelId
<1>2. UNCHANGED client /\ UNCHANGED <<toServer, toClient, pending, running, serverActive>>
  BY DEF RegisterChannel
<1>3. ActiveCalls' /\ OwnAnswer' /\ KeepsIds /\ UNCHANGED <<isDisposed, handlers, id>>
  BY <1>2, ClientKept
<1>4. Awaited' /\ ServedCalls'
  BY <1>2, <1>3 DEF CallInv, Awaited, ServedCalls, Flies, PromiseOf
<1> QED
  BY <1>1, <1>3, <1>4 DEF CallInv

LEMMA FlushPendingRequestsCalls == ASSUME CallInv, FlushPendingRequests PROVE CallInv'
<1>0. IdInv
  BY DEF CallInv
<1>1. IdInv'
  BY <1>0, FlushPendingRequestsId
<1>2. PICK reqs : reqs = [k \in DOMAIN pending |-> pending[k].request]
  OBVIOUS
<1>3. /\ reqs \in Seq(RequestMessages) /\ Len(reqs) = Len(pending)
      /\ \A k \in 1..Len(pending) : reqs[k] = pending[k].request /\ reqs[k] \in Elements(reqs)
      /\ \A m \in Elements(reqs) : Genuine(m) /\ m.type \in {"Promise", "EventListen"}
  BY <1>0, <1>2, WaitingFacts
<1>4. UNCHANGED client /\ UNCHANGED <<toServer, toClient>> /\ Start(reqs)
  BY <1>2 DEF FlushPendingRequests
<1>5. ActiveCalls' /\ OwnAnswer' /\ KeepsIds /\ UNCHANGED <<isDisposed, handlers, id>>
  BY <1>4, ClientKept
<1>6. ServedCalls' /\ running \subseteq running' /\ \A m \in Elements(reqs) : m.type = "Promise" => m \in running'
  BY <1>3, <1>4, StartCalls
<1>7. \A p \in Elements(pending) : p.request \in Elements(reqs)
  BY <1>3 DEF Elements
<1>8. Awaited'
  <2>1. ASSUME NEW x \in RequestMessages, Flies(x), x.type = "Promise" PROVE Flies(x)'
    BY <1>4, <1>6, <1>7, <2>1 DEF Flies
  <2> QED
    BY <1>5, <2>1, AwaitedRule
<1> QED
  BY <1>1, <1>5, <1>6, <1>8 DEF CallInv

LEMMA PendingTimeoutCalls == ASSUME CallInv, NEW k \in DOMAIN pending, PendingTimeout(k) PROVE CallInv'
<1> USE RequestSets
<1>0. IdInv /\ TypeOK
  BY DEF CallInv, IdInv
<1>1. IdInv'
  BY <1>0, PendingTimeoutId
<1>2. PICK m \in RequestMessages :
         /\ m = pending[k].request /\ Genuine(m) /\ m.type \in {"Promise", "EventListen"} /\ m.id \in Ids
         /\ \A q \in Elements(pending) : \E p \in Elements(pending') : p.request = q.request
  BY <1>0, TimeoutFacts
<1>3. UNCHANGED client /\ UNCHANGED <<toServer, running, serverActive>>
  BY DEF PendingTimeout
<1>4. ActiveCalls' /\ OwnAnswer' /\ KeepsIds /\ UNCHANGED <<isDisposed, handlers, id>>
  BY <1>3, ClientKept
<1>5. Elements(toClient) \subseteq Elements(toClient')
  <2>1. CASE m.type = "Promise"
    <3>1. m.name \in Nat /\ m.id \in Nat
      BY <1>2, <2>1 DEF Genuine
    <3>2. PICK a \in ResponseMessages : a = Response("PromiseError", m.id, m.name)
      BY <3>1, NewResponse
    <3>3. SendResponses(<<a>>)
      BY <1>2, <2>1, <3>2 DEF PendingTimeout
    <3> QED
      BY <1>0, <3>3, OneResponse, SendResponsesFacts
  <2>2. CASE m.type # "Promise"
    BY <1>2, <2>2 DEF PendingTimeout
  <2> QED
    BY <2>1, <2>2
<1>6. Awaited'
  <2>1. ASSUME NEW x \in RequestMessages, Flies(x) PROVE Flies(x)'
    BY <1>2, <1>3, <1>5, <2>1 DEF Flies
  <2> QED
    BY <1>4, <2>1, AwaitedRule
<1>7. ServedCalls'
  BY <1>3, <1>4, ServedRule
<1> QED
  BY <1>1, <1>4, <1>6, <1>7 DEF CallInv

LEMMA DisposeServerCalls == ASSUME CallInv, DisposeServer PROVE CallInv'
<1> USE RequestSets
<1>0. IdInv
  BY DEF CallInv
<1>1. IdInv'
  BY <1>0, DisposeServerId
<1>2. UNCHANGED client /\ UNCHANGED <<toServer, toClient, pending, running>> /\ serverActive' = [i \in Ids |-> None]
  BY DEF DisposeServer
<1>3. ActiveCalls' /\ OwnAnswer' /\ KeepsIds /\ UNCHANGED <<isDisposed, handlers, id>>
  BY <1>2, ClientKept
<1>4. Awaited'
  BY <1>2, <1>3 DEF CallInv, Awaited, Flies, PromiseOf
<1>5. ServedCalls'
  BY <1>2 DEF ServedCalls
<1> QED
  BY <1>1, <1>3, <1>4, <1>5 DEF CallInv

\* A promise that is pending has a handler or waits for Initialize, and every
\* handler of a call will find its answer.
THEOREM CallsAreAnswered == Spec => []CallInv
<1>1. Init => CallInv
  <2> SUFFICES ASSUME Init PROVE CallInv
    OBVIOUS
  <2>1. IdInv
    BY InitId
  <2>2. ActiveCalls /\ Awaited /\ ServedCalls /\ OwnAnswer
    BY RequestSets DEF Init, ActiveCalls, Awaited, ServedCalls, OwnAnswer
  <2> QED
    BY <2>1, <2>2 DEF CallInv
<1>2. CallInv /\ [Next]_vars => CallInv'
  <2> SUFFICES ASSUME CallInv, [Next]_vars PROVE CallInv'
    OBVIOUS
  <2>1. CASE \E c \in Calls : Call(c) \/ CallRejected(c) \/ Cancel(c)
    BY <2>1, CallCalls, CallRejectedCalls, CancelCalls
  <2>2. CASE \E e \in Events : AddFirstListener(e) \/ RemoveLastListener(e) \/ Fire(e)
    BY <2>2, AddFirstListenerCalls, RemoveLastListenerCalls, FireCalls
  <2>3. CASE \E r \in Requests : Initialized(r) \/ DoRequest(r)
    BY <2>3, InitializedCalls, DoRequestCalls
  <2>4. CASE ReceiveInitialize \/ ReceiveResponse \/ DisposeClient
    BY <2>4, ReceiveInitializeCalls, ReceiveResponseCalls, DisposeClientCalls
  <2>5. CASE ReceiveRequest \/ ReceiveDispose
    BY <2>5, ReceiveRequestCalls, ReceiveDisposeCalls
  <2>6. CASE \E x \in running, type \in {"PromiseSuccess", "PromiseError"} : Finish(x, type)
    BY <2>6, FinishCalls
  <2>7. CASE RegisterChannel \/ FlushPendingRequests \/ DisposeServer
    BY <2>7, RegisterChannelCalls, FlushPendingRequestsCalls, DisposeServerCalls
  <2>8. CASE \E k \in DOMAIN pending : PendingTimeout(k)
    BY <2>8, PendingTimeoutCalls
  <2>9. CASE UNCHANGED vars
    <3>1. IdInv'
      BY <2>9, StutterId DEF CallInv
    <3>2. ActiveCalls' /\ OwnAnswer' /\ Awaited' /\ ServedCalls'
      BY <2>9 DEF vars, client, server, CallInv, ActiveCalls, OwnAnswer, Awaited, ServedCalls, Flies, PromiseOf
    <3> QED
      BY <3>1, <3>2 DEF CallInv
  <2> QED
    BY <2>1, <2>2, <2>3, <2>4, <2>5, <2>6, <2>7, <2>8, <2>9, Zenon DEF Next
<1> QED
  BY <1>1, <1>2, PTL DEF Spec

\* A promise that an answer settles was settled by the answer to its own
\* call, although calls and events share one space of ids.
THEOREM AnswersReachTheirCalls == Spec => []OwnAnswer
<1>1. CallInv => OwnAnswer
  BY DEF CallInv
<1> QED
  BY <1>1, CallsAreAnswered, PTL

\* dispose leaves no promise pending.
THEOREM DisposeSettles == Spec => []DisposeSettlesAll
<1>1. CallInv => DisposeSettlesAll
  BY DEF CallInv, ActiveCalls, DisposeSettlesAll
<1> QED
  BY <1>1, CallsAreAnswered, PTL

\* Finished calls leave no handler and no active request behind, on either
\* side.
THEOREM CallsLeaveNothing == Spec => []NothingLeaks
<1>1. CallInv => NothingLeaks
  <2> SUFFICES ASSUME CallInv, Quiet, running = {}
               PROVE  /\ \A i \in Ids : handlers[i] \notin Calls /\ serverActive[i] \notin Calls
                      /\ active \cap Calls = {}
    BY DEF NothingLeaks
  <2>1. /\ Elements(toServer) = {} /\ Elements(toClient) = {} /\ Elements(pending) = {}
        /\ uninitialized = {} /\ ~isDisposed
    BY EmptyFacts DEF Quiet
  <2>2. \A i \in Ids : handlers[i] \notin Calls
    BY <2>1 DEF CallInv, Awaited, Flies
  <2>3. \A i \in Ids : serverActive[i] \notin Calls
    BY DEF CallInv, ServedCalls
  <2>4. ASSUME NEW c \in active \cap Calls PROVE FALSE
    <3>1. id[c] \in Ids /\ handlers[id[c]] = c
      BY <2>1, RequestSets DEF CallInv, ActiveCalls, IdInv, ClientIds, HasId, TypeOK
    <3> QED
      BY <2>2, <3>1
  <2> QED
    BY <2>2, <2>3, <2>4
<1> QED
  BY <1>1, CallsAreAnswered, PTL

-----------------------------------------------------------------------------
(* Cancellation *)

LEMMA UnsentRule ==
    ASSUME CancelInv, KeepsIds, uninitialized' \cap Calls \subseteq uninitialized,
           \A m \in RequestMessages : m.type = "Promise" /\ m.name \in uninitialized' \cap Calls /\ Unsent(m) => Unsent(m)'
    PROVE  WaitingUnsent'
<1> SUFFICES ASSUME NEW c \in Calls, c \in uninitialized' PROVE Unsent(PromiseOf(c))'
  BY DEF WaitingUnsent
<1>1. IdInv /\ c \in uninitialized /\ HasId(c) /\ Unsent(PromiseOf(c))
  BY DEF CancelInv, CallInv, IdInv, ClientIds, WaitingUnsent
<1>2. PICK m \in RequestMessages : m = PromiseOf(c) /\ m = PromiseOf(c)' /\ m.type = "Promise" /\ m.name = c
  BY <1>1, PromiseFacts
<1>3. Unsent(m)'
  BY <1>1, <1>2
<1> QED
  BY <1>2, <1>3 DEF Unsent

LEMMA RevokedRule ==
    ASSUME CancelInv, isDisposed' = isDisposed, sentLate \subseteq sentLate', missed \subseteq missed',
           \A c \in Calls : outcome'[c] = "cancelled" => outcome[c] = "cancelled" /\ id'[c] = id[c],
           \A m, x : \A c \in Calls \ (sentLate' \cup missed') :
              ~isDisposed /\ outcome[c] = "cancelled" /\ m = PromiseOf(c) /\ x = CancelOf(c) /\ Revoked(m, x, c)
                 => Revoked(m, x, c)'
    PROVE  GivenUp'
<1> SUFFICES ASSUME ~isDisposed, NEW c \in Calls \ (sentLate' \cup missed'), outcome'[c] = "cancelled"
             PROVE  Revoked(PromiseOf(c), CancelOf(c), c)'
  BY DEF GivenUp
<1>1. outcome[c] = "cancelled" /\ Revoked(PromiseOf(c), CancelOf(c), c)
  BY DEF CancelInv, GivenUp
<1>2. PICK m, x : m = PromiseOf(c) /\ x = CancelOf(c)
  OBVIOUS
<1>3. m = PromiseOf(c)' /\ x = CancelOf(c)'
  BY <1>2 DEF PromiseOf, CancelOf
<1>4. Revoked(m, x, c)
  BY <1>1, <1>2 DEF Revoked
<1>5. Revoked(m, x, c)'
  BY <1>1, <1>2, <1>4
<1> QED
  BY <1>3, <1>5 DEF Revoked

LEMMA AppendRevoked ==
    ASSUME TypeOK, NEW y \in RequestMessages, SendRequest(y),
           NEW m, NEW x, NEW c, m # y, Revoked(m, x, c), UNCHANGED <<pending, running, cancelled>>
    PROVE  Revoked(m, x, c)'
<1>0. toServer \in Seq(RequestMessages)
  BY DEF TypeOK
<1>1. CASE isDisposed
  BY <1>1 DEF SendRequest, Revoked, Held
<1>2. CASE ~isDisposed
  <2>1. toServer' = Append(toServer, y)
    BY <1>2 DEF SendRequest
  <2>2. /\ Len(toServer') = Len(toServer) + 1 /\ Len(toServer) \in Nat
        /\ \A k \in 1..Len(toServer) : toServer'[k] = toServer[k]
        /\ toServer'[Len(toServer) + 1] = y
        /\ Elements(toServer') = Elements(toServer) \cup {y}
    BY <1>0, <2>1, AppendFacts
  <2>3. ASSUME NEW k \in 1..Len(toServer'), toServer'[k] = m
        PROVE  \E j \in 1..Len(toServer') : k < j /\ toServer'[j] = x
    <3>1. k \in 1..Len(toServer) /\ toServer[k] = m
      BY <2>2, <2>3
    <3>2. PICK j \in 1..Len(toServer) : k < j /\ toServer[j] = x
      BY <3>1 DEF Revoked
    <3> QED
      BY <2>2, <3>2
  <2>4. m \in Held' \/ (m \in running' /\ c \notin cancelled') => x \in Elements(toServer')
    BY <2>2 DEF Revoked, Held
  <2> QED
    BY <2>3, <2>4 DEF Revoked
<1> QED
  BY <1>1, <1>2

\* The server has taken the first message.
LEMMA TailRevoked ==
    ASSUME TypeOK, toServer # <<>>, toServer' = Tail(toServer), NEW m, NEW x, NEW c, Revoked(m, x, c)
    PROVE  /\ \A k \in 1..Len(toServer') : toServer'[k] = m => \E j \in 1..Len(toServer') : k < j /\ toServer'[j] = x
           /\ Head(toServer) = m => x \in Elements(toServer')
           /\ m \in Held \/ (m \in running /\ c \notin cancelled) => x = Head(toServer) \/ x \in Elements(toServer')
<1>0. toServer \in Seq(RequestMessages)
  BY DEF TypeOK
<1>1. /\ Len(toServer') = Len(toServer) - 1 /\ Len(toServer) \in Nat \ {0}
      /\ \A k \in 1..(Len(toServer) - 1) : toServer'[k] = toServer[k + 1]
      /\ Head(toServer) = toServer[1]
      /\ Elements(toServer) \subseteq Elements(toServer') \cup {Head(toServer)}
  BY <1>0, TailFacts
<1>2. ASSUME NEW k \in 1..Len(toServer), toServer[k] = m
      PROVE  \E j \in 1..Len(toServer') : k - 1 < j /\ toServer'[j] = x
  <2>1. PICK j \in 1..Len(toServer) : k < j /\ toServer[j] = x
    BY <1>2 DEF Revoked
  <2>2. j - 1 \in 1..Len(toServer') /\ k - 1 < j - 1 /\ toServer'[j - 1] = x
    BY <1>1, <2>1
  <2> QED
    BY <2>2
<1>3. ASSUME NEW k \in 1..Len(toServer'), toServer'[k] = m
      PROVE  \E j \in 1..Len(toServer') : k < j /\ toServer'[j] = x
  <2>1. k + 1 \in 1..Len(toServer) /\ toServer[k + 1] = m /\ (k + 1) - 1 = k
    BY <1>1, <1>3
  <2> QED
    BY <1>2, <2>1
<1>4. Head(toServer) = m => x \in Elements(toServer')
  <2> SUFFICES ASSUME Head(toServer) = m PROVE x \in Elements(toServer')
    OBVIOUS
  <2>1. 1 \in 1..Len(toServer) /\ toServer[1] = m
    BY <1>1
  <2> QED
    BY <1>2, <2>1 DEF Elements
<1> QED
  BY <1>1, <1>3, <1>4 DEF Revoked

\* Steps that touch neither requests nor running calls.
LEMMA CancelKept ==
    ASSUME CancelInv, CallInv', UNCHANGED <<id, isDisposed, toServer, running, cancelled, serverActive, uninitialized>>,
           Held' = Held, sentLate \subseteq sentLate', missed \subseteq missed',
           \A c \in Calls : outcome'[c] = "cancelled" => outcome[c] = "cancelled" \/ ~HasId(c)
    PROVE  CancelInv'
<1>1. KeepsIds /\ IdInv
  BY DEF KeepsIds, CancelInv, CallInv
<1>2. WaitingUnsent'
  BY <1>1, UnsentRule DEF Unsent
<1>3. Cancellable'
  BY DEF CancelInv, Cancellable
<1>4. GivenUp'
  <2> SUFFICES ASSUME ~isDisposed, NEW c \in Calls \ (sentLate' \cup missed'), outcome'[c] = "cancelled"
               PROVE  Revoked(PromiseOf(c), CancelOf(c), c)'
    BY DEF GivenUp
  <2>1. CASE outcome[c] = "cancelled"
    <3>1. Revoked(PromiseOf(c), CancelOf(c), c)
      BY <2>1 DEF CancelInv, GivenUp
    <3>2. PromiseOf(c)' = PromiseOf(c) /\ CancelOf(c)' = CancelOf(c)
      BY DEF PromiseOf, CancelOf
    <3> QED
      BY <3>1, <3>2 DEF Revoked
  <2>2. CASE ~HasId(c)
    <3>1. PICK m : m = PromiseOf(c) /\ m = PromiseOf(c)' /\ m.id = -1
      <4>1. PromiseOf(c)' = PromiseOf(c)
        BY DEF PromiseOf
      <4>2. PromiseOf(c).id = id[c]
        BY Zenon DEF PromiseOf, Request
      <4> QED
        BY <2>2, <4>1, <4>2 DEF HasId
    <3>2. m \notin RequestMessages
      BY <3>1, MessageFacts, RequestSets
    <3>3. Elements(toServer) \subseteq RequestMessages /\ running \subseteq RequestMessages /\ Held \subseteq RequestMessages
      BY <1>1, ElementsFacts, MessageFacts DEF IdInv, TypeOK, Held
    <3>4. \A k \in 1..Len(toServer) : toServer[k] # m
      BY <3>2, <3>3 DEF Elements
    <3> QED
      BY <3>1, <3>2, <3>3, <3>4 DEF Revoked
  <2> QED
    BY <2>1, <2>2
<1> QED
  BY <1>2, <1>3, <1>4 DEF CancelInv

LEMMA CallRejectedCancels == ASSUME CancelInv, NEW c \in Calls, CallRejected(c) PROVE CancelInv'
<1>1. CallInv /\ IdInv /\ TypeOK /\ outcome[c] = "none" /\ ~HasId(c)
  BY DEF CancelInv, CallInv, IdInv, IdsAreUnique, CallRejected
<1>2. CallInv'
  BY <1>1, CallRejectedCalls
<1>3. /\ UNCHANGED <<id, isDisposed, toServer, running, cancelled, serverActive, uninitialized, pending, sentLate, missed>>
      /\ outcome' = [outcome EXCEPT ![c] = "cancelled"]
  BY DEF CallRejected, server, history
<1>4. \A d \in Calls : outcome'[d] = "cancelled" => outcome[d] = "cancelled" \/ ~HasId(d)
  BY <1>1, <1>3 DEF TypeOK
<1> QED
  BY <1>2, <1>3, <1>4, CancelKept DEF Held

LEMMA FireCancels == ASSUME CancelInv, NEW e \in Events, Fire(e) PROVE CancelInv'
<1>1. CallInv'
  BY FireCalls DEF CancelInv
<1>2. UNCHANGED <<id, isDisposed, outcome, toServer, running, cancelled, serverActive, uninitialized, pending, sentLate, missed>>
  BY DEF Fire, client, server
<1> QED
  BY <1>1, <1>2, CancelKept DEF Held

LEMMA InitializedCancels == ASSUME CancelInv, NEW r \in Requests, Initialized(r) PROVE CancelInv'
<1>1. CallInv'
  BY InitializedCalls DEF CancelInv
<1>2. UNCHANGED <<id, isDisposed, outcome, toServer, running, cancelled, serverActive, uninitialized, pending, sentLate, missed>>
  BY DEF Initialized, server, history
<1> QED
  BY <1>1, <1>2, CancelKept DEF Held

LEMMA ReceiveInitializeCancels == ASSUME CancelInv, ReceiveInitialize PROVE CancelInv'
<1>1. CallInv'
  BY ReceiveInitializeCalls DEF CancelInv
<1>2. UNCHANGED <<id, isDisposed, outcome, toServer, running, cancelled, serverActive, uninitialized, pending, sentLate, missed>>
  BY DEF ReceiveInitialize, server, history
<1> QED
  BY <1>1, <1>2, CancelKept DEF Held

LEMMA ReceiveResponseCancels == ASSUME CancelInv, ReceiveResponse PROVE CancelInv'
<1>0. CallInv /\ IdInv /\ TypeOK
  BY DEF CancelInv, CallInv, IdInv
<1>1. CallInv'
  BY <1>0, ReceiveResponseCalls
<1>2. PICK m \in ResponseMessages, r \in Requests \cup {None} :
         /\ m.id \in Ids
         /\ UNCHANGED <<state, isDisposed, lastRequestId, id, uninitialized, due, listening, listens,
                        toServer, server, fires, sentLate, missed>>
         /\ ~(r \in Calls /\ IsAnswer(m)) => UNCHANGED <<handlers, outcome, answer, active>>
         /\ r \in Calls /\ IsAnswer(m) => Settle(r, m) /\ m.data = r
  BY <1>0, ResponseFacts
<1>3. UNCHANGED <<id, isDisposed, toServer, running, cancelled, serverActive, uninitialized, pending, sentLate, missed>>
  BY <1>2 DEF server
<1>4. \A c \in Calls : outcome'[c] = "cancelled" => outcome[c] = "cancelled"
  <2>1. CASE r \in Calls /\ IsAnswer(m)
    <3>1. /\ \A d \in Calls : d # r => outcome'[d] = outcome[d]
          /\ outcome[r] # "pending" => outcome' = outcome
          /\ outcome[r] = "pending" => outcome'[r] \in {"ok", "error"}
      BY <1>0, <1>2, <2>1, SettleFacts
    <3> QED
      BY <3>1
  <2>2. CASE ~(r \in Calls /\ IsAnswer(m))
    BY <1>2, <2>2
  <2> QED
    BY <2>1, <2>2
<1> QED
  BY <1>1, <1>3, <1>4, CancelKept DEF Held

LEMMA RegisterChannelCancels == ASSUME CancelInv, RegisterChannel PROVE CancelInv'
<1>1. CallInv'
  BY RegisterChannelCalls DEF CancelInv
<1>2. UNCHANGED <<id, isDisposed, outcome, toServer, running, cancelled, serverActive, uninitialized, pending, sentLate, missed>>
  BY DEF RegisterChannel, client, history
<1> QED
  BY <1>1, <1>2, CancelKept DEF Held

LEMMA PendingTimeoutCancels == ASSUME CancelInv, NEW k \in DOMAIN pending, PendingTimeout(k) PROVE CancelInv'
<1>0. CallInv /\ IdInv
  BY DEF CancelInv, CallInv
<1>1. CallInv'
  BY <1>0, PendingTimeoutCalls
<1>2. UNCHANGED <<id, isDisposed, outcome, toServer, running, cancelled, serverActive, uninitialized, sentLate, missed>>
  BY DEF PendingTimeout, client
<1>3. Held' = Held
  BY <1>0, TimeoutFacts DEF Held
<1> QED
  BY <1>1, <1>2, <1>3, CancelKept

LEMMA CallCancels == ASSUME CancelInv, NEW c \in Calls, Call(c) PROVE CancelInv'
<1> USE RequestSets
<1>0. CallInv /\ IdInv /\ TypeOK /\ c \in Requests /\ outcome[c] = "none" /\ ~isDisposed /\ ~HasId(c) /\ c \notin Used
  BY DEF CancelInv, CallInv, IdInv, Call, IdsAreUnique, Used
<1>1. CallInv' /\ lastRequestId \in Ids
  BY <1>0, CallCalls, NewId
<1>2. /\ id' = [id EXCEPT ![c] = lastRequestId] /\ outcome' = [outcome EXCEPT ![c] = "pending"]
      /\ UNCHANGED <<isDisposed, pending, running, cancelled, serverActive, sentLate, missed>>
  BY DEF Call, server, history
<1>3. id'[c] = lastRequestId /\ \A d \in Calls : d # c => id'[d] = id[d] /\ outcome'[d] = outcome[d]
  BY <1>0, <1>2 DEF TypeOK
<1>4. PICK y \in RequestMessages : y = Request("Promise", lastRequestId, c) /\ y.name = c
  BY <1>0, <1>1, NewRequest
<1>5. /\ uninitialized' \subseteq uninitialized \cup {c}
      /\ \/ SendRequest(y) /\ c \notin uninitialized'
         \/ toServer' = toServer
  <2>1. CASE state = "Idle"
    <3>1. c \notin uninitialized
      BY <1>0 DEF IdInv, ClientIds
    <3> QED
      BY <1>4, <2>1, <3>1 DEF Call
  <2>2. CASE state # "Idle"
    BY <2>2 DEF Call
  <2> QED
    BY <2>1, <2>2
<1>6. Elements(toServer') \subseteq Elements(toServer) \cup {y}
  BY <1>0, <1>5, SendRequestFacts
<1>7. ASSUME NEW d \in Calls, d \in uninitialized' PROVE Unsent(PromiseOf(d))'
  <2>1. CASE d = c
    <3>1. PICK m \in RequestMessages : m = PromiseOf(c)' /\ m.id = lastRequestId /\ m.name = c
      <4>1. PICK m \in RequestMessages : m = Request("Promise", lastRequestId, c) /\ m.id = lastRequestId /\ m.name = c
        BY <1>0, <1>1, NewRequest
      <4> QED
        BY <1>3, <4>1 DEF PromiseOf
    <3>2. ~Genuine(m)
      BY <1>0, <1>1, <3>1 DEF Genuine, HasId
    <3>3. m \notin Elements(toServer) \cup Held \cup running
      BY <1>0, <3>2 DEF IdInv, MessagesAreGenuine, Held
    <3>4. toServer' = toServer
      BY <1>5, <1>7, <2>1
    <3> QED
      BY <1>2, <2>1, <3>1, <3>3, <3>4 DEF Unsent, Held
  <2>2. CASE d # c
    <3>1. IdInv /\ d \in uninitialized /\ HasId(d) /\ Unsent(PromiseOf(d)) /\ d \in Requests /\ id[d] \in Ids
      BY <1>5, <1>7, <2>2 DEF CancelInv, CallInv, IdInv, ClientIds, WaitingUnsent, HasId, TypeOK
    <3>2. PICK m \in RequestMessages : m = Request("Promise", id[d], d) /\ m.name = d
      BY <3>1, NewRequest
    <3>3. m = PromiseOf(d) /\ m = PromiseOf(d)' /\ m # y
      BY <1>3, <1>4, <2>2, <3>2 DEF PromiseOf
    <3> QED
      BY <1>2, <1>6, <3>1, <3>3 DEF Unsent, Held
  <2> QED
    BY <2>1, <2>2
<1>8. WaitingUnsent'
  BY <1>7 DEF WaitingUnsent
<1>9. Cancellable'
  BY <1>2 DEF CancelInv, Cancellable
<1>10. GivenUp'
  <2>1. \A d \in Calls : outcome'[d] = "cancelled" => outcome[d] = "cancelled" /\ id'[d] = id[d] /\ d # c
    BY <1>0, <1>2, <1>3 DEF TypeOK
  <2>2. ASSUME NEW m, NEW x, NEW d \in Calls, outcome[d] = "cancelled", m = PromiseOf(d), Revoked(m, x, d)
        PROVE  Revoked(m, x, d)'
    <3>1. CASE SendRequest(y)
      <4>1. m # y
        <5>1. PromiseOf(d).name = d
          BY Zenon DEF PromiseOf, Request
        <5> QED
          BY <1>0, <1>4, <2>2, <5>1
      <4> QED
        BY <1>0, <1>2, <2>2, <3>1, <4>1, AppendRevoked
    <3>2. CASE toServer' = toServer
      BY <1>2, <2>2, <3>2 DEF Revoked, Held
    <3> QED
      BY <1>5, <3>1, <3>2
  <2> QED
    BY <1>2, <2>1, <2>2, RevokedRule
<1> QED
  BY <1>1, <1>8, <1>9, <1>10 DEF CancelInv

\* Steps that send a request that is no Promise, or the Promise of a call that
\* was not given up.
LEMMA SendKeepsCancels ==
    ASSUME CancelInv, CallInv', NEW y \in RequestMessages, SendRequest(y) \/ toServer' = toServer,
           KeepsIds, \A c \in Calls : id'[c] = id[c],
           UNCHANGED <<isDisposed, pending, running, cancelled, serverActive>>,
           sentLate \subseteq sentLate', missed \subseteq missed',
           uninitialized' \cap Calls \subseteq uninitialized,
           \A c \in Calls : outcome'[c] = "cancelled" => outcome[c] = "cancelled",
           y.type = "Promise" => /\ y.name \in Calls /\ y.name \notin uninitialized'
                                 /\ outcome[y.name] = "cancelled" => y.name \in sentLate'
    PROVE  CancelInv'
<1>0. TypeOK
  BY DEF CancelInv, CallInv, IdInv
<1>1. Elements(toServer') \subseteq Elements(toServer) \cup {y}
  BY <1>0, SendRequestFacts
<1>2. WaitingUnsent'
  <2>1. ASSUME NEW m \in RequestMessages, m.type = "Promise", m.name \in uninitialized' \cap Calls, Unsent(m)
        PROVE  Unsent(m)'
    BY <1>1, <2>1 DEF Unsent, Held
  <2> QED
    BY <2>1, UnsentRule
<1>3. Cancellable'
  BY DEF CancelInv, Cancellable
<1>4. GivenUp'
  <2>1. ASSUME NEW m, NEW x, NEW c \in Calls \ (sentLate' \cup missed'),
               outcome[c] = "cancelled", m = PromiseOf(c), Revoked(m, x, c)
        PROVE  Revoked(m, x, c)'
    <3>1. m.name = c /\ m.type = "Promise"
      <4>1. PromiseOf(c).name = c /\ PromiseOf(c).type = "Promise"
        BY Zenon DEF PromiseOf, Request
      <4> QED
        BY <2>1, <4>1
    <3>2. m # y
      BY <2>1, <3>1
    <3>3. CASE SendRequest(y)
      BY <1>0, <2>1, <3>2, <3>3, AppendRevoked
    <3>4. CASE toServer' = toServer
      BY <2>1, <3>4 DEF Revoked, Held
    <3> QED
      BY <3>3, <3>4
  <2> QED
    BY <2>1, RevokedRule
<1> QED
  BY <1>2, <1>3, <1>4 DEF CancelInv

LEMMA AddFirstListenerCancels == ASSUME CancelInv, NEW e \in Events, AddFirstListener(e) PROVE CancelInv'
<1> USE RequestSets
<1> DEFINE i == IF id[e] = -1 THEN lastRequestId ELSE id[e]
<1>0. CallInv /\ IdInv /\ TypeOK /\ e \in Requests /\ (~HasId(e) => e \notin Used)
  BY DEF CancelInv, CallInv, IdInv, AddFirstListener, Used, HasId
<1>1. CallInv'
  BY <1>0, AddFirstListenerCalls
<1>2. i \in Ids
  <2>1. CASE HasId(e)
    BY <1>0, <2>1 DEF HasId, TypeOK
  <2>2. CASE ~HasId(e)
    BY <1>0, <2>2, NewId DEF HasId
  <2> QED
    BY <2>1, <2>2
<1>3. PICK y \in RequestMessages : y = Request("EventListen", i, e) /\ y.type = "EventListen"
  <2> HIDE DEF i
  <2> QED
    BY <1>0, <1>2, NewRequest
<1>4. /\ id' = [id EXCEPT ![e] = i] /\ uninitialized' \subseteq uninitialized \cup {e}
      /\ UNCHANGED <<isDisposed, outcome, pending, running, cancelled, serverActive, sentLate, missed>>
  BY DEF AddFirstListener, server, history
<1>5. SendRequest(y) \/ toServer' = toServer
  BY <1>3 DEF AddFirstListener
<1>6. KeepsIds /\ \A c \in Calls : id'[c] = id[c]
  BY <1>0, <1>4 DEF KeepsIds, HasId, TypeOK
<1>7. uninitialized' \cap Calls \subseteq uninitialized
  BY <1>4
<1> QED
  BY <1>1, <1>3, <1>4, <1>5, <1>6, <1>7, SendKeepsCancels

LEMMA RemoveLastListenerCancels == ASSUME CancelInv, NEW e \in Events, RemoveLastListener(e) PROVE CancelInv'
<1> USE RequestSets
<1>0. CallInv /\ IdInv /\ e \in Requests /\ id[e] \in Ids
  BY DEF CancelInv, CallInv, IdInv, RemoveLastListener, ClientIds, HasId, TypeOK
<1>1. CallInv'
  BY <1>0, RemoveLastListenerCalls
<1>3. PICK y \in RequestMessages : y = Request("EventDispose", id[e], e) /\ y.type = "EventDispose"
  BY <1>0, NewRequest
<1>4. /\ id' = id /\ uninitialized' \subseteq uninitialized
      /\ UNCHANGED <<isDisposed, outcome, pending, running, cancelled, serverActive, sentLate, missed>>
  BY DEF RemoveLastListener, server, history
<1>5. SendRequest(y) \/ toServer' = toServer
  BY <1>3 DEF RemoveLastListener
<1> QED
  BY <1>1, <1>3, <1>4, <1>5, SendKeepsCancels DEF KeepsIds

LEMMA DoRequestCancels == ASSUME CancelInv, NEW r \in Requests, DoRequest(r) PROVE CancelInv'
<1> USE RequestSets
<1>0. CallInv /\ IdInv /\ id[r] \in Ids
  BY DEF CancelInv, CallInv, IdInv, ClientIds, DoRequest, TypeOK, HasId
<1>1. CallInv'
  BY <1>0, DoRequestCalls
<1>2. /\ id' = id /\ uninitialized' = uninitialized \ {r} /\ sentLate \subseteq sentLate'
      /\ r \notin uninitialized => r \in sentLate'
      /\ UNCHANGED <<isDisposed, outcome, pending, running, cancelled, serverActive, missed>>
  BY DEF DoRequest, server
<1> DEFINE t == IF r \in Calls THEN "Promise" ELSE "EventListen"
<1>3. PICK y \in RequestMessages : y = Request(t, id[r], r) /\ y.type = t /\ y.name = r
  <2>1. t \in {"Promise", "PromiseCancel", "EventListen", "EventDispose"}
    OBVIOUS
  <2> HIDE DEF t
  <2> QED
    BY <1>0, <2>1, NewRequest
<1>4. SendRequest(y)
  BY <1>3 DEF DoRequest
<1>5. y.type = "Promise" => /\ y.name \in Calls /\ y.name \notin uninitialized'
                            /\ outcome[y.name] = "cancelled" => y.name \in sentLate'
  <2>1. r \in Calls /\ r \in uninitialized => outcome[r] = "pending"
    BY <1>0 DEF CallInv, ActiveCalls
  <2> QED
    BY <1>2, <1>3, <2>1
<1> QED
  BY <1>1, <1>2, <1>4, <1>5, SendKeepsCancels DEF KeepsIds

LEMMA CancelCancels == ASSUME CancelInv, NEW c \in Calls, Cancel(c) PROVE CancelInv'
<1> USE RequestSets
<1>0. CallInv /\ IdInv /\ TypeOK /\ c \in Requests /\ id[c] \in Ids /\ outcome[c] = "pending"
  BY DEF CancelInv, CallInv, IdInv, ClientIds, Cancel, TypeOK, HasId
<1>1. CallInv'
  BY <1>0, CancelCalls
<1>2. /\ outcome' = [outcome EXCEPT ![c] = "cancelled"] /\ uninitialized' = uninitialized \ {c}
      /\ UNCHANGED <<id, isDisposed, pending, running, cancelled, serverActive, sentLate, missed>> /\ KeepsIds
  BY DEF Cancel, server, history, KeepsIds
<1>3. PICK y \in RequestMessages : y = Request("PromiseCancel", id[c], c) /\ y.type = "PromiseCancel"
  BY <1>0, NewRequest
<1>4. (c \in uninitialized => toServer' = toServer) /\ (c \notin uninitialized => SendRequest(y))
  BY <1>3 DEF Cancel
<1>5. Elements(toServer') \subseteq Elements(toServer) \cup {y}
  BY <1>0, <1>4, SendRequestFacts
<1>6. WaitingUnsent'
  <2>1. \A m \in RequestMessages : m.type = "Promise" /\ Unsent(m) => Unsent(m)'
    BY <1>2, <1>3, <1>5 DEF Unsent, Held
  <2> QED
    BY <1>2, <2>1, UnsentRule
<1>7. Cancellable'
  BY <1>2 DEF CancelInv, Cancellable
<1>8. ASSUME NEW d \in Calls \ (sentLate \cup missed), outcome'[d] = "cancelled", ~isDisposed
      PROVE  Revoked(PromiseOf(d), CancelOf(d), d)'
  <2>1. PICK m, x : m = PromiseOf(d) /\ x = CancelOf(d) /\ m = PromiseOf(d)' /\ x = CancelOf(d)'
    BY <1>2 DEF PromiseOf, CancelOf
  <2>2. m # y
    <3>1. PromiseOf(d).type = "Promise"
      BY Zenon DEF PromiseOf, Request
    <3> QED
      BY <1>3, <2>1, <3>1
  <2>3. CASE d # c
    <3>1. Revoked(m, x, d)
      <4>1. outcome[d] = "cancelled"
        BY <1>0, <1>2, <1>8, <2>3 DEF TypeOK
      <4>2. Revoked(PromiseOf(d), CancelOf(d), d)
        BY <1>8, <4>1 DEF CancelInv, GivenUp
      <4> QED
        BY <2>1, <4>2 DEF Revoked
    <3>2. Revoked(m, x, d)'
      <4>1. CASE c \in uninitialized
        BY <1>2, <1>4, <3>1, <4>1 DEF Revoked, Held
      <4>2. CASE c \notin uninitialized
        BY <1>0, <1>2, <1>4, <2>2, <3>1, <4>2, AppendRevoked
      <4> QED
        BY <4>1, <4>2
    <3> QED
      BY <2>1, <3>2 DEF Revoked
  <2>4. CASE d = c /\ c \in uninitialized
    <3>1. Unsent(m) /\ toServer' = toServer
      BY <1>4, <2>1, <2>4 DEF CancelInv, WaitingUnsent
    <3>2. Revoked(m, x, d)'
      BY <1>2, <3>1 DEF Unsent, Revoked, Held, Elements
    <3> QED
      BY <2>1, <3>2 DEF Revoked
  <2>5. CASE d = c /\ c \notin uninitialized
    <3>1. toServer' = Append(toServer, y) /\ toServer \in Seq(RequestMessages) /\ x = y
      BY <1>0, <1>3, <1>4, <1>8, <2>1, <2>5 DEF SendRequest, CancelOf, TypeOK
    <3>2. /\ Len(toServer') = Len(toServer) + 1 /\ Len(toServer) \in Nat
          /\ \A k \in 1..Len(toServer) : toServer'[k] = toServer[k]
          /\ toServer'[Len(toServer) + 1] = x /\ x \in Elements(toServer')
      BY <3>1, AppendFacts
    <3>3. ASSUME NEW k \in 1..Len(toServer'), toServer'[k] = m
          PROVE  \E j \in 1..Len(toServer') : k < j /\ toServer'[j] = x
      <4>1. k < Len(toServer')
        BY <2>2, <3>1, <3>2, <3>3
      <4> QED
        BY <3>2, <4>1
    <3>4. Revoked(m, x, d)'
      BY <3>2, <3>3 DEF Revoked
    <3> QED
      BY <2>1, <3>4 DEF Revoked
  <2> QED
    BY <2>3, <2>4, <2>5
<1>9. GivenUp'
  BY <1>2, <1>8 DEF GivenUp
<1> QED
  BY <1>1, <1>6, <1>7, <1>9 DEF CancelInv

LEMMA DisposeClientCancels == ASSUME CancelInv, DisposeClient PROVE CancelInv'
<1>0. CallInv /\ IdInv /\ TypeOK
  BY DEF CancelInv, CallInv, IdInv
<1>1. CallInv'
  BY <1>0, DisposeClientCalls
<1>2. /\ isDisposed' = TRUE /\ uninitialized' = uninitialized \ active
      /\ UNCHANGED <<id, pending, running, cancelled, serverActive>> /\ KeepsIds
  BY DEF DisposeClient, server, KeepsIds
<1>3. PICK s \in Seq(RequestMessages) :
         /\ toServer' = toServer \o s
         /\ \A m \in Elements(s) : m.type = (IF m.name \in Calls THEN "PromiseCancel" ELSE "EventDispose")
  BY <1>0, FarewellFacts
<1>4. Elements(toServer') = Elements(toServer) \cup Elements(s)
  BY <1>0, <1>3, ConcatFacts DEF TypeOK
<1>5. WaitingUnsent'
  <2>1. \A m \in RequestMessages : m.type = "Promise" /\ Unsent(m) => Unsent(m)'
    BY <1>2, <1>3, <1>4 DEF Unsent, Held
  <2> QED
    BY <1>2, <2>1, UnsentRule
<1>6. Cancellable' /\ GivenUp'
  BY <1>2 DEF CancelInv, Cancellable, GivenUp
<1> QED
  BY <1>1, <1>5, <1>6 DEF CancelInv

\* What is started can be cancelled.
LEMMA StartCancels ==
    ASSUME CancelInv, UNCHANGED <<id, cancelled>>, NEW reqs \in Seq(RequestMessages), Start(reqs),
           \A m \in Elements(reqs) : Genuine(m) /\ m.type \in {"Promise", "EventListen"}
    PROVE  Cancellable' /\ running' \subseteq running \cup Elements(reqs)
<1> USE RequestSets
<1>0. IdInv /\ TypeOK
  BY DEF CancelInv, CallInv, IdInv
<1>1. running' = running \cup {m \in Elements(reqs) : m.type = "Promise"}
  BY <1>0, StartFacts
<1>2. \A i \in Ids :
         \/ serverActive'[i] = serverActive[i] /\ \A k \in 1..Len(reqs) : reqs[k].id # i
         \/ \E k \in 1..Len(reqs) : reqs[k].id = i /\ serverActive'[i] = reqs[k].name
  BY <1>0, StartFacts
<1>3. \A k \in 1..Len(reqs) : reqs[k] \in Elements(reqs) /\ reqs[k] \in RequestMessages
  BY ElementsFacts
<1>4. ASSUME NEW m \in RequestMessages, Genuine(m), NEW n \in RequestMessages, Genuine(n), n.id = m.id PROVE n.name = m.name
  <2>1. m.id \in Ids /\ m.name \in Requests /\ n.name \in Requests
    BY MessageFacts
  <2>2. id[m.name] = m.id /\ id[n.name] = m.id
    BY <1>4 DEF Genuine
  <2> QED
    BY <1>0, <2>1, <2>2 DEF IdInv, IdsAreUnique, HasId
<1>5. ASSUME NEW m \in running', m.name \notin cancelled' PROVE serverActive'[m.id] = m.name
  <2>1. m \in RequestMessages /\ Genuine(m) /\ m.id \in Ids
    <3>1. m \in RequestMessages /\ Genuine(m)
      BY <1>0, <1>1, ElementsFacts DEF IdInv, TypeOK, MessagesAreGenuine
    <3> QED
      BY <3>1, MessageFacts
  <2>2. CASE \E k \in 1..Len(reqs) : reqs[k].id = m.id /\ serverActive'[m.id] = reqs[k].name
    BY <1>3, <1>4, <2>1, <2>2
  <2>3. CASE serverActive'[m.id] = serverActive[m.id] /\ \A k \in 1..Len(reqs) : reqs[k].id # m.id
    <3>1. m \notin Elements(reqs)
      BY <2>3 DEF Elements
    <3> QED
      BY <1>1, <1>5, <2>3, <3>1 DEF CancelInv, Cancellable
  <2> QED
    BY <1>2, <2>1, <2>2, <2>3
<1> QED
  BY <1>1, <1>5 DEF Cancellable

LEMMA ReceiveRequestCancels == ASSUME CancelInv, ReceiveRequest PROVE CancelInv'
<1>0. CallInv /\ IdInv /\ TypeOK /\ toServer # <<>> /\ toServer \in Seq(RequestMessages) /\ pending \in Seq(PendingRequests)
  BY DEF CancelInv, CallInv, IdInv, TypeOK, ReceiveRequest
<1>1. CallInv'
  BY <1>0, ReceiveRequestCalls
<1>2. PICK y \in RequestMessages : y = Head(toServer) /\ y \in Elements(toServer) /\ y.type \in {"Promise", "EventListen"}
  BY <1>0, TailFacts DEF ReceiveRequest
<1>3. /\ toServer' = Tail(toServer) /\ KeepsIds
      /\ UNCHANGED <<id, isDisposed, uninitialized, outcome, cancelled, sentLate, missed>>
  BY DEF ReceiveRequest, client, KeepsIds
<1>4. Genuine(y)
  BY <1>0, <1>2 DEF IdInv, MessagesAreGenuine
<1>5. Cancellable' /\ running' \subseteq running \cup {y} /\ Held' \subseteq Held \cup {y}
  <2>1. CASE registered
    <3>1. PICK reqs \in Seq(RequestMessages) : reqs = <<y>> /\ Elements(reqs) = {y}
      BY OneRequest
    <3>2. Start(reqs) /\ pending' = pending
      BY <1>2, <2>1, <3>1 DEF ReceiveRequest
    <3>3. Cancellable' /\ running' \subseteq running \cup {y}
      BY <1>2, <1>3, <1>4, <3>1, <3>2, StartCancels
    <3> QED
      BY <3>2, <3>3 DEF Held
  <2>2. CASE ~registered
    <3>1. PICK p \in PendingRequests : p = [request |-> y, timer |-> TRUE] /\ p.request = y
      BY NewPending
    <3>2. pending' = Append(pending, p) /\ UNCHANGED <<running, serverActive>>
      BY <1>2, <2>2, <3>1 DEF ReceiveRequest
    <3>3. Elements(pending') = Elements(pending) \cup {p}
      BY <1>0, <3>2, AppendFacts
    <3>4. Cancellable'
      BY <1>3, <3>2 DEF CancelInv, Cancellable
    <3> QED
      BY <3>1, <3>2, <3>3, <3>4 DEF Held
  <2> QED
    BY <2>1, <2>2
<1>6. WaitingUnsent'
  <2>1. Elements(toServer') \subseteq Elements(toServer)
    BY <1>0, <1>3, TailFacts
  <2>2. \A m \in RequestMessages : Unsent(m) => Unsent(m)'
    BY <1>2, <1>5, <2>1 DEF Unsent
  <2> QED
    BY <1>3, <2>2, UnsentRule
<1>7. GivenUp'
  <2>1. ASSUME NEW m, NEW x, NEW c \in Calls, x = CancelOf(c), Revoked(m, x, c) PROVE Revoked(m, x, c)'
    <3>1. /\ \A k \in 1..Len(toServer') : toServer'[k] = m => \E j \in 1..Len(toServer') : k < j /\ toServer'[j] = x
          /\ y = m => x \in Elements(toServer')
          /\ m \in Held \/ (m \in running /\ c \notin cancelled) => x = y \/ x \in Elements(toServer')
      BY <1>0, <1>2, <1>3, <2>1, TailRevoked
    <3>2. x # y
      <4>1. CancelOf(c).type = "PromiseCancel"
        BY Zenon DEF CancelOf, Request
      <4> QED
        BY <1>2, <2>1, <4>1
    <3> QED
      BY <1>3, <1>5, <3>1, <3>2 DEF Revoked
  <2> QED
    BY <1>3, <2>1, RevokedRule
<1> QED
  BY <1>1, <1>5, <1>6, <1>7 DEF CancelInv

LEMMA ReceiveDisposeCancels == ASSUME CancelInv, ReceiveDispose PROVE CancelInv'
<1> USE RequestSets
<1>0. CallInv /\ IdInv /\ TypeOK /\ toServer \in Seq(RequestMessages) /\ pending \in Seq(PendingRequests)
  BY DEF CancelInv, CallInv, IdInv, TypeOK
<1>1. CallInv'
  BY <1>0, ReceiveDisposeCalls
<1>2. PICK y \in RequestMessages, r \in Requests \cup {None} :
         /\ toServer # <<>> /\ y = Head(toServer) /\ Genuine(y) /\ y.name \in Requests /\ y.id \in Ids
         /\ r = serverActive[y.id] /\ (r # None => r = y.name)
         /\ toServer' = Tail(toServer) /\ serverActive' = [serverActive EXCEPT ![y.id] = None]
         /\ cancelled' = cancelled \cup (Calls \cap {r})
         /\ missed' = missed \cup {x \in Requests : \E k \in DOMAIN pending :
                                     pending[k].request.name = x /\ x = y.name}
         /\ UNCHANGED <<client, toClient, registered, flushDue, pending, running, serverDisposed,
                        fires, heard, sentLate>>
  BY <1>0, DisposeFacts
<1>3. UNCHANGED <<id, isDisposed, uninitialized, outcome, pending, running, sentLate>> /\ KeepsIds /\ Held' = Held
  BY <1>2 DEF client, KeepsIds, Held
<1>4. \A m \in running : m \in RequestMessages /\ m.name \in Calls /\ m.id \in Ids /\ m.id = id[m.name]
  <2>1. \A m \in running : m \in RequestMessages /\ Genuine(m) /\ m.type = "Promise"
    BY <1>0 DEF IdInv, TypeOK, MessagesAreGenuine
  <2> QED
    BY <2>1, PromiseIs
<1>5. Cancellable'
  <2>1. ASSUME NEW m \in running', m.name \notin cancelled' PROVE serverActive'[m.id] = m.name
    <3>1. m \in running /\ m.name \notin cancelled /\ serverActive[m.id] = m.name /\ m.id \in Ids /\ m.name \in Calls
      BY <1>2, <1>3, <1>4, <2>1 DEF CancelInv, Cancellable
    <3>2. m.id # y.id
      BY <1>2, <2>1, <3>1
    <3> QED
      BY <1>0, <1>2, <3>1, <3>2 DEF TypeOK
  <2> QED
    BY <2>1 DEF Cancellable
<1>6. WaitingUnsent'
  <2>1. Elements(toServer') \subseteq Elements(toServer)
    BY <1>0, <1>2, TailFacts
  <2>2. \A m \in RequestMessages : Unsent(m) => Unsent(m)'
    BY <1>3, <2>1 DEF Unsent
  <2> QED
    BY <1>3, <2>2, UnsentRule
<1>7. GivenUp'
  <2>1. ASSUME NEW m, NEW x, NEW c \in Calls \ (sentLate' \cup missed'), m = PromiseOf(c), x = CancelOf(c), Revoked(m, x, c)
        PROVE  Revoked(m, x, c)'
    <3>1. /\ \A k \in 1..Len(toServer') : toServer'[k] = m => \E j \in 1..Len(toServer') : k < j /\ toServer'[j] = x
          /\ m \in Held \/ (m \in running /\ c \notin cancelled) => x = y \/ x \in Elements(toServer')
      <4>1. TypeOK /\ toServer # <<>> /\ toServer' = Tail(toServer) /\ y = Head(toServer) /\ Revoked(m, x, c)
        BY <1>0, <1>2, <2>1
      <4> QED
        BY <4>1, TailRevoked
    <3>2. m.name = c /\ m.id = id[c] /\ x.name = c /\ x.id = id[c]
      <4>1. PromiseOf(c).name = c /\ PromiseOf(c).id = id[c] /\ CancelOf(c).name = c /\ CancelOf(c).id = id[c]
        BY Zenon DEF PromiseOf, CancelOf, Request
      <4> QED
        BY <2>1, <4>1
    <3>3. ASSUME m \in Held, x = y PROVE FALSE
      <4>1. PICK p \in Elements(pending) : p.request = m
        BY <3>3 DEF Held
      <4>2. PICK k \in 1..Len(pending) : pending[k] = p
        BY <4>1 DEF Elements
      <4>3. DOMAIN pending = 1..Len(pending)
        BY <1>0, ElementsFacts
      <4> QED
        BY <1>2, <2>1, <3>2, <3>3, <4>1, <4>2, <4>3
    <3>4. ASSUME m \in running, c \notin cancelled, x = y PROVE c \in cancelled'
      <4>1. serverActive[y.id] = c
        BY <3>2, <3>4 DEF CancelInv, Cancellable
      <4> QED
        BY <1>2, <4>1
    <3> QED
      BY <1>2, <1>3, <3>1, <3>3, <3>4 DEF Revoked
  <2> QED
    BY <1>2, <1>3, <2>1, RevokedRule
<1> QED
  BY <1>1, <1>5, <1>6, <1>7 DEF CancelInv

LEMMA FinishCancels ==
    ASSUME CancelInv, NEW x \in running, NEW t \in {"PromiseSuccess", "PromiseError"}, Finish(x, t)
    PROVE  CancelInv'
<1> USE RequestSets
<1>0. CallInv /\ IdInv /\ TypeOK
  BY DEF CancelInv, CallInv, IdInv
<1>1. CallInv'
  BY <1>0, FinishCalls
<1>2. /\ running' = running \ {x} /\ serverActive' = [serverActive EXCEPT ![x.id] = None]
      /\ cancelled' = cancelled \cup {x.name}
      /\ UNCHANGED <<id, isDisposed, uninitialized, outcome, toServer, pending, sentLate, missed>> /\ KeepsIds
  BY DEF Finish, client, history, KeepsIds
<1>3. \A m \in running : m \in RequestMessages /\ m.name \in Calls /\ m.id \in Ids /\ m.id = id[m.name]
  <2>1. \A m \in running : m \in RequestMessages /\ Genuine(m) /\ m.type = "Promise"
    BY <1>0 DEF IdInv, TypeOK, MessagesAreGenuine
  <2> QED
    BY <2>1, PromiseIs
<1>4. Cancellable'
  <2>1. ASSUME NEW m \in running', m.name \notin cancelled' PROVE serverActive'[m.id] = m.name
    <3>1. m \in running /\ m.name \notin cancelled /\ m.name # x.name /\ serverActive[m.id] = m.name
      BY <1>2, <2>1 DEF CancelInv, Cancellable
    <3>2. m.id # x.id /\ m.id \in Ids
      BY <1>0, <1>3, <3>1 DEF IdInv, IdsAreUnique, HasId
    <3> QED
      BY <1>0, <1>2, <3>1, <3>2 DEF TypeOK
  <2> QED
    BY <2>1 DEF Cancellable
<1>5. WaitingUnsent'
  <2>1. \A m \in RequestMessages : Unsent(m) => Unsent(m)'
    BY <1>2 DEF Unsent, Held
  <2> QED
    BY <1>2, <2>1, UnsentRule
<1>6. GivenUp'
  <2>1. \A m, y : \A c \in Calls : Revoked(m, y, c) => Revoked(m, y, c)'
    BY <1>2 DEF Revoked, Held
  <2> QED
    BY <1>2, <2>1, RevokedRule
<1> QED
  BY <1>1, <1>4, <1>5, <1>6 DEF CancelInv

LEMMA FlushPendingRequestsCancels == ASSUME CancelInv, FlushPendingRequests PROVE CancelInv'
<1>0. CallInv /\ IdInv
  BY DEF CancelInv, CallInv
<1>1. CallInv'
  BY <1>0, FlushPendingRequestsCalls
<1>2. PICK reqs : reqs = [k \in DOMAIN pending |-> pending[k].request]
  OBVIOUS
<1>3. /\ reqs \in Seq(RequestMessages)
      /\ \A m \in Elements(reqs) : \E p \in Elements(pending) : m = p.request
      /\ \A m \in Elements(reqs) : Genuine(m) /\ m.type \in {"Promise", "EventListen"}
  BY <1>0, <1>2, WaitingFacts
<1>4. /\ UNCHANGED <<id, isDisposed, uninitialized, outcome, toServer, cancelled, sentLate, missed>> /\ KeepsIds
      /\ Start(reqs) /\ pending' = <<>>
  BY <1>2 DEF FlushPendingRequests, client, KeepsIds
<1>5. Cancellable' /\ running' \subseteq running \cup Elements(reqs)
  BY <1>3, <1>4, StartCancels
<1>6. running' \subseteq running \cup Held /\ Held' = {}
  BY <1>3, <1>4, <1>5, EmptyFacts DEF Held
<1>7. WaitingUnsent'
  <2>1. \A m \in RequestMessages : Unsent(m) => Unsent(m)'
    BY <1>4, <1>6 DEF Unsent
  <2> QED
    BY <1>4, <2>1, UnsentRule
<1>8. GivenUp'
  <2>1. \A m, y : \A c \in Calls : Revoked(m, y, c) => Revoked(m, y, c)'
    BY <1>4, <1>6 DEF Revoked
  <2> QED
    BY <1>4, <2>1, RevokedRule
<1> QED
  BY <1>1, <1>5, <1>7, <1>8 DEF CancelInv

LEMMA DisposeServerCancels == ASSUME CancelInv, DisposeServer PROVE CancelInv'
<1>0. CallInv /\ IdInv
  BY DEF CancelInv, CallInv
<1>1. CallInv'
  BY <1>0, DisposeServerCalls
<1>2. /\ cancelled' = cancelled \cup {c \in Calls : \E i \in Ids : serverActive[i] = c}
      /\ UNCHANGED <<id, isDisposed, uninitialized, outcome, toServer, pending, running, sentLate, missed>> /\ KeepsIds
  BY DEF DisposeServer, client, history, KeepsIds
<1>3. \A m \in running : m.name \in Calls /\ m.id \in Ids
  <2>1. \A m \in running : m \in RequestMessages /\ Genuine(m) /\ m.type = "Promise"
    BY <1>0 DEF IdInv, TypeOK, MessagesAreGenuine
  <2> QED
    BY <2>1, PromiseIs
<1>4. Cancellable'
  BY <1>2, <1>3 DEF CancelInv, Cancellable
<1>5. WaitingUnsent'
  <2>1. \A m \in RequestMessages : Unsent(m) => Unsent(m)'
    BY <1>2 DEF Unsent, Held
  <2> QED
    BY <1>2, <2>1, UnsentRule
<1>6. GivenUp'
  <2>1. \A m, y : \A c \in Calls : Revoked(m, y, c) => Revoked(m, y, c)'
    BY <1>2 DEF Revoked, Held
  <2> QED
    BY <1>2, <2>1, RevokedRule
<1> QED
  BY <1>1, <1>4, <1>5, <1>6 DEF CancelInv

\* A call that was given up is followed by its cancellation, which finds the
\* call at the server.
THEOREM CancellationsFollow == Spec => []CancelInv
<1>1. Init => CancelInv
  <2> SUFFICES ASSUME Init PROVE CancelInv
    OBVIOUS
  <2>1. IdInv
    BY InitId
  <2>2. ActiveCalls /\ Awaited /\ ServedCalls /\ OwnAnswer
    BY RequestSets DEF Init, ActiveCalls, Awaited, ServedCalls, OwnAnswer
  <2>3. WaitingUnsent /\ Cancellable /\ GivenUp
    BY DEF Init, WaitingUnsent, Cancellable, GivenUp
  <2> QED
    BY <2>1, <2>2, <2>3 DEF CallInv, CancelInv
<1>2. CancelInv /\ [Next]_vars => CancelInv'
  <2> SUFFICES ASSUME CancelInv, [Next]_vars PROVE CancelInv'
    OBVIOUS
  <2>1. CASE \E c \in Calls : Call(c) \/ CallRejected(c) \/ Cancel(c)
    BY <2>1, CallCancels, CallRejectedCancels, CancelCancels
  <2>2. CASE \E e \in Events : AddFirstListener(e) \/ RemoveLastListener(e) \/ Fire(e)
    BY <2>2, AddFirstListenerCancels, RemoveLastListenerCancels, FireCancels
  <2>3. CASE \E r \in Requests : Initialized(r) \/ DoRequest(r)
    BY <2>3, InitializedCancels, DoRequestCancels
  <2>4. CASE ReceiveInitialize \/ ReceiveResponse \/ DisposeClient
    BY <2>4, ReceiveInitializeCancels, ReceiveResponseCancels, DisposeClientCancels
  <2>5. CASE ReceiveRequest \/ ReceiveDispose
    BY <2>5, ReceiveRequestCancels, ReceiveDisposeCancels
  <2>6. CASE \E x \in running, type \in {"PromiseSuccess", "PromiseError"} : Finish(x, type)
    BY <2>6, FinishCancels
  <2>7. CASE RegisterChannel \/ FlushPendingRequests \/ DisposeServer
    BY <2>7, RegisterChannelCancels, FlushPendingRequestsCancels, DisposeServerCancels
  <2>8. CASE \E k \in DOMAIN pending : PendingTimeout(k)
    BY <2>8, PendingTimeoutCancels
  <2>9. CASE UNCHANGED vars
    <3>1. IdInv'
      BY <2>9, StutterId DEF CancelInv, CallInv
    <3>2. ActiveCalls' /\ OwnAnswer' /\ Awaited' /\ ServedCalls'
      BY <2>9 DEF vars, client, server, CancelInv, CallInv, ActiveCalls, OwnAnswer, Awaited, ServedCalls, Flies, PromiseOf
    <3>3. CallInv'
      BY <3>1, <3>2 DEF CallInv
    <3>4. UNCHANGED <<id, isDisposed, outcome, toServer, running, cancelled, serverActive, uninitialized, pending, sentLate, missed>>
      BY <2>9 DEF vars, client, server, history
    <3> QED
      BY <3>3, <3>4, CancelKept DEF Held
  <2> QED
    BY <2>1, <2>2, <2>3, <2>4, <2>5, <2>6, <2>7, <2>8, <2>9, Zenon DEF Next
<1> QED
  BY <1>1, <1>2, PTL DEF Spec

\* When the caller has given up and the messages have arrived, the service's
\* token is cancelled if the call still runs.
THEOREM CancellationReaches == Spec => []CancelReaches
<1>1. CancelInv => CancelReaches
  <2> SUFFICES ASSUME CancelInv, Quiet, NEW m \in running, outcome[m.name] = "cancelled",
                      m.name \notin sentLate \cup missed, m.name \notin cancelled
               PROVE  FALSE
    BY DEF CancelReaches
  <2>1. Elements(toServer) = {} /\ ~isDisposed
    BY EmptyFacts DEF Quiet
  <2>2. m \in RequestMessages /\ Genuine(m) /\ m.type = "Promise"
    BY DEF CancelInv, CallInv, IdInv, TypeOK, MessagesAreGenuine
  <2>3. m = PromiseOf(m.name) /\ m.name \in Calls
    BY <2>2, PromiseIs
  <2>4. Revoked(PromiseOf(m.name), CancelOf(m.name), m.name)
    BY <2>1, <2>3 DEF CancelInv, GivenUp
  <2> QED
    BY <2>1, <2>3, <2>4 DEF Revoked
<1> QED
  BY <1>1, CancellationsFollow, PTL

-----------------------------------------------------------------------------
(* Subscriptions *)

\* Messages about an event listen or dispose.
LEMMA AboutFacts ==
    ASSUME IdInv, NEW e \in Events
    PROVE  /\ About(e) \subseteq 1..Len(toServer) /\ Len(toServer) \in Nat /\ toServer \in Seq(RequestMessages)
           /\ \A k \in About(e) : toServer[k].name = e /\ toServer[k].type \in {"EventListen", "EventDispose"}
<1>1. toServer \in Seq(RequestMessages) /\ Len(toServer) \in Nat /\ About(e) \subseteq 1..Len(toServer)
  BY ElementsFacts DEF IdInv, TypeOK, About
<1>2. ASSUME NEW k \in About(e) PROVE toServer[k].name = e /\ toServer[k].type \in {"EventListen", "EventDispose"}
  <2>1. toServer[k].name = e /\ toServer[k] \in RequestMessages /\ toServer[k] \in Elements(toServer)
    BY <1>1, ElementsFacts DEF About
  <2>2. Genuine(toServer[k])
    BY <2>1 DEF IdInv, MessagesAreGenuine
  <2>3. toServer[k].type \in {"Promise", "PromiseCancel", "EventListen", "EventDispose"}
    BY <2>1, MessageFacts
  <2> QED
    BY <2>1, <2>2, <2>3, RequestSets DEF Genuine
<1> QED
  BY <1>1, <1>2

LEMMA TurnsKept ==
    ASSUME NEW e, TakeTurns(e), About(e)' = About(e), \A k \in About(e) : toServer'[k] = toServer[k],
           Has(e)' <=> Has(e), Wanted(e)' <=> Wanted(e)
    PROVE  TakeTurns(e)'
  BY DEF TakeTurns

LEMMA SendOther ==
    ASSUME IdInv, NEW e \in Events, TakeTurns(e), NEW y \in RequestMessages, SendRequest(y) \/ toServer' = toServer,
           SendRequest(y) => y.name # e,
           Has(e)' <=> Has(e), Wanted(e)' <=> Wanted(e)
    PROVE  TakeTurns(e)'
<1>1. CASE toServer' = toServer
  <2>1. About(e)' = About(e)
    BY <1>1 DEF About
  <2> QED
    BY <1>1, <2>1, TurnsKept
<1>2. CASE toServer' # toServer
  <2>1. toServer' = Append(toServer, y) /\ y.name # e
    BY <1>2 DEF SendRequest
  <2>2. /\ Len(toServer') = Len(toServer) + 1 /\ Len(toServer) \in Nat
        /\ \A k \in 1..Len(toServer) : toServer'[k] = toServer[k]
        /\ toServer'[Len(toServer) + 1] = y
    BY <2>1, AppendFacts DEF IdInv, TypeOK
  <2>3. About(e)' = About(e) /\ \A k \in About(e) : toServer'[k] = toServer[k]
    BY <2>1, <2>2 DEF About
  <2> QED
    BY <2>3, TurnsKept
<1> QED
  BY <1>1, <1>2

\* The client changes its mind, and says so.
LEMMA SendTurn ==
    ASSUME IdInv, NEW e \in Events, TakeTurns(e), NEW y \in RequestMessages, toServer' = Append(toServer, y),
           y.name = e, y.type \in {"EventListen", "EventDispose"},
           Wanted(e)' <=> y.type = "EventListen", Wanted(e) <=> y.type # "EventListen", Has(e)' <=> Has(e)
    PROVE  TakeTurns(e)'
<1>1. /\ About(e) \subseteq 1..Len(toServer) /\ Len(toServer) \in Nat /\ toServer \in Seq(RequestMessages)
      /\ \A k \in About(e) : toServer[k].type \in {"EventListen", "EventDispose"}
  BY AboutFacts
<1> DEFINE n == Len(toServer) + 1
<1>2. /\ Len(toServer') = n /\ n \in Nat
      /\ \A k \in 1..Len(toServer) : toServer'[k] = toServer[k]
      /\ toServer'[n] = y
  BY <1>1, AppendFacts
<1>3. About(e)' = About(e) \cup {n} /\ \A k \in About(e) : k < n /\ toServer'[k] = toServer[k] /\ k \in Nat
  BY <1>1, <1>2 DEF About
<1>4. /\ \A k, l \in About(e) : k < l /\ (\A j \in About(e) : j <= k \/ l <= j) => toServer[k].type # toServer[l].type
      /\ \A k \in About(e) : (\A j \in About(e) : k <= j) => (Has(e) <=> toServer[k].type = "EventDispose")
      /\ \A k \in About(e) : (\A j \in About(e) : j <= k) => (Wanted(e) <=> toServer[k].type = "EventListen")
      /\ About(e) = {} => (Has(e) <=> Wanted(e))
  BY DEF TakeTurns
<1> HIDE DEF n
<1>5. ASSUME NEW k \in About(e)', NEW l \in About(e)', k < l, \A j \in About(e)' : j <= k \/ l <= j
      PROVE  toServer'[k].type # toServer'[l].type
  <2>1. k \in About(e)
    BY <1>2, <1>3, <1>5
  <2>2. CASE l = n
    <3>1. \A j \in About(e) : j <= k
      BY <1>2, <1>3, <1>5, <2>2
    <3>2. toServer[k].type # "EventListen" <=> y.type = "EventListen"
      BY <1>4, <2>1, <3>1
    <3> QED
      BY <1>1, <1>2, <1>3, <2>1, <2>2, <3>2
  <2>3. CASE l # n
    <3>1. l \in About(e) /\ \A j \in About(e) : j <= k \/ l <= j
      BY <1>3, <1>5, <2>3
    <3>2. toServer[k].type # toServer[l].type
      BY <1>4, <1>5, <2>1, <3>1
    <3> QED
      BY <1>3, <2>1, <3>1, <3>2
  <2> QED
    BY <2>2, <2>3
<1>6. ASSUME NEW k \in About(e)', \A j \in About(e)' : k <= j
      PROVE  Has(e)' <=> toServer'[k].type = "EventDispose"
  <2>1. CASE k = n
    <3>1. About(e) = {}
      BY <1>2, <1>3, <1>6, <2>1
    <3> QED
      BY <1>2, <1>4, <2>1, <3>1
  <2>2. CASE k # n
    BY <1>3, <1>4, <1>6, <2>2
  <2> QED
    BY <2>1, <2>2
<1>7. ASSUME NEW k \in About(e)', \A j \in About(e)' : j <= k
      PROVE  Wanted(e)' <=> toServer'[k].type = "EventListen"
  <2>1. k = n
    BY <1>2, <1>3, <1>7
  <2> QED
    BY <1>2, <2>1
<1>8. About(e)' # {}
  BY <1>3
<1> QED
  BY <1>5, <1>6, <1>7, <1>8 DEF TakeTurns

\* The server takes the first message, whether it is about e or not.
LEMMA TakeTurn ==
    ASSUME IdInv, NEW e \in Events, TakeTurns(e), toServer # <<>>, toServer' = Tail(toServer),
           Wanted(e)' <=> Wanted(e),
           Head(toServer).name # e => (Has(e)' <=> Has(e)),
           Head(toServer).name = e => (Has(e)' <=> Head(toServer).type = "EventListen")
    PROVE  TakeTurns(e)'
<1>1. /\ About(e) \subseteq 1..Len(toServer) /\ Len(toServer) \in Nat /\ toServer \in Seq(RequestMessages)
      /\ \A k \in About(e) : toServer[k].name = e /\ toServer[k].type \in {"EventListen", "EventDispose"}
  BY AboutFacts
<1>2. /\ Len(toServer') = Len(toServer) - 1 /\ Len(toServer) \in Nat \ {0}
      /\ \A k \in 1..(Len(toServer) - 1) : toServer'[k] = toServer[k + 1]
      /\ Head(toServer) = toServer[1]
  BY <1>1, TailFacts
<1>3. /\ \A k \in About(e)' : k \in Nat /\ k >= 1 /\ k + 1 \in About(e) /\ toServer'[k] = toServer[k + 1]
      /\ \A k \in About(e) : k \in Nat /\ k >= 1 /\ (k # 1 => k - 1 \in About(e)')
      /\ 1 \in About(e) <=> Head(toServer).name = e
  BY <1>1, <1>2 DEF About
<1>4. /\ \A k, l \in About(e) : k < l /\ (\A j \in About(e) : j <= k \/ l <= j) => toServer[k].type # toServer[l].type
      /\ \A k \in About(e) : (\A j \in About(e) : k <= j) => (Has(e) <=> toServer[k].type = "EventDispose")
      /\ \A k \in About(e) : (\A j \in About(e) : j <= k) => (Wanted(e) <=> toServer[k].type = "EventListen")
      /\ About(e) = {} => (Has(e) <=> Wanted(e))
  BY DEF TakeTurns
<1>5. ASSUME NEW k \in About(e)', NEW l \in About(e)', k < l, \A j \in About(e)' : j <= k \/ l <= j
      PROVE  toServer'[k].type # toServer'[l].type
  <2>1. ASSUME NEW j \in About(e) PROVE j <= k + 1 \/ l + 1 <= j
    <3>1. CASE j = 1
      BY <1>3, <3>1
    <3>2. CASE j # 1
      <4>1. j - 1 \in About(e)' /\ j \in Nat /\ k \in Nat /\ l \in Nat
        BY <1>3, <3>2
      <4>2. j - 1 <= k \/ l <= j - 1
        BY <1>5, <4>1
      <4> QED
        BY <4>1, <4>2
    <3> QED
      BY <3>1, <3>2
  <2>2. k + 1 \in About(e) /\ l + 1 \in About(e) /\ k + 1 < l + 1
    BY <1>3, <1>5
  <2>3. toServer[k + 1].type # toServer[l + 1].type
    BY <1>4, <2>1, <2>2
  <2> QED
    BY <1>3, <2>3
<1>6. ASSUME NEW k \in About(e)', \A j \in About(e)' : k <= j
      PROVE  Has(e)' <=> toServer'[k].type = "EventDispose"
  <2>1. ASSUME NEW j \in About(e) PROVE j = 1 \/ k + 1 <= j
    <3>1. CASE j # 1
      <4>1. j - 1 \in About(e)' /\ j \in Nat /\ k \in Nat
        BY <1>3, <3>1
      <4>2. k <= j - 1
        BY <1>6, <4>1
      <4> QED
        BY <4>1, <4>2
    <3> QED
      BY <3>1
  <2>2. k + 1 \in About(e) /\ toServer'[k] = toServer[k + 1] /\ 1 < k + 1
    <3>1. k \in Nat /\ k >= 1 /\ k + 1 \in About(e) /\ toServer'[k] = toServer[k + 1]
      BY <1>3
    <3>2. 1 < k + 1
      BY <3>1
    <3> QED
      BY <3>1, <3>2
  <2>3. CASE Head(toServer).name # e
    <3>1. \A j \in About(e) : k + 1 <= j
      BY <1>3, <2>1, <2>3
    <3> QED
      BY <1>4, <2>2, <2>3, <3>1
  <2>4. CASE Head(toServer).name = e
    <3>1. 1 \in About(e) /\ \A j \in About(e) : j <= 1 \/ k + 1 <= j
      BY <1>3, <2>1, <2>4
    <3>2. toServer[1].type # toServer[k + 1].type
      BY <1>4, <2>2, <3>1
    <3>3. toServer[1].type \in {"EventListen", "EventDispose"} /\ toServer[k + 1].type \in {"EventListen", "EventDispose"}
      BY <1>1, <2>2, <3>1
    <3>4. Has(e)' <=> toServer[1].type = "EventListen"
      BY <1>2, <2>4
    <3>5. toServer'[k].type = toServer[k + 1].type
      BY <2>2
    <3> QED
      BY <3>2, <3>3, <3>4, <3>5
  <2> QED
    BY <2>3, <2>4
<1>7. ASSUME NEW k \in About(e)', \A j \in About(e)' : j <= k
      PROVE  Wanted(e)' <=> toServer'[k].type = "EventListen"
  <2>1. ASSUME NEW j \in About(e) PROVE j <= k + 1
    <3>1. CASE j = 1
      BY <1>3, <3>1
    <3>2. CASE j # 1
      <4>1. j - 1 \in About(e)' /\ j \in Nat /\ k \in Nat
        BY <1>3, <3>2
      <4>2. j - 1 <= k
        BY <1>7, <4>1
      <4> QED
        BY <4>1, <4>2
    <3> QED
      BY <3>1, <3>2
  <2>2. k + 1 \in About(e) /\ toServer'[k] = toServer[k + 1]
    BY <1>3
  <2> QED
    BY <1>4, <2>1, <2>2
<1>8. ASSUME About(e)' = {} PROVE Has(e)' <=> Wanted(e)'
  <2>1. \A j \in About(e) : j = 1
    BY <1>3, <1>8
  <2>2. CASE Head(toServer).name # e
    <3>1. About(e) = {}
      BY <1>3, <2>1, <2>2
    <3> QED
      BY <1>4, <2>2, <3>1
  <2>3. CASE Head(toServer).name = e
    <3>1. 1 \in About(e) /\ \A j \in About(e) : j <= 1
      BY <1>3, <2>1, <2>3
    <3>2. Wanted(e) <=> toServer[1].type = "EventListen"
      BY <1>4, <3>1
    <3> QED
      BY <1>2, <2>3, <3>2
  <2> QED
    BY <2>2, <2>3
<1> QED
  BY <1>5, <1>6, <1>7, <1>8 DEF TakeTurns

\* What the server has when the next message about e arrives.
LEMMA NextTurn ==
    ASSUME IdInv, NEW e \in Events, TakeTurns(e), toServer # <<>>, Head(toServer).name = e
    PROVE  Has(e) <=> Head(toServer).type = "EventDispose"
<1>1. About(e) \subseteq 1..Len(toServer) /\ Len(toServer) \in Nat /\ toServer \in Seq(RequestMessages)
  BY AboutFacts
<1>2. Head(toServer) = toServer[1] /\ Len(toServer) \in Nat \ {0}
  BY <1>1, TailFacts
<1>3. 1 \in About(e) /\ \A j \in About(e) : 1 <= j
  BY <1>1, <1>2 DEF About
<1> QED
  BY <1>2, <1>3 DEF TakeTurns

LEMMA SubscriptionKept ==
    ASSUME NEW e, OneSubscription(e), subs'[e] = subs[e], Len(pending') = Len(pending),
           \A k \in 1..Len(pending) : pending'[k].request = pending[k].request,
           serverDisposed' = serverDisposed, subs[e] = 1 => serverActive'[id'[e]] = serverActive[id[e]]
    PROVE  OneSubscription(e)' /\ (Has(e)' <=> Has(e))
<1>1. Waits(e)' <=> Waits(e)
  BY DEF Waits
<1> QED
  BY <1>1 DEF OneSubscription, Has

\* Steps that leave the server's subscriptions alone.
LEMMA EventKept ==
    ASSUME EventInv, IdInv', KeepsIds, WaitingListens',
           UNCHANGED <<isDisposed, serverDisposed, subs, serverActive>>, Len(pending') = Len(pending),
           \A k \in 1..Len(pending) : pending'[k].request = pending[k].request,
           sentLate \subseteq sentLate', missed \subseteq missed',
           \A e \in Events \ (sentLate' \cup missed') :
              ~isDisposed /\ TakeTurns(e) /\ (Has(e)' <=> Has(e)) => TakeTurns(e)'
    PROVE  EventInv'
<1>1. ASSUME ~isDisposed, NEW e \in Events \ (sentLate' \cup missed')
      PROVE  OneSubscription(e)' /\ (~serverDisposed' => TakeTurns(e)')
  <2>1. OneSubscription(e) /\ (~serverDisposed => TakeTurns(e))
    BY <1>1 DEF EventInv, Balanced
  <2>2. subs[e] = 1 => id'[e] = id[e]
    BY RequestSets DEF EventInv, IdInv, ServerIds, KeepsIds
  <2>3. OneSubscription(e)' /\ (Has(e)' <=> Has(e))
    BY <2>1, <2>2, SubscriptionKept
  <2> QED
    BY <1>1, <2>1, <2>3
<1>2. Balanced'
  BY <1>1 DEF Balanced
<1> QED
  BY <1>2 DEF EventInv

LEMMA CallEvents == ASSUME EventInv, NEW c \in Calls, Call(c) PROVE EventInv'
<1> USE RequestSets
<1>0. IdInv /\ TypeOK /\ c \in Requests /\ c \notin Used
  BY DEF EventInv, IdInv, Call, Used
<1>1. IdInv' /\ lastRequestId \in Ids
  BY <1>0, CallId, NewId
<1>2. /\ id' = [id EXCEPT ![c] = lastRequestId] /\ uninitialized' \subseteq uninitialized \cup {c}
      /\ uninitialized \subseteq uninitialized'
      /\ UNCHANGED <<isDisposed, listening, pending, subs, serverActive, serverDisposed, sentLate, missed>>
  BY DEF Call, server, history
<1>3. KeepsIds
  <2>1. ~HasId(c)
    BY <1>0 DEF IdInv, IdsAreUnique, Call
  <2> QED
    BY <1>0, <1>2, <2>1 DEF KeepsIds, TypeOK
<1>4. PICK y \in RequestMessages : y = Request("Promise", lastRequestId, c) /\ y.name = c
  BY <1>0, <1>1, NewRequest
<1>5. SendRequest(y) \/ toServer' = toServer
  BY <1>4 DEF Call
<1>6. WaitingListens' /\ \A e \in Events : Wanted(e)' <=> Wanted(e)
  BY <1>2 DEF EventInv, WaitingListens, Wanted
<1>7. ASSUME NEW e \in Events, TakeTurns(e), Has(e)' <=> Has(e) PROVE TakeTurns(e)'
  BY <1>0, <1>4, <1>5, <1>6, <1>7, SendOther
<1> QED
  BY <1>1, <1>2, <1>3, <1>6, <1>7, EventKept

LEMMA CallRejectedEvents == ASSUME EventInv, NEW c \in Calls, CallRejected(c) PROVE EventInv'
<1>1. IdInv'
  BY CallRejectedId DEF EventInv
<1>2. UNCHANGED <<id, isDisposed, uninitialized, listening, toServer, pending, subs, serverActive, serverDisposed, sentLate, missed>>
  BY DEF CallRejected, server, history
<1>3. WaitingListens' /\ KeepsIds
  BY <1>2 DEF EventInv, WaitingListens, KeepsIds
<1>4. \A e \in Events : TakeTurns(e) /\ (Has(e)' <=> Has(e)) => TakeTurns(e)'
  BY <1>2, TurnsKept DEF About, Wanted
<1> QED
  BY <1>1, <1>2, <1>3, <1>4, EventKept

LEMMA CancelEvents == ASSUME EventInv, NEW c \in Calls, Cancel(c) PROVE EventInv'
<1> USE RequestSets
<1>0. IdInv /\ c \in Requests /\ id[c] \in Ids
  BY DEF EventInv, IdInv, ClientIds, Cancel, TypeOK, HasId
<1>1. IdInv'
  BY <1>0, CancelId
<1>2. /\ uninitialized' = uninitialized \ {c} /\ KeepsIds
      /\ UNCHANGED <<id, isDisposed, listening, pending, subs, serverActive, serverDisposed, sentLate, missed>>
  BY DEF Cancel, server, history, KeepsIds
<1>4. PICK y \in RequestMessages : y = Request("PromiseCancel", id[c], c) /\ y.name = c
  BY <1>0, NewRequest
<1>5. SendRequest(y) \/ toServer' = toServer
  BY <1>4 DEF Cancel
<1>6. WaitingListens' /\ \A e \in Events : Wanted(e)' <=> Wanted(e)
  BY <1>2 DEF EventInv, WaitingListens, Wanted
<1>7. ASSUME NEW e \in Events, TakeTurns(e), Has(e)' <=> Has(e) PROVE TakeTurns(e)'
  BY <1>0, <1>4, <1>5, <1>6, <1>7, SendOther
<1> QED
  BY <1>1, <1>2, <1>6, <1>7, EventKept

LEMMA AddFirstListenerEvents == ASSUME EventInv, NEW f \in Events, AddFirstListener(f) PROVE EventInv'
<1> USE RequestSets
<1> DEFINE i == IF id[f] = -1 THEN lastRequestId ELSE id[f]
<1>0. IdInv /\ TypeOK /\ f \in Requests /\ (~HasId(f) => f \notin Used) /\ f \notin listening /\ f \notin uninitialized
      /\ ~isDisposed
  BY DEF EventInv, IdInv, AddFirstListener, Used, HasId, WaitingListens
<1>1. IdInv'
  BY <1>0, AddFirstListenerId
<1>2. i \in Ids
  <2>1. CASE HasId(f)
    BY <1>0, <2>1 DEF HasId, TypeOK
  <2>2. CASE ~HasId(f)
    BY <1>0, <2>2, NewId DEF HasId
  <2> QED
    BY <2>1, <2>2
<1>3. PICK y \in RequestMessages : y = Request("EventListen", i, f) /\ y.type = "EventListen" /\ y.name = f
  <2> HIDE DEF i
  <2> QED
    BY <1>0, <1>2, NewRequest
<1>4. /\ id' = [id EXCEPT ![f] = i] /\ listening' = listening \cup {f}
      /\ UNCHANGED <<isDisposed, pending, subs, serverActive, serverDisposed, sentLate, missed>>
  BY DEF AddFirstListener, server, history
<1>5. \/ toServer' = Append(toServer, y) /\ uninitialized' = uninitialized
      \/ toServer' = toServer /\ uninitialized' = uninitialized \cup {f}
  <2>1. CASE state = "Idle"
    BY <1>0, <1>3, <2>1 DEF AddFirstListener, SendRequest
  <2>2. CASE state # "Idle"
    BY <2>2 DEF AddFirstListener
  <2> QED
    BY <2>1, <2>2
<1>6. KeepsIds
  BY <1>0, <1>4 DEF KeepsIds, HasId, TypeOK
<1>7. WaitingListens' /\ ~Wanted(f) /\ \A e \in Events : e # f => (Wanted(e)' <=> Wanted(e))
  BY <1>0, <1>4, <1>5 DEF EventInv, WaitingListens, Wanted
<1>8. ASSUME NEW e \in Events, TakeTurns(e), Has(e)' <=> Has(e) PROVE TakeTurns(e)'
  <2>1. CASE e # f
    <3>1. SendRequest(y) \/ toServer' = toServer
      BY <1>0, <1>5 DEF SendRequest
    <3> QED
      BY <1>0, <1>3, <1>7, <1>8, <2>1, <3>1, SendOther
  <2>2. CASE e = f /\ toServer' = Append(toServer, y) /\ uninitialized' = uninitialized
    <3>1. Wanted(e)'
      BY <1>0, <1>4, <2>2 DEF Wanted
    <3> QED
      BY <1>0, <1>3, <1>7, <1>8, <2>2, <3>1, SendTurn
  <2>3. CASE e = f /\ toServer' = toServer /\ uninitialized' = uninitialized \cup {f}
    <3>1. ~Wanted(e)'
      BY <2>3 DEF Wanted
    <3> QED
      BY <1>7, <1>8, <2>3, <3>1, TurnsKept DEF About
  <2> QED
    BY <1>5, <2>1, <2>2, <2>3
<1> QED
  BY <1>1, <1>4, <1>6, <1>7, <1>8, EventKept

LEMMA RemoveLastListenerEvents == ASSUME EventInv, NEW f \in Events, RemoveLastListener(f) PROVE EventInv'
<1> USE RequestSets
<1>0. IdInv /\ f \in Requests /\ id[f] \in Ids /\ f \in listening
  BY DEF EventInv, IdInv, RemoveLastListener, ClientIds, HasId, TypeOK
<1>1. IdInv'
  BY <1>0, RemoveLastListenerId
<1>3. PICK y \in RequestMessages : y = Request("EventDispose", id[f], f) /\ y.type = "EventDispose" /\ y.name = f
  BY <1>0, NewRequest
<1>4. /\ listening' = listening \ {f} /\ uninitialized' = uninitialized \ {f} /\ KeepsIds
      /\ UNCHANGED <<id, isDisposed, pending, subs, serverActive, serverDisposed, sentLate, missed>>
  BY DEF RemoveLastListener, server, history, KeepsIds
<1>5. (f \notin uninitialized => SendRequest(y)) /\ (f \in uninitialized => toServer' = toServer)
  BY <1>3 DEF RemoveLastListener
<1>7. WaitingListens' /\ ~Wanted(f)' /\ \A e \in Events : e # f => (Wanted(e)' <=> Wanted(e))
  BY <1>4 DEF EventInv, WaitingListens, Wanted
<1>8. ASSUME ~isDisposed, NEW e \in Events, TakeTurns(e), Has(e)' <=> Has(e) PROVE TakeTurns(e)'
  <2>1. CASE e # f
    BY <1>0, <1>3, <1>5, <1>7, <1>8, <2>1, SendOther
  <2>2. CASE e = f /\ f \notin uninitialized
    <3>1. Wanted(e) /\ toServer' = Append(toServer, y)
      BY <1>0, <1>5, <1>8, <2>2 DEF Wanted, SendRequest
    <3> QED
      BY <1>0, <1>3, <1>7, <1>8, <2>2, <3>1, SendTurn
  <2>3. CASE e = f /\ f \in uninitialized
    <3>1. ~Wanted(e) /\ toServer' = toServer
      BY <1>5, <2>3 DEF Wanted
    <3> QED
      BY <1>7, <1>8, <2>3, <3>1, TurnsKept DEF About
  <2> QED
    BY <2>1, <2>2, <2>3
<1> QED
  BY <1>1, <1>4, <1>7, <1>8, EventKept

LEMMA FireEvents == ASSUME EventInv, NEW f \in Events, Fire(f) PROVE EventInv'
<1>1. IdInv'
  BY FireId DEF EventInv
<1>2. UNCHANGED <<id, isDisposed, uninitialized, listening, toServer, pending, subs, serverActive, serverDisposed, sentLate, missed>>
  BY DEF Fire, client, server
<1>3. WaitingListens' /\ KeepsIds
  BY <1>2 DEF EventInv, WaitingListens, KeepsIds
<1>4. \A e \in Events : TakeTurns(e) /\ (Has(e)' <=> Has(e)) => TakeTurns(e)'
  BY <1>2, TurnsKept DEF About, Wanted
<1> QED
  BY <1>1, <1>2, <1>3, <1>4, EventKept

LEMMA InitializedEvents == ASSUME EventInv, NEW r \in Requests, Initialized(r) PROVE EventInv'
<1>1. IdInv'
  BY InitializedId DEF EventInv
<1>2. UNCHANGED <<id, isDisposed, uninitialized, listening, toServer, pending, subs, serverActive, serverDisposed, sentLate, missed>>
  BY DEF Initialized, server, history
<1>3. WaitingListens' /\ KeepsIds
  BY <1>2 DEF EventInv, WaitingListens, KeepsIds
<1>4. \A e \in Events : TakeTurns(e) /\ (Has(e)' <=> Has(e)) => TakeTurns(e)'
  BY <1>2, TurnsKept DEF About, Wanted
<1> QED
  BY <1>1, <1>2, <1>3, <1>4, EventKept

LEMMA DoRequestEvents == ASSUME EventInv, NEW r \in Requests, DoRequest(r) PROVE EventInv'
<1> USE RequestSets
<1>0. IdInv /\ id[r] \in Ids
  BY DEF EventInv, IdInv, ClientIds, DoRequest, TypeOK, HasId
<1>1. IdInv'
  BY <1>0, DoRequestId
<1>2. /\ uninitialized' = uninitialized \ {r} /\ sentLate \subseteq sentLate' /\ KeepsIds
      /\ r \notin uninitialized => r \in sentLate'
      /\ UNCHANGED <<id, isDisposed, listening, pending, subs, serverActive, serverDisposed, missed>>
  BY DEF DoRequest, server, KeepsIds
<1> DEFINE t == IF r \in Calls THEN "Promise" ELSE "EventListen"
<1>3. PICK y \in RequestMessages : y = Request(t, id[r], r) /\ y.type = t /\ y.name = r
  <2>1. t \in {"Promise", "PromiseCancel", "EventListen", "EventDispose"}
    OBVIOUS
  <2> HIDE DEF t
  <2> QED
    BY <1>0, <2>1, NewRequest
<1>4. SendRequest(y)
  BY <1>3 DEF DoRequest
<1>5. WaitingListens' /\ \A e \in Events : e # r => (Wanted(e)' <=> Wanted(e))
  BY <1>2 DEF EventInv, WaitingListens, Wanted
<1>6. ASSUME ~isDisposed, NEW e \in Events \ (sentLate' \cup missed'), TakeTurns(e), Has(e)' <=> Has(e) PROVE TakeTurns(e)'
  <2>1. CASE e # r
    BY <1>0, <1>3, <1>4, <1>5, <1>6, <2>1, SendOther
  <2>2. CASE e = r
    <3>1. ~Wanted(e) /\ Wanted(e)'
      BY <1>2, <1>6, <2>2 DEF EventInv, WaitingListens, Wanted
    <3>2. toServer' = Append(toServer, y) /\ y.type = "EventListen"
      BY <1>3, <1>4, <1>6, <2>2 DEF SendRequest
    <3> QED
      BY <1>0, <1>3, <1>6, <2>2, <3>1, <3>2, SendTurn
  <2> QED
    BY <2>1, <2>2
<1> QED
  BY <1>1, <1>2, <1>5, <1>6, EventKept

LEMMA ReceiveInitializeEvents == ASSUME EventInv, ReceiveInitialize PROVE EventInv'
<1>1. IdInv'
  BY ReceiveInitializeId DEF EventInv
<1>2. UNCHANGED <<id, isDisposed, uninitialized, listening, toServer, pending, subs, serverActive, serverDisposed, sentLate, missed>>
  BY DEF ReceiveInitialize, server, history
<1>3. WaitingListens' /\ KeepsIds
  BY <1>2 DEF EventInv, WaitingListens, KeepsIds
<1>4. \A e \in Events : TakeTurns(e) /\ (Has(e)' <=> Has(e)) => TakeTurns(e)'
  BY <1>2, TurnsKept DEF About, Wanted
<1> QED
  BY <1>1, <1>2, <1>3, <1>4, EventKept

LEMMA ReceiveResponseEvents == ASSUME EventInv, ReceiveResponse PROVE EventInv'
<1>1. IdInv'
  BY ReceiveResponseId DEF EventInv
<1>2. UNCHANGED <<id, isDisposed, uninitialized, listening, toServer, pending, subs, serverActive, serverDisposed, sentLate, missed>>
  BY DEF ReceiveResponse, server
<1>3. WaitingListens' /\ KeepsIds
  BY <1>2 DEF EventInv, WaitingListens, KeepsIds
<1>4. \A e \in Events : TakeTurns(e) /\ (Has(e)' <=> Has(e)) => TakeTurns(e)'
  BY <1>2, TurnsKept DEF About, Wanted
<1> QED
  BY <1>1, <1>2, <1>3, <1>4, EventKept

LEMMA RegisterChannelEvents == ASSUME EventInv, RegisterChannel PROVE EventInv'
<1>1. IdInv'
  BY RegisterChannelId DEF EventInv
<1>2. UNCHANGED <<id, isDisposed, uninitialized, listening, toServer, pending, subs, serverActive, serverDisposed, sentLate, missed>>
  BY DEF RegisterChannel, client, history
<1>3. WaitingListens' /\ KeepsIds
  BY <1>2 DEF EventInv, WaitingListens, KeepsIds
<1>4. \A e \in Events : TakeTurns(e) /\ (Has(e)' <=> Has(e)) => TakeTurns(e)'
  BY <1>2, TurnsKept DEF About, Wanted
<1> QED
  BY <1>1, <1>2, <1>3, <1>4, EventKept

LEMMA PendingTimeoutEvents == ASSUME EventInv, NEW k \in DOMAIN pending, PendingTimeout(k) PROVE EventInv'
<1>1. IdInv' /\ IdInv
  BY PendingTimeoutId DEF EventInv
<1>2. UNCHANGED <<id, isDisposed, uninitialized, listening, toServer, subs, serverActive, serverDisposed, sentLate, missed>>
  BY DEF PendingTimeout, client
<1>3. WaitingListens' /\ KeepsIds
  BY <1>2 DEF EventInv, WaitingListens, KeepsIds
<1>4. \A e \in Events : TakeTurns(e) /\ (Has(e)' <=> Has(e)) => TakeTurns(e)'
  BY <1>2, TurnsKept DEF About, Wanted
<1>5. Len(pending') = Len(pending) /\ \A j \in 1..Len(pending) : pending'[j].request = pending[j].request
  BY <1>1, TimeoutFacts
<1> QED
  BY <1>1, <1>2, <1>3, <1>4, <1>5, EventKept

LEMMA DisposeClientEvents == ASSUME EventInv, DisposeClient PROVE EventInv'
<1>1. IdInv'
  BY DisposeClientId DEF EventInv
<1>2. isDisposed' = TRUE /\ listening' = listening \ active /\ uninitialized' = uninitialized \ active
  BY DEF DisposeClient
<1>3. WaitingListens' /\ Balanced'
  BY <1>2 DEF EventInv, WaitingListens, Balanced
<1> QED
  BY <1>1, <1>3 DEF EventInv

\* What starting requests does to the subscription to e.
LEMMA StartEvent ==
    ASSUME IdInv, UNCHANGED id, NEW reqs \in Seq(RequestMessages), Start(reqs), NEW e \in Events,
           \A m \in Elements(reqs) : Genuine(m) /\ m.type \in {"Promise", "EventListen"}
    PROVE  /\ (\A k \in 1..Len(reqs) : reqs[k].name # e) =>
                 subs'[e] = subs[e] /\ (subs[e] = 1 => serverActive'[id[e]] = serverActive[id[e]])
           /\ \A k \in 1..Len(reqs) : reqs[k].name = e /\ (\A j \in 1..Len(reqs) : reqs[j].name = e => j = k) =>
                 subs'[e] = subs[e] + 1 /\ serverActive'[id[e]] = e
<1> USE RequestSets
<1>0. TypeOK /\ \A k \in 1..Len(reqs) : reqs[k] \in RequestMessages /\ reqs[k] \in Elements(reqs)
                   /\ reqs[k].name \in Requests /\ reqs[k].id \in Ids
  BY ElementsFacts, MessageFacts DEF IdInv
<1>1. ASSUME NEW k \in 1..Len(reqs)
      PROVE  /\ id[reqs[k].name] = reqs[k].id /\ (reqs[k].id = id[e] => reqs[k].name = e)
             /\ reqs[k].name \in Events => reqs[k].type = "EventListen"
  <2>1. Genuine(reqs[k]) /\ reqs[k].type \in {"Promise", "EventListen"} /\ reqs[k].id # -1
    BY <1>0
  <2>2. id[reqs[k].name] = reqs[k].id /\ (reqs[k].type = "Promise" => reqs[k].name \in Calls)
    BY <2>1 DEF Genuine
  <2>3. reqs[k].id = id[e] => reqs[k].name = e
    BY <1>0, <2>1, <2>2 DEF IdInv, IdsAreUnique, HasId
  <2> QED
    BY <2>1, <2>2, <2>3
<1>2. ASSUME NEW i \in Ids
      PROVE  \/ serverActive'[i] = serverActive[i] /\ \A k \in 1..Len(reqs) : reqs[k].id # i
             \/ \E k \in 1..Len(reqs) : reqs[k].id = i /\ serverActive'[i] = reqs[k].name
  BY <1>0, StartFacts
<1>2a. \A x \in Events :
          /\ subs'[x] >= subs[x]
          /\ (\A k \in 1..Len(reqs) : reqs[k].name # x \/ reqs[k].type # "EventListen") => subs'[x] = subs[x]
          /\ \A k \in 1..Len(reqs) : reqs[k].name = x /\ reqs[k].type = "EventListen" =>
                /\ subs'[x] > 0
                /\ (\A j \in 1..Len(reqs) : reqs[j].name = x => j = k) => subs'[x] = subs[x] + 1
  BY <1>0, StartFacts
<1>2b. /\ (\A k \in 1..Len(reqs) : reqs[k].name # e) => subs'[e] = subs[e]
       /\ \A k \in 1..Len(reqs) : reqs[k].name = e /\ reqs[k].type = "EventListen"
             /\ (\A j \in 1..Len(reqs) : reqs[j].name = e => j = k) => subs'[e] = subs[e] + 1
  BY <1>2a, Zenon
<1>3. ASSUME \A k \in 1..Len(reqs) : reqs[k].name # e
      PROVE  subs'[e] = subs[e] /\ (subs[e] = 1 => serverActive'[id[e]] = serverActive[id[e]])
  <2>1. subs[e] = 1 => id[e] \in Ids
    BY <1>0 DEF IdInv, ServerIds, HasId, TypeOK
  <2>2. subs[e] = 1 => serverActive'[id[e]] = serverActive[id[e]]
    BY <1>1, <1>2, <1>3, <2>1
  <2> QED
    BY <1>2b, <1>3, <2>2
<1>4. ASSUME NEW k \in 1..Len(reqs), reqs[k].name = e, \A j \in 1..Len(reqs) : reqs[j].name = e => j = k
      PROVE  subs'[e] = subs[e] + 1 /\ serverActive'[id[e]] = e
  <2>1. id[e] \in Ids /\ reqs[k].id = id[e] /\ reqs[k].type = "EventListen"
    BY <1>0, <1>1, <1>4
  <2>2. serverActive'[id[e]] = e
    BY <1>1, <1>2, <2>1
  <2>3. subs'[e] = subs[e] + 1
    BY <1>2b, <1>4, <2>1
  <2> QED
    BY <2>2, <2>3
<1> QED
  BY <1>3, <1>4

LEMMA ReceiveRequestEvents == ASSUME EventInv, ReceiveRequest PROVE EventInv'
<1> USE RequestSets
<1>0. IdInv /\ TypeOK /\ toServer # <<>> /\ toServer \in Seq(RequestMessages) /\ pending \in Seq(PendingRequests)
      /\ ~serverDisposed
  BY DEF EventInv, IdInv, TypeOK, ReceiveRequest
<1>1. IdInv'
  BY <1>0, ReceiveRequestId
<1>2. PICK y \in RequestMessages : y = Head(toServer) /\ y \in Elements(toServer) /\ y.type \in {"Promise", "EventListen"}
  BY <1>0, TailFacts DEF ReceiveRequest
<1>3. /\ toServer' = Tail(toServer)
      /\ UNCHANGED <<id, isDisposed, uninitialized, listening, serverDisposed, sentLate, missed>>
  BY DEF ReceiveRequest, client
<1>4. Genuine(y)
  BY <1>0, <1>2 DEF IdInv, MessagesAreGenuine
<1>5. WaitingListens'
  BY <1>3 DEF EventInv, WaitingListens
<1>6. ASSUME ~isDisposed, NEW e \in Events \ (sentLate \cup missed)
      PROVE  OneSubscription(e)' /\ TakeTurns(e)'
  <2>1. OneSubscription(e) /\ TakeTurns(e)
    BY <1>0, <1>6 DEF EventInv, Balanced
  <2>2. Wanted(e)' <=> Wanted(e)
    BY <1>3 DEF Wanted
  <2>3. y.name = e => y.type = "EventListen" /\ ~Has(e) /\ subs[e] = 0 /\ ~Waits(e)
    <3> SUFFICES ASSUME y.name = e PROVE y.type = "EventListen" /\ ~Has(e) /\ subs[e] = 0 /\ ~Waits(e)
      OBVIOUS
    <3>1. y.type = "EventListen"
      BY <1>2, <1>4 DEF Genuine
    <3>2. ~Has(e)
      BY <1>0, <1>2, <2>1, <3>1, NextTurn
    <3> QED
      BY <2>1, <3>1, <3>2 DEF Has, OneSubscription
  <2>4. OneSubscription(e)' /\ (y.name # e => (Has(e)' <=> Has(e))) /\ (y.name = e => Has(e)')
    <3>1. CASE registered
      <4>1. PICK reqs \in Seq(RequestMessages) : reqs = <<y>> /\ Elements(reqs) = {y} /\ Len(reqs) = 1 /\ reqs[1] = y
        BY OneRequest
      <4>2. Start(reqs) /\ pending' = pending
        BY <1>2, <3>1, <4>1 DEF ReceiveRequest
      <4>3. /\ (\A k \in 1..Len(reqs) : reqs[k].name # e) =>
                  subs'[e] = subs[e] /\ (subs[e] = 1 => serverActive'[id[e]] = serverActive[id[e]])
            /\ \A k \in 1..Len(reqs) : reqs[k].name = e /\ (\A j \in 1..Len(reqs) : reqs[j].name = e => j = k) =>
                  subs'[e] = subs[e] + 1 /\ serverActive'[id[e]] = e
        <5>1. \A m \in Elements(reqs) : Genuine(m) /\ m.type \in {"Promise", "EventListen"}
          BY <1>2, <1>4, <4>1
        <5>2. IdInv /\ UNCHANGED id /\ Start(reqs) /\ e \in Events
          BY <1>0, <1>3, <1>6, <4>2
        <5> QED
          BY <5>1, <5>2, StartEvent
      <4>4. CASE y.name # e
        <5>1. subs'[e] = subs[e] /\ (subs[e] = 1 => serverActive'[id[e]] = serverActive[id[e]])
          BY <4>1, <4>3, <4>4
        <5> QED
          BY <1>3, <2>1, <4>2, <4>4, <5>1, SubscriptionKept
      <4>5. CASE y.name = e
        <5>1. subs'[e] = 1 /\ serverActive'[id[e]] = e
          BY <2>3, <4>1, <4>3, <4>5
        <5> QED
          BY <1>3, <2>1, <2>3, <4>2, <4>5, <5>1 DEF OneSubscription, Has, Waits
      <4> QED
        BY <4>4, <4>5
    <3>2. CASE ~registered
      <4>1. PICK p \in PendingRequests : p = [request |-> y, timer |-> TRUE] /\ p.request = y
        BY NewPending
      <4>2. pending' = Append(pending, p) /\ UNCHANGED <<running, subs, serverActive>>
        BY <1>2, <3>2, <4>1 DEF ReceiveRequest
      <4>3. /\ Len(pending') = Len(pending) + 1 /\ Len(pending) \in Nat
            /\ \A k \in 1..Len(pending) : pending'[k] = pending[k]
            /\ pending'[Len(pending) + 1] = p
        BY <1>0, <4>2, AppendFacts
      <4>4. CASE y.name # e
        <5>1. \A k \in 1..Len(pending') : pending'[k].request.name = e => k \in 1..Len(pending) /\ pending[k].request.name = e
          BY <4>1, <4>3, <4>4
        <5>2. Waits(e)' <=> Waits(e)
          BY <4>3, <5>1 DEF Waits
        <5> QED
          BY <1>3, <2>1, <4>2, <4>4, <5>1, <5>2 DEF OneSubscription, Has
      <4>5. CASE y.name = e
        <5>1. \A k \in 1..Len(pending') : pending'[k].request.name = e <=> k = Len(pending) + 1
          BY <2>3, <4>1, <4>3, <4>5 DEF Waits
        <5>2. Waits(e)'
          BY <4>3, <5>1 DEF Waits
        <5> QED
          BY <1>3, <2>1, <2>3, <4>2, <4>5, <5>1, <5>2 DEF OneSubscription, Has
      <4> QED
        BY <4>4, <4>5
    <3> QED
      BY <3>1, <3>2
  <2>5. TakeTurns(e)'
    BY <1>0, <1>2, <1>3, <2>1, <2>2, <2>3, <2>4, TakeTurn
  <2> QED
    BY <2>4, <2>5
<1>7. Balanced'
  BY <1>3, <1>6 DEF Balanced
<1> QED
  BY <1>1, <1>5, <1>7 DEF EventInv

LEMMA ReceiveDisposeEvents == ASSUME EventInv, ReceiveDispose PROVE EventInv'
<1> USE RequestSets
<1>0. IdInv /\ TypeOK /\ pending \in Seq(PendingRequests)
  BY DEF EventInv, IdInv, TypeOK
<1>1. IdInv'
  BY <1>0, ReceiveDisposeId
<1>2. PICK y \in RequestMessages, r \in Requests \cup {None} :
         /\ toServer # <<>> /\ ~serverDisposed /\ y = Head(toServer) /\ y \in Elements(toServer)
         /\ y.type \in {"PromiseCancel", "EventDispose"} /\ Genuine(y) /\ y.name \in Requests /\ y.id \in Ids
         /\ r = serverActive[y.id] /\ (r # None => r = y.name)
         /\ toServer' = Tail(toServer)
         /\ serverActive' = [serverActive EXCEPT ![y.id] = None]
         /\ cancelled' = cancelled \cup (Calls \cap {r})
         /\ subs' = [e \in Events |-> IF e = r THEN subs[e] - 1 ELSE subs[e]]
         /\ r \in Events => subs[r] \in Nat /\ subs[r] > 0
         /\ missed' = missed \cup {x \in Requests : \E k \in DOMAIN pending :
                                     pending[k].request.name = x /\ x = y.name}
         /\ UNCHANGED <<client, toClient, registered, flushDue, pending, running, serverDisposed,
                        fires, heard, sentLate>>
  BY <1>0, DisposeFacts
<1>3. UNCHANGED <<id, isDisposed, uninitialized, listening, pending, serverDisposed, sentLate>> /\ missed \subseteq missed'
  BY <1>2 DEF client
<1>4. WaitingListens'
  BY <1>3 DEF EventInv, WaitingListens
<1>5. ASSUME ~isDisposed, NEW e \in Events \ (sentLate' \cup missed')
      PROVE  OneSubscription(e)' /\ TakeTurns(e)'
  <2>1. OneSubscription(e) /\ TakeTurns(e)
    BY <1>2, <1>3, <1>5 DEF EventInv, Balanced
  <2>2. (Wanted(e)' <=> Wanted(e)) /\ (Waits(e)' <=> Waits(e))
    BY <1>3 DEF Wanted, Waits
  <2>3. CASE y.name # e
    <3>1. subs'[e] = subs[e]
      BY <1>2, <2>3
    <3>2. subs[e] = 1 => serverActive'[id[e]] = serverActive[id[e]]
      <4> SUFFICES ASSUME subs[e] = 1 PROVE serverActive'[id[e]] = serverActive[id[e]]
        OBVIOUS
      <4>1. id[e] \in Ids /\ HasId(e)
        BY <1>0 DEF IdInv, ServerIds, HasId, TypeOK
      <4>2. id[e] # y.id
        BY <1>0, <1>2, <2>3, <4>1 DEF IdInv, IdsAreUnique, Genuine
      <4> QED
        BY <1>0, <1>2, <4>1, <4>2 DEF TypeOK
    <3>3. OneSubscription(e)' /\ (Has(e)' <=> Has(e))
      BY <1>3, <2>1, <3>1, <3>2, SubscriptionKept
    <3>4. TakeTurns(e)'
      BY <1>0, <1>2, <2>1, <2>2, <2>3, <3>3, TakeTurn
    <3> QED
      BY <3>3, <3>4
  <2>4. CASE y.name = e
    <3>1. y.type = "EventDispose"
      BY <1>2, <2>4 DEF Genuine
    <3>2. Has(e)
      BY <1>0, <1>2, <2>1, <2>4, <3>1, NextTurn
    <3>3. ~Waits(e)
      <4>1. DOMAIN pending = 1..Len(pending)
        BY <1>0, ElementsFacts
      <4> QED
        BY <1>2, <1>5, <2>4, <4>1 DEF Waits
    <3>4. subs[e] = 1 /\ serverActive[id[e]] = e
      BY <1>2, <2>1, <3>2, <3>3 DEF Has, OneSubscription
    <3>5. r = e
      BY <1>2, <2>4, <3>4 DEF Genuine
    <3>6. subs'[e] = 0
      BY <1>2, <3>4, <3>5
    <3>7. OneSubscription(e)' /\ ~Has(e)'
      BY <2>1, <2>2, <3>3, <3>6 DEF OneSubscription, Has, Waits
    <3>8. TakeTurns(e)'
      BY <1>0, <1>2, <2>1, <2>2, <2>4, <3>1, <3>7, TakeTurn
    <3> QED
      BY <3>7, <3>8
  <2> QED
    BY <2>3, <2>4
<1>6. Balanced'
  BY <1>3, <1>5 DEF Balanced
<1> QED
  BY <1>1, <1>4, <1>6 DEF EventInv

LEMMA FinishEvents ==
    ASSUME EventInv, NEW x \in running, NEW t \in {"PromiseSuccess", "PromiseError"}, Finish(x, t)
    PROVE  EventInv'
<1> USE RequestSets
<1>0. IdInv /\ TypeOK
  BY DEF EventInv, IdInv
<1>1. IdInv'
  BY <1>0, FinishId
<1>2. x.name \in Calls /\ x.id \in Ids /\ x.id = id[x.name]
  BY <1>0, FinishFacts
<1>3. /\ serverActive' = [serverActive EXCEPT ![x.id] = None]
      /\ UNCHANGED <<id, isDisposed, uninitialized, listening, toServer, pending, subs, serverDisposed, sentLate, missed>>
  BY DEF Finish, client, history
<1>4. WaitingListens'
  BY <1>3 DEF EventInv, WaitingListens
<1>5. ASSUME ~isDisposed, NEW e \in Events \ (sentLate \cup missed)
      PROVE  OneSubscription(e)' /\ (~serverDisposed => TakeTurns(e)')
  <2>1. OneSubscription(e) /\ (~serverDisposed => TakeTurns(e))
    BY <1>5 DEF EventInv, Balanced
  <2>2. subs[e] = 1 => serverActive'[id[e]] = serverActive[id[e]]
    <3> SUFFICES ASSUME subs[e] = 1 PROVE serverActive'[id[e]] = serverActive[id[e]]
      OBVIOUS
    <3>1. id[e] \in Ids /\ HasId(e)
      BY <1>0 DEF IdInv, ServerIds, HasId, TypeOK
    <3>2. id[e] # x.id
      BY <1>0, <1>2, <3>1 DEF IdInv, IdsAreUnique
    <3> QED
      BY <1>0, <1>2, <1>3, <3>1, <3>2 DEF TypeOK
  <2>3. OneSubscription(e)' /\ (Has(e)' <=> Has(e))
    BY <1>3, <2>1, <2>2, SubscriptionKept
  <2>4. Wanted(e)' <=> Wanted(e)
    BY <1>3 DEF Wanted
  <2>5. About(e)' = About(e)
    BY <1>3 DEF About
  <2>6. ~serverDisposed => TakeTurns(e)'
    BY <1>3, <2>1, <2>3, <2>4, <2>5, TurnsKept
  <2> QED
    BY <2>3, <2>6
<1>6. Balanced'
  BY <1>3, <1>5 DEF Balanced
<1> QED
  BY <1>1, <1>4, <1>6 DEF EventInv

LEMMA FlushPendingRequestsEvents == ASSUME EventInv, FlushPendingRequests PROVE EventInv'
<1> USE RequestSets
<1>0. IdInv
  BY DEF EventInv
<1>1. IdInv'
  BY <1>0, FlushPendingRequestsId
<1>2. PICK reqs : reqs = [k \in DOMAIN pending |-> pending[k].request]
  OBVIOUS
<1>3. /\ reqs \in Seq(RequestMessages) /\ Len(reqs) = Len(pending)
      /\ \A k \in 1..Len(pending) : reqs[k] = pending[k].request
      /\ \A m \in Elements(reqs) : Genuine(m) /\ m.type \in {"Promise", "EventListen"}
  BY <1>0, <1>2, WaitingFacts
<1>4. /\ UNCHANGED <<id, isDisposed, uninitialized, listening, toServer, serverDisposed, sentLate, missed>>
      /\ Start(reqs) /\ pending' = <<>>
  BY <1>2 DEF FlushPendingRequests, client
<1>5. WaitingListens'
  BY <1>4 DEF EventInv, WaitingListens
<1>6. ASSUME ~isDisposed, NEW e \in Events \ (sentLate \cup missed)
      PROVE  OneSubscription(e)' /\ (~serverDisposed => TakeTurns(e)')
  <2>1. OneSubscription(e) /\ (~serverDisposed => TakeTurns(e))
    BY <1>6 DEF EventInv, Balanced
  <2>2. /\ (\A k \in 1..Len(reqs) : reqs[k].name # e) =>
              subs'[e] = subs[e] /\ (subs[e] = 1 => serverActive'[id[e]] = serverActive[id[e]])
        /\ \A k \in 1..Len(reqs) : reqs[k].name = e /\ (\A j \in 1..Len(reqs) : reqs[j].name = e => j = k) =>
              subs'[e] = subs[e] + 1 /\ serverActive'[id[e]] = e
    BY <1>0, <1>3, <1>4, StartEvent
  <2>3. Len(pending') = 0 /\ ~Waits(e)'
    BY <1>4 DEF Waits
  <2>4. OneSubscription(e)' /\ (Has(e)' <=> Has(e))
    <3>1. CASE Waits(e)
      <4>1. PICK k \in 1..Len(pending) : pending[k].request.name = e
        BY <3>1 DEF Waits
      <4>2. k \in 1..Len(reqs) /\ reqs[k].name = e /\ \A j \in 1..Len(reqs) : reqs[j].name = e => j = k
        BY <1>3, <2>1, <4>1 DEF OneSubscription
      <4>3. subs'[e] = subs[e] + 1 /\ serverActive'[id[e]] = e
        BY <2>2, <4>2
      <4>4. subs[e] = 0
        BY <2>1, <3>1 DEF OneSubscription
      <4>5. subs'[e] = 1
        BY <4>3, <4>4
      <4> QED
        BY <1>4, <2>3, <3>1, <4>3, <4>5 DEF OneSubscription, Has
    <3>2. CASE ~Waits(e)
      <4>1. \A k \in 1..Len(reqs) : reqs[k].name # e
        BY <1>3, <3>2 DEF Waits
      <4>2. subs'[e] = subs[e] /\ (subs[e] = 1 => serverActive'[id[e]] = serverActive[id[e]])
        BY <2>2, <4>1
      <4> QED
        BY <1>4, <2>1, <2>3, <3>2, <4>2 DEF OneSubscription, Has
    <3> QED
      BY <3>1, <3>2
  <2>5. Wanted(e)' <=> Wanted(e)
    BY <1>4 DEF Wanted
  <2>6. About(e)' = About(e)
    BY <1>4 DEF About
  <2>7. ~serverDisposed => TakeTurns(e)'
    BY <1>4, <2>1, <2>4, <2>5, <2>6, TurnsKept
  <2> QED
    BY <2>4, <2>7
<1>7. Balanced'
  BY <1>4, <1>6 DEF Balanced
<1> QED
  BY <1>1, <1>5, <1>7 DEF EventInv

LEMMA DisposeServerEvents == ASSUME EventInv, DisposeServer PROVE EventInv'
<1>0. IdInv /\ TypeOK
  BY DEF EventInv, IdInv
<1>1. IdInv'
  BY <1>0, DisposeServerId
<1>2. serverDisposed' = TRUE /\ UNCHANGED <<isDisposed, uninitialized, listening, pending, sentLate, missed>>
  BY DEF DisposeServer, client, history
<1>3. ASSUME NEW e \in Events PROVE subs'[e] \in Nat /\ subs'[e] <= subs[e] /\ subs[e] \in Nat
  <2>1. subs[e] \in Nat /\ subs'[e] \in Nat
    BY <1>0, <1>1 DEF IdInv, TypeOK
  <2>2. subs'[e] = subs[e] - Cardinality({i \in Ids : serverActive[i] = e})
    BY DEF DisposeServer
  <2>3. Cardinality({i \in Ids : serverActive[i] = e}) \in Nat
    <3>1. IsFiniteSet(Ids)
      BY FiniteRequests, FS_Interval DEF Ids
    <3>2. IsFiniteSet({i \in Ids : serverActive[i] = e})
      BY <3>1, FS_Subset
    <3> QED
      BY <3>2, FS_CardinalityType
  <2> QED
    BY <2>1, <2>2, <2>3
<1>4. WaitingListens'
  BY <1>2 DEF EventInv, WaitingListens
<1>5. ASSUME ~isDisposed, NEW e \in Events \ (sentLate \cup missed) PROVE OneSubscription(e)'
  <2>1. OneSubscription(e) /\ (Waits(e)' <=> Waits(e))
    BY <1>2, <1>5 DEF EventInv, Balanced, Waits
  <2>2. subs'[e] \in {0, 1} /\ (subs'[e] = 1 => subs[e] = 1)
    BY <1>3, <2>1 DEF OneSubscription
  <2> QED
    BY <1>2, <2>1, <2>2 DEF OneSubscription
<1>6. Balanced'
  BY <1>2, <1>5 DEF Balanced
<1> QED
  BY <1>1, <1>4, <1>6 DEF EventInv

LEMMA NextEvents == ASSUME EventInv, [Next]_vars PROVE EventInv'
<1>1. CASE \E c \in Calls : Call(c) \/ CallRejected(c) \/ Cancel(c)
  BY <1>1, CallEvents, CallRejectedEvents, CancelEvents
<1>2. CASE \E e \in Events : AddFirstListener(e) \/ RemoveLastListener(e) \/ Fire(e)
  BY <1>2, AddFirstListenerEvents, RemoveLastListenerEvents, FireEvents
<1>3. CASE \E r \in Requests : Initialized(r) \/ DoRequest(r)
  BY <1>3, InitializedEvents, DoRequestEvents
<1>4. CASE ReceiveInitialize \/ ReceiveResponse \/ DisposeClient
  BY <1>4, ReceiveInitializeEvents, ReceiveResponseEvents, DisposeClientEvents
<1>5. CASE ReceiveRequest \/ ReceiveDispose
  BY <1>5, ReceiveRequestEvents, ReceiveDisposeEvents
<1>6. CASE \E x \in running, type \in {"PromiseSuccess", "PromiseError"} : Finish(x, type)
  BY <1>6, FinishEvents
<1>7. CASE RegisterChannel \/ FlushPendingRequests \/ DisposeServer
  BY <1>7, RegisterChannelEvents, FlushPendingRequestsEvents, DisposeServerEvents
<1>8. CASE \E k \in DOMAIN pending : PendingTimeout(k)
  BY <1>8, PendingTimeoutEvents
<1>9. CASE UNCHANGED vars
  <2>1. IdInv'
    BY <1>9, StutterId DEF EventInv
  <2>2. UNCHANGED <<id, isDisposed, uninitialized, listening, toServer, pending, subs, serverActive, serverDisposed,
                    sentLate, missed>>
    BY <1>9 DEF vars, client, server, history
  <2>3. WaitingListens' /\ KeepsIds
    BY <2>2 DEF EventInv, WaitingListens, KeepsIds
  <2>4. \A e \in Events : TakeTurns(e) /\ (Has(e)' <=> Has(e)) => TakeTurns(e)'
    BY <2>2, TurnsKept DEF About, Wanted
  <2> QED
    BY <2>1, <2>2, <2>3, <2>4, EventKept
<1> QED
  BY <1>1, <1>2, <1>3, <1>4, <1>5, <1>6, <1>7, <1>8, <1>9, Zenon DEF Next

LEMMA InitEvents == Init => EventInv
<1> SUFFICES ASSUME Init PROVE EventInv
  OBVIOUS
<1>1. IdInv
  BY InitId
<1>2. Len(pending) = 0 /\ Len(toServer) = 0 /\ \A e \in Events : subs[e] = 0
  BY DEF Init
<1>3. \A e \in Events : OneSubscription(e) /\ About(e) = {} /\ ~Has(e) /\ ~Wanted(e)
  BY <1>2 DEF Init, OneSubscription, About, Has, Waits, Wanted
<1>4. \A e \in Events : TakeTurns(e)
  BY <1>3 DEF TakeTurns
<1>5. WaitingListens
  BY DEF Init, WaitingListens
<1> QED
  BY <1>1, <1>3, <1>4, <1>5 DEF EventInv, Balanced

\* Messages about an event take turns, from what the server has to what the
\* client wants, and the server has at most one subscription.
THEOREM SubscriptionsTakeTurns == Spec => []EventInv
<1>1. EventInv /\ [Next]_vars => EventInv'
  BY NextEvents
<1> QED
  BY <1>1, InitEvents, PTL DEF Spec

\* When the messages have arrived, the server listens to an event exactly
\* once while somebody at the client does, and not at all otherwise.
THEOREM ServerListensWithClient == Spec => []SubscriptionsMatch
<1>1. EventInv => SubscriptionsMatch
  <2> SUFFICES ASSUME EventInv, Quiet, NEW e \in Events \ (sentLate \cup missed)
               PROVE  subs[e] = IF e \in listening THEN 1 ELSE 0
    BY DEF SubscriptionsMatch
  <2>1. OneSubscription(e) /\ TakeTurns(e)
    BY DEF EventInv, Balanced, Quiet
  <2>2. Len(pending) = 0 /\ Len(toServer) = 0 /\ uninitialized = {}
    BY DEF Quiet
  <2>3. About(e) = {} /\ ~Waits(e)
    BY <2>2 DEF About, Waits
  <2>4. subs[e] = 1 <=> e \in listening
    BY <2>1, <2>2, <2>3 DEF TakeTurns, Has, Wanted
  <2> QED
    BY <2>1, <2>4 DEF OneSubscription
<1> QED
  BY <1>1, SubscriptionsTakeTurns, PTL

-----------------------------------------------------------------------------
(* What listeners hear *)

\* The messages to the client stay, and only answers follow.
FollowedByAnswers ==
    /\ Len(toClient) \in Nat /\ Len(toClient') \in Nat /\ Len(toClient) <= Len(toClient')
    /\ \A k \in 1..Len(toClient) : toClient'[k] = toClient[k]
    /\ \A k \in 1..Len(toClient') : k > Len(toClient) => toClient'[k].type # "EventFire"

\* A message that was sent belongs to the same event as before.
LEMMA FiresKept ==
    ASSUME IdInv, IdInv', KeepsIds, NEW m \in Elements(toClient), NEW e \in Events, Fires(m, id'[e])
    PROVE  Fires(m, id[e])
<1> USE RequestSets
<1>1. m.type = "EventFire" /\ m.id = id'[e]
  BY DEF Fires
<1>2. PICK f \in Events : HasId(f) /\ m.id = id[f]
  BY <1>1 DEF IdInv, MessagesAreGenuine, GenuineResponse
<1>3. id'[f] = id[f] /\ id'[f] # -1 /\ id'[f] = id'[e]
  BY <1>1, <1>2 DEF KeepsIds, HasId
<1>4. f = e
  BY <1>3 DEF IdInv, IdsAreUnique, HasId
<1> QED
  BY <1>1, <1>2, <1>4 DEF Fires

\* Steps that tell listeners nothing and fire nothing.
LEMMA HeardKept ==
    ASSUME HeardInv, EventInv', KeepsIds, UNCHANGED <<heard, fires, isDisposed>>,
           sentLate \subseteq sentLate', missed \subseteq missed', ~isDisposed => FollowedByAnswers
    PROVE  HeardInv'
<1>0. IdInv /\ IdInv' /\ TypeOK /\ toClient \in Seq(ResponseMessages)
  BY DEF HeardInv, EventInv, IdInv, TypeOK
<1>1. HeardOnce'
  BY DEF HeardInv, HeardOnce
<1>2. ASSUME ~isDisposed, NEW e \in Events \ (sentLate' \cup missed') PROVE StillToHear(e)'
  <2>1. StillToHear(e) /\ FollowedByAnswers
    BY <1>2 DEF HeardInv
  <2>2. ASSUME NEW k \in 1..Len(toClient'), Fires(toClient'[k], id'[e])
        PROVE  k \in 1..Len(toClient) /\ toClient'[k] = toClient[k] /\ Fires(toClient[k], id[e])
    <3>1. toClient'[k].type = "EventFire"
      BY <2>2 DEF Fires
    <3>2. k \in 1..Len(toClient) /\ toClient'[k] = toClient[k]
      BY <2>1, <3>1 DEF FollowedByAnswers
    <3>3. PICK m \in Elements(toClient) : m = toClient[k]
      BY <1>0, <3>2, ElementsFacts
    <3>4. Fires(m, id'[e])
      BY <2>2, <3>2, <3>3 DEF Fires
    <3>5. Fires(m, id[e])
      BY <1>0, <3>4, FiresKept
    <3> QED
      BY <3>2, <3>3, <3>5
  <2>3. ASSUME NEW k \in 1..Len(toClient'), Fires(toClient'[k], id'[e])
        PROVE  /\ toClient'[k].data <= fires'[e]
               /\ \A i \in 1..Len(heard'[e]) : heard'[e][i] < toClient'[k].data
               /\ \A l \in 1..Len(toClient') : l < k /\ Fires(toClient'[l], id'[e]) => toClient'[l].data < toClient'[k].data
    <3>1. k \in 1..Len(toClient) /\ toClient'[k] = toClient[k] /\ Fires(toClient[k], id[e])
      BY <2>2, <2>3
    <3>2. /\ toClient[k].data <= fires[e]
          /\ \A i \in 1..Len(heard[e]) : heard[e][i] < toClient[k].data
          /\ \A l \in 1..Len(toClient) : l < k /\ Fires(toClient[l], id[e]) => toClient[l].data < toClient[k].data
      BY <2>1, <3>1 DEF StillToHear
    <3> QED
      BY <2>2, <3>1, <3>2
  <2> QED
    BY <2>1, <2>3 DEF StillToHear
<1> QED
  BY <1>1, <1>2 DEF HeardInv

\* Steps that leave what was sent to the client.
LEMMA HeardUnchanged ==
    ASSUME HeardInv, EventInv', KeepsIds, UNCHANGED <<heard, fires, isDisposed, toClient>>,
           sentLate \subseteq sentLate', missed \subseteq missed'
    PROVE  HeardInv'
<1>1. toClient \in Seq(ResponseMessages)
  BY DEF HeardInv, EventInv, IdInv, TypeOK
<1>2. Len(toClient) \in Nat
  BY <1>1, ElementsFacts
<1>3. FollowedByAnswers
  BY <1>2 DEF FollowedByAnswers
<1> QED
  BY <1>3, HeardKept

\* Steps that send an answer.
LEMMA HeardAnswer ==
    ASSUME HeardInv, EventInv', KeepsIds, UNCHANGED <<heard, fires, isDisposed, sentLate, missed>>,
           NEW m \in ResponseMessages, IsAnswer(m), SendResponses(<<m>>)
    PROVE  HeardInv'
<1>1. toClient \in Seq(ResponseMessages)
  BY DEF HeardInv, EventInv, IdInv, TypeOK
<1>2. <<m>> \in Seq(ResponseMessages) /\ Len(<<m>>) = 1 /\ toClient \o <<m>> = Append(toClient, m)
  BY <1>1, OneResponse
<1>3. ASSUME ~isDisposed PROVE FollowedByAnswers
  <2>1. toClient' = Append(toClient, m)
    BY <1>2, <1>3 DEF SendResponses
  <2>2. /\ Len(toClient') = Len(toClient) + 1 /\ Len(toClient) \in Nat
        /\ \A k \in 1..Len(toClient) : toClient'[k] = toClient[k]
        /\ toClient'[Len(toClient) + 1] = m
    BY <1>1, <2>1, AppendFacts
  <2>3. m.type # "EventFire"
    BY DEF IsAnswer
  <2> QED
    BY <2>2, <2>3 DEF FollowedByAnswers
<1> QED
  BY <1>3, HeardKept

LEMMA DisposeClientHeard == ASSUME HeardInv, DisposeClient PROVE HeardInv'
<1>1. EventInv'
  BY DisposeClientEvents DEF HeardInv
<1>2. isDisposed' = TRUE /\ UNCHANGED <<heard, sentLate, missed>>
  BY DEF DisposeClient, history
<1> QED
  BY <1>1, <1>2 DEF HeardInv, HeardOnce

LEMMA FireHeard == ASSUME HeardInv, NEW f \in Events, Fire(f) PROVE HeardInv'
<1> USE RequestSets
<1>0. EventInv /\ IdInv /\ TypeOK /\ toClient \in Seq(ResponseMessages) /\ subs[f] > 0
  BY DEF HeardInv, EventInv, IdInv, TypeOK, Fire
<1>1. EventInv'
  BY <1>0, FireEvents
<1>2. /\ UNCHANGED <<id, isDisposed, heard, sentLate, missed>>
      /\ fires' = [fires EXCEPT ![f] = @ + 1]
  BY DEF Fire, client
<1>3. HasId(f) /\ id[f] \in Nat /\ fires[f] \in Nat /\ fires[f] + 1 \in Nat
  <2>1. HasId(f) /\ id[f] \in Ids /\ fires[f] \in 0..MaxFires
    BY <1>0 DEF IdInv, ServerIds, HasId, TypeOK
  <2>2. fires[f] \in Nat /\ fires[f] + 1 \in Nat
    BY <2>1
  <2>3. id[f] \in Nat
    BY <2>1
  <2> QED
    BY <2>1, <2>2, <2>3, Zenon
<1>4. PICK m \in ResponseMessages :
         m = Response("EventFire", id[f], fires[f] + 1) /\ m.type = "EventFire" /\ m.id = id[f] /\ m.data = fires[f] + 1
  BY <1>3, NewResponse
<1>5. HeardOnce'
  BY <1>2 DEF HeardInv, HeardOnce
<1>6. ASSUME ~isDisposed, NEW e \in Events \ (sentLate \cup missed) PROVE StillToHear(e)'
  <2>1. StillToHear(e) /\ OneSubscription(e)
    BY <1>6 DEF HeardInv, EventInv, Balanced
  <2>2. PICK ms \in Seq(ResponseMessages) : /\ toClient' = toClient \o ms /\ \A k \in 1..Len(ms) : ms[k] = m
                                            /\ e = f => Len(ms) = 1
    <3> DEFINE s == [k \in 1..subs[f] |-> m]
    <3>1. subs[f] \in Nat /\ (e = f => subs[f] = 1)
      BY <1>0, <2>1 DEF TypeOK, OneSubscription
    <3>2. s \in Seq(ResponseMessages) /\ Len(s) = subs[f] /\ \A k \in 1..Len(s) : s[k] = m
      BY <3>1
    <3>3. toClient' = toClient \o s
      BY <1>4, <1>6 DEF Fire, SendResponses
    <3> HIDE DEF s
    <3> QED
      BY <3>1, <3>2, <3>3
  <2>3. /\ Len(toClient') = Len(toClient) + Len(ms) /\ Len(toClient) \in Nat /\ Len(ms) \in Nat
        /\ \A k \in 1..Len(toClient) : toClient'[k] = toClient[k]
        /\ \A k \in 1..Len(ms) : toClient'[Len(toClient) + k] = m
    BY <1>0, <2>2
  <2>4. ASSUME NEW k \in 1..Len(toClient') PROVE k \in 1..Len(toClient) \/ toClient'[k] = m
    <3>1. k \notin 1..Len(toClient) => k - Len(toClient) \in 1..Len(ms) /\ Len(toClient) + (k - Len(toClient)) = k
      BY <2>3
    <3> QED
      BY <2>3, <3>1
  <2>5. Fires(m, id'[e]) => e = f
    BY <1>0, <1>2, <1>3, <1>4, <1>6 DEF Fires, IdInv, IdsAreUnique
  <2>6. \A k \in 1..Len(toClient) : Fires(toClient'[k], id'[e]) <=> Fires(toClient[k], id[e])
    BY <1>2, <2>3 DEF Fires
  <2>7. CASE e # f
    <3>1. fires'[e] = fires[e]
      BY <1>0, <1>2, <1>6, <2>7 DEF TypeOK
    <3>2. \A k \in 1..Len(toClient') : Fires(toClient'[k], id'[e]) =>
             k \in 1..Len(toClient) /\ toClient'[k] = toClient[k] /\ Fires(toClient[k], id[e])
      <4> SUFFICES ASSUME NEW k \in 1..Len(toClient'), Fires(toClient'[k], id'[e])
                   PROVE  k \in 1..Len(toClient) /\ toClient'[k] = toClient[k] /\ Fires(toClient[k], id[e])
        OBVIOUS
      <4>1. toClient'[k] # m
        BY <2>5, <2>7 DEF Fires
      <4> QED
        BY <2>3, <2>4, <2>6, <4>1
    <3> QED
      BY <1>2, <2>1, <3>1, <3>2 DEF StillToHear
  <2>8. CASE e = f
    <3>1. fires'[e] = fires[e] + 1
      BY <1>0, <1>2, <1>6, <2>8 DEF TypeOK
    <3>2. Len(toClient') = Len(toClient) + 1 /\ toClient'[Len(toClient) + 1] = m
      <4>1. Len(ms) = 1 /\ 1 \in 1..Len(ms)
        BY <2>2, <2>8
      <4> QED
        BY <2>3, <4>1
    <3>3. \A i \in 1..Len(heard[e]) : heard[e][i] \in Nat /\ heard[e][i] <= fires[e]
      <4>1. heard[e] \in Seq(Nat)
        BY <1>0, <1>6 DEF TypeOK
      <4>2. \A i \in 1..Len(heard[e]) : heard[e][i] \in Nat
        BY <4>1
      <4> QED
        BY <2>1, <4>2 DEF StillToHear
    <3>4. \A k \in 1..Len(toClient) : Fires(toClient[k], id[e]) =>
             toClient[k].data \in Nat /\ toClient[k].data <= fires[e]
      <4>1. ASSUME NEW k \in 1..Len(toClient), Fires(toClient[k], id[e]) PROVE toClient[k].data \in Nat
        BY <1>0, <4>1, ElementsFacts DEF Fires, IdInv, MessagesAreGenuine, GenuineResponse
      <4> QED
        BY <2>1, <4>1 DEF StillToHear
    <3>5. \A i \in 1..Len(heard'[e]) : heard'[e][i] <= fires'[e]
      BY <1>2, <1>3, <2>8, <3>1, <3>3
    <3>6. ASSUME NEW k \in 1..Len(toClient'), Fires(toClient'[k], id'[e])
          PROVE  /\ toClient'[k].data <= fires'[e]
                 /\ \A i \in 1..Len(heard'[e]) : heard'[e][i] < toClient'[k].data
                 /\ \A l \in 1..Len(toClient') : l < k /\ Fires(toClient'[l], id'[e]) => toClient'[l].data < toClient'[k].data
      <4>1. CASE k \in 1..Len(toClient)
        <5>1. toClient'[k] = toClient[k] /\ Fires(toClient[k], id[e])
          BY <2>3, <2>6, <3>6, <4>1
        <5>2. /\ toClient[k].data \in Nat /\ toClient[k].data <= fires[e]
              /\ \A i \in 1..Len(heard[e]) : heard[e][i] < toClient[k].data
              /\ \A l \in 1..Len(toClient) : l < k /\ Fires(toClient[l], id[e]) => toClient[l].data < toClient[k].data
          BY <2>1, <3>4, <4>1, <5>1 DEF StillToHear
        <5>3. toClient'[k].data <= fires'[e]
          BY <1>3, <2>8, <3>1, <5>1, <5>2
        <5>4. \A l \in 1..Len(toClient') : l < k => l \in 1..Len(toClient)
          BY <2>3, <4>1
        <5> QED
          BY <1>2, <2>3, <2>6, <5>1, <5>2, <5>3, <5>4
      <4>2. CASE k \notin 1..Len(toClient)
        <5>1. toClient'[k] = m /\ m.data = fires[e] + 1 /\ k = Len(toClient) + 1
          BY <1>4, <2>3, <2>8, <3>2, <4>2
        <5>2. \A i \in 1..Len(heard'[e]) : heard'[e][i] < toClient'[k].data
          BY <1>2, <1>3, <2>8, <3>3, <5>1
        <5>3. ASSUME NEW l \in 1..Len(toClient'), l < k, Fires(toClient'[l], id'[e]) PROVE toClient'[l].data < toClient'[k].data
          <6>1. l \in 1..Len(toClient) /\ toClient'[l] = toClient[l] /\ Fires(toClient[l], id[e])
            BY <2>3, <2>6, <5>1, <5>3
          <6>2. toClient[l].data \in Nat /\ toClient[l].data <= fires[e]
            BY <3>4, <6>1
          <6> QED
            BY <1>3, <2>8, <5>1, <6>1, <6>2
        <5>4. toClient'[k].data <= fires'[e]
          BY <1>3, <2>8, <3>1, <5>1
        <5> QED
          BY <5>2, <5>3, <5>4
      <4> QED
        BY <4>1, <4>2
    <3> QED
      BY <3>5, <3>6 DEF StillToHear
  <2> QED
    BY <2>7, <2>8
<1> QED
  BY <1>1, <1>2, <1>5, <1>6 DEF HeardInv

\* The first message to the client is taken.
LEMMA TakeHeard ==
    ASSUME toClient \in Seq(ResponseMessages), toClient # <<>>, toClient' = Tail(toClient), id' = id, NEW e \in Events,
           NEW k \in 1..Len(toClient'), Fires(toClient'[k], id'[e])
    PROVE  /\ k + 1 \in 1..Len(toClient) /\ toClient'[k] = toClient[k + 1] /\ Fires(toClient[k + 1], id[e])
           /\ \A l \in 1..Len(toClient') : l < k /\ Fires(toClient'[l], id'[e]) =>
                 l + 1 \in 1..Len(toClient) /\ l + 1 < k + 1 /\ toClient'[l] = toClient[l + 1] /\ Fires(toClient[l + 1], id[e])
<1>1. Len(toClient') = Len(toClient) - 1 /\ Len(toClient) \in Nat /\ \A l \in 1..(Len(toClient) - 1) : toClient'[l] = toClient[l + 1]
  BY TailFacts
<1>2. ASSUME NEW l \in 1..Len(toClient'), Fires(toClient'[l], id'[e])
      PROVE  l + 1 \in 1..Len(toClient) /\ toClient'[l] = toClient[l + 1] /\ Fires(toClient[l + 1], id[e])
  <2>1. l + 1 \in 1..Len(toClient) /\ toClient'[l] = toClient[l + 1]
    BY <1>1
  <2> QED
    BY <1>2, <2>1 DEF Fires
<1>3. \A l \in 1..Len(toClient') : l < k => l + 1 < k + 1
  BY <1>1
<1> QED
  BY <1>2, <1>3

LEMMA ReceiveInitializeHeard == ASSUME HeardInv, ReceiveInitialize PROVE HeardInv'
<1>0. EventInv /\ IdInv /\ TypeOK /\ toClient \in Seq(ResponseMessages) /\ toClient # <<>>
  BY DEF HeardInv, EventInv, IdInv, TypeOK, ReceiveInitialize
<1>1. EventInv'
  BY <1>0, ReceiveInitializeEvents
<1>2. toClient' = Tail(toClient) /\ UNCHANGED <<id, isDisposed, heard, fires, sentLate, missed>>
  BY DEF ReceiveInitialize, history
<1>3. HeardOnce'
  BY <1>2 DEF HeardInv, HeardOnce
<1>4. ASSUME ~isDisposed, NEW e \in Events \ (sentLate \cup missed) PROVE StillToHear(e)'
  <2>1. StillToHear(e)
    BY <1>4 DEF HeardInv
  <2>2. ASSUME NEW k \in 1..Len(toClient'), Fires(toClient'[k], id'[e])
        PROVE  /\ toClient'[k].data <= fires'[e]
               /\ \A i \in 1..Len(heard'[e]) : heard'[e][i] < toClient'[k].data
               /\ \A l \in 1..Len(toClient') : l < k /\ Fires(toClient'[l], id'[e]) => toClient'[l].data < toClient'[k].data
    <3>1. /\ k + 1 \in 1..Len(toClient) /\ toClient'[k] = toClient[k + 1] /\ Fires(toClient[k + 1], id[e])
          /\ \A l \in 1..Len(toClient') : l < k /\ Fires(toClient'[l], id'[e]) =>
                l + 1 \in 1..Len(toClient) /\ l + 1 < k + 1 /\ toClient'[l] = toClient[l + 1] /\ Fires(toClient[l + 1], id[e])
      BY <1>0, <1>2, <1>4, <2>2, TakeHeard
    <3>2. /\ toClient[k + 1].data <= fires[e]
          /\ \A i \in 1..Len(heard[e]) : heard[e][i] < toClient[k + 1].data
          /\ \A l \in 1..Len(toClient) : l < k + 1 /\ Fires(toClient[l], id[e]) => toClient[l].data < toClient[k + 1].data
      BY <2>1, <3>1 DEF StillToHear
    <3> QED
      BY <1>2, <3>1, <3>2
  <2> QED
    BY <1>2, <2>1, <2>2 DEF StillToHear
<1> QED
  BY <1>1, <1>2, <1>3, <1>4 DEF HeardInv

LEMMA ReceiveResponseHeard == ASSUME HeardInv, ReceiveResponse PROVE HeardInv'
<1> USE RequestSets
<1>0. EventInv /\ IdInv /\ TypeOK /\ toClient \in Seq(ResponseMessages) /\ toClient # <<>> /\ ~isDisposed
  BY DEF HeardInv, EventInv, IdInv, TypeOK, ReceiveResponse
<1>1. EventInv'
  BY <1>0, ReceiveResponseEvents
<1>2. PICK m \in ResponseMessages, r \in Requests \cup {None} :
         /\ m = Head(toClient) /\ m \in Elements(toClient) /\ (r # None => id[r] = m.id)
         /\ toClient' = Tail(toClient)
         /\ UNCHANGED <<isDisposed, id, listening, fires, sentLate, missed>>
         /\ r \notin listening => heard' = heard
         /\ r \in listening => heard' = [heard EXCEPT ![r] = Append(@, m.data)] /\ m.type = "EventFire" /\ m.data \in Nat
  BY <1>0, ResponseFacts
<1>3. Len(toClient) \in Nat \ {0} /\ m = toClient[1] /\ 1 \in 1..Len(toClient)
  <2>1. Len(toClient) \in Nat \ {0} /\ m = toClient[1]
    BY <1>0, <1>2, TailFacts
  <2> QED
    BY <2>1
<1>4. ASSUME NEW e \in Events \ (sentLate \cup missed)
      PROVE  /\ StillToHear(e)'
             /\ \A i, j \in 1..Len(heard'[e]) : i < j => heard'[e][i] < heard'[e][j]
  <2>1. /\ StillToHear(e) /\ e \in Events /\ heard[e] \in Seq(Nat) /\ Len(heard[e]) \in Nat
        /\ \A i \in 1..Len(heard[e]) : heard[e][i] \in Nat
        /\ \A i, j \in 1..Len(heard[e]) : i < j => heard[e][i] < heard[e][j]
    <3>1. StillToHear(e) /\ e \in Events /\ heard[e] \in Seq(Nat)
      BY <1>0, <1>4 DEF HeardInv, TypeOK
    <3>2. Len(heard[e]) \in Nat /\ DOMAIN heard[e] = 1..Len(heard[e]) /\ \A i \in 1..Len(heard[e]) : heard[e][i] \in Nat
      BY <3>1
    <3>3. \A i, j \in DOMAIN heard[e] : i < j => heard[e][i] < heard[e][j]
      BY <1>4 DEF HeardInv, HeardOnce
    <3> QED
      BY <3>1, <3>2, <3>3
  <2>2. ASSUME NEW k \in 1..Len(toClient'), Fires(toClient'[k], id'[e])
        PROVE  /\ toClient'[k].data <= fires'[e]
               /\ \A i \in 1..Len(heard[e]) : heard[e][i] < toClient'[k].data
               /\ Fires(m, id[e]) => m.data < toClient'[k].data
               /\ \A l \in 1..Len(toClient') : l < k /\ Fires(toClient'[l], id'[e]) => toClient'[l].data < toClient'[k].data
    <3>1. /\ k + 1 \in 1..Len(toClient) /\ toClient'[k] = toClient[k + 1] /\ Fires(toClient[k + 1], id[e])
          /\ \A l \in 1..Len(toClient') : l < k /\ Fires(toClient'[l], id'[e]) =>
                l + 1 \in 1..Len(toClient) /\ l + 1 < k + 1 /\ toClient'[l] = toClient[l + 1] /\ Fires(toClient[l + 1], id[e])
      BY <1>0, <1>2, <2>1, <2>2, TakeHeard
    <3>2. /\ toClient[k + 1].data <= fires[e]
          /\ \A i \in 1..Len(heard[e]) : heard[e][i] < toClient[k + 1].data
          /\ \A l \in 1..Len(toClient) : l < k + 1 /\ Fires(toClient[l], id[e]) => toClient[l].data < toClient[k + 1].data
      BY <2>1, <3>1 DEF StillToHear
    <3>3. 1 < k + 1
      OBVIOUS
    <3>4. Fires(m, id[e]) => m.data < toClient'[k].data
      BY <1>3, <3>1, <3>2, <3>3
    <3> QED
      BY <1>2, <3>1, <3>2, <3>4
  <2>3. CASE ~(r \in listening /\ r = e)
    <3>1. heard'[e] = heard[e]
      BY <1>0, <1>2, <2>1, <2>3 DEF TypeOK
    <3>2. \A i \in 1..Len(heard[e]) : heard[e][i] <= fires[e]
      BY <2>1 DEF StillToHear
    <3>3. StillToHear(e)'
      BY <1>2, <2>2, <3>1, <3>2 DEF StillToHear
    <3> QED
      BY <2>1, <3>1, <3>3
  <2>4. CASE r \in listening /\ r = e
    <3>1. heard'[e] = Append(heard[e], m.data) /\ m.data \in Nat /\ Fires(m, id[e])
      BY <1>0, <1>2, <2>1, <2>4 DEF TypeOK, Fires
    <3>2. /\ Len(heard'[e]) = Len(heard[e]) + 1
          /\ \A i \in 1..Len(heard[e]) : heard'[e][i] = heard[e][i]
          /\ heard'[e][Len(heard[e]) + 1] = m.data
      BY <2>1, <3>1, AppendFacts
    <3>3. m.data <= fires[e] /\ \A i \in 1..Len(heard[e]) : heard[e][i] < m.data /\ heard[e][i] <= fires[e]
      BY <1>3, <2>1, <3>1 DEF StillToHear
    <3>4. \A i \in 1..Len(heard'[e]) : i \in 1..Len(heard[e]) \/ i = Len(heard[e]) + 1
      BY <2>1, <3>2
    <3>5. \A i, j \in 1..Len(heard'[e]) : i < j => heard'[e][i] < heard'[e][j]
      <4> SUFFICES ASSUME NEW i \in 1..Len(heard'[e]), NEW j \in 1..Len(heard'[e]), i < j
                   PROVE  heard'[e][i] < heard'[e][j]
        OBVIOUS
      <4>1. i \in 1..Len(heard[e]) /\ heard'[e][i] = heard[e][i]
        BY <2>1, <3>2
      <4>2. CASE j \in 1..Len(heard[e])
        BY <2>1, <3>2, <4>1, <4>2
      <4>3. CASE j = Len(heard[e]) + 1
        BY <3>2, <3>3, <4>1, <4>3
      <4> QED
        BY <3>4, <4>2, <4>3
    <3>6. \A i \in 1..Len(heard'[e]) : heard'[e][i] <= fires'[e]
      BY <1>2, <3>2, <3>3, <3>4
    <3>7. ASSUME NEW k \in 1..Len(toClient'), Fires(toClient'[k], id'[e])
          PROVE  \A i \in 1..Len(heard'[e]) : heard'[e][i] < toClient'[k].data
      BY <2>2, <3>1, <3>2, <3>4, <3>7
    <3>8. StillToHear(e)'
      BY <2>2, <3>6, <3>7 DEF StillToHear
    <3> QED
      BY <3>5, <3>8
  <2> QED
    BY <2>3, <2>4
<1>5. HeardOnce'
  <2>1. ASSUME NEW e \in Events PROVE DOMAIN heard'[e] = 1..Len(heard'[e])
    <3>1. heard'[e] \in Seq(Nat)
      BY <1>1 DEF EventInv, IdInv, TypeOK
    <3> QED
      BY <3>1
  <2> QED
    BY <1>2, <1>4, <2>1 DEF HeardOnce
<1> QED
  BY <1>1, <1>2, <1>4, <1>5 DEF HeardInv

LEMMA NextHeard == ASSUME HeardInv, [Next]_vars PROVE HeardInv'
<1>0. EventInv /\ IdInv /\ TypeOK
  BY DEF HeardInv, EventInv, IdInv
<1>1. EventInv'
  BY <1>0, NextEvents
<1>3. ASSUME NEW c \in Calls, Call(c) \/ CallRejected(c) \/ Cancel(c) PROVE HeardInv'
  <2>1. UNCHANGED <<heard, fires, isDisposed, toClient, sentLate, missed>>
    BY <1>3 DEF Call, CallRejected, Cancel, history
  <2>2. KeepsIds
    <3>1. CASE Call(c)
      BY <1>0, <3>1 DEF Call, IdInv, IdsAreUnique, HasId, KeepsIds, TypeOK
    <3>2. CASE CallRejected(c) \/ Cancel(c)
      BY <3>2 DEF CallRejected, Cancel, KeepsIds
    <3> QED
      BY <1>3, <3>1, <3>2
  <2> QED
    BY <1>1, <2>1, <2>2, HeardUnchanged
<1>4. ASSUME NEW e \in Events, AddFirstListener(e) \/ RemoveLastListener(e) PROVE HeardInv'
  <2>1. UNCHANGED <<heard, fires, isDisposed, toClient, sentLate, missed>>
    BY <1>4 DEF AddFirstListener, RemoveLastListener, history
  <2>2. KeepsIds
    <3>1. CASE AddFirstListener(e)
      BY <1>0, <3>1 DEF AddFirstListener, HasId, KeepsIds, TypeOK
    <3>2. CASE RemoveLastListener(e)
      BY <3>2 DEF RemoveLastListener, KeepsIds
    <3> QED
      BY <1>4, <3>1, <3>2
  <2> QED
    BY <1>1, <2>1, <2>2, HeardUnchanged
<1>5. ASSUME NEW r \in Requests, Initialized(r) \/ DoRequest(r) PROVE HeardInv'
  <2>1. UNCHANGED <<id, heard, fires, isDisposed, toClient, missed>>
    BY <1>5 DEF Initialized, DoRequest, history
  <2>2. sentLate \subseteq sentLate'
    BY <1>5 DEF Initialized, DoRequest, history
  <2>3. KeepsIds
    BY <2>1 DEF KeepsIds
  <2> QED
    BY <1>1, <2>1, <2>2, <2>3, HeardUnchanged
<1>6. ASSUME ReceiveRequest \/ RegisterChannel \/ FlushPendingRequests \/ DisposeServer \/ UNCHANGED vars
      PROVE  HeardInv'
  <2>1. UNCHANGED <<id, heard, fires, isDisposed, toClient, sentLate, missed>>
    BY <1>6 DEF ReceiveRequest, RegisterChannel, FlushPendingRequests, DisposeServer, client, history, vars
  <2>2. KeepsIds
    BY <2>1 DEF KeepsIds
  <2> QED
    BY <1>1, <2>1, <2>2, HeardUnchanged
<1>7. ASSUME ReceiveDispose PROVE HeardInv'
  <2>1. UNCHANGED <<id, heard, fires, isDisposed, toClient, sentLate>> /\ missed \subseteq missed'
    BY <1>7 DEF ReceiveDispose, client
  <2>2. KeepsIds
    BY <2>1 DEF KeepsIds
  <2> QED
    BY <1>1, <2>1, <2>2, HeardUnchanged
<1>8. ASSUME NEW x \in running, NEW type \in {"PromiseSuccess", "PromiseError"}, Finish(x, type) PROVE HeardInv'
  <2>1. PICK m \in ResponseMessages : IsAnswer(m) /\ SendResponses(<<m>>)
    BY <1>0, <1>8, FinishFacts
  <2>2. UNCHANGED <<id, heard, fires, isDisposed, sentLate, missed>>
    BY <1>8 DEF Finish, client, history
  <2>3. KeepsIds
    BY <2>2 DEF KeepsIds
  <2> QED
    BY <1>1, <2>1, <2>2, <2>3, HeardAnswer
<1>9. ASSUME NEW k \in DOMAIN pending, PendingTimeout(k) PROVE HeardInv'
  <2>1. PICK q \in RequestMessages : q = pending[k].request /\ Genuine(q) /\ q.id \in Ids /\ q.name \in Requests
    BY <1>0, <1>9, TimeoutFacts
  <2>2. UNCHANGED <<id, heard, fires, isDisposed, sentLate, missed>>
    BY <1>9 DEF PendingTimeout, client
  <2>3. KeepsIds
    BY <2>2 DEF KeepsIds
  <2>4. CASE q.type = "Promise"
    <3>1. q.name \in Nat /\ q.id \in Nat
      BY <2>1, <2>4, RequestSets DEF Genuine
    <3>2. PICK m \in ResponseMessages : m = Response("PromiseError", q.id, q.name) /\ m.type = "PromiseError"
      BY <3>1, NewResponse
    <3>3. SendResponses(<<m>>) /\ IsAnswer(m)
      BY <1>9, <2>1, <2>4, <3>2 DEF PendingTimeout, IsAnswer
    <3> QED
      BY <1>1, <2>2, <2>3, <3>3, HeardAnswer
  <2>5. CASE q.type # "Promise"
    <3>1. toClient' = toClient
      BY <1>9, <2>1, <2>5 DEF PendingTimeout
    <3> QED
      BY <1>1, <2>2, <2>3, <3>1, HeardUnchanged
  <2> QED
    BY <2>4, <2>5
<1> QED
  BY <1>3, <1>4, <1>5, <1>6, <1>7, <1>8, <1>9, FireHeard, ReceiveInitializeHeard, ReceiveResponseHeard,
     DisposeClientHeard, Zenon DEF Next

LEMMA InitHeard == Init => HeardInv
<1> SUFFICES ASSUME Init PROVE HeardInv
  OBVIOUS
<1>1. EventInv
  BY InitEvents
<1>2. toClient = <<[type |-> "Initialize", id |-> 0, data |-> None]>>
  BY DEF Init
<1>3. Len(toClient) = 1 /\ toClient[1].type # "EventFire"
  BY <1>2
<1>4. \A e \in Events : heard[e] = <<>> /\ Len(heard[e]) = 0 /\ DOMAIN heard[e] = {}
  BY DEF Init
<1>5. \A k \in 1..Len(toClient) : toClient[k].type # "EventFire"
  BY <1>3
<1>6. \A e \in Events : StillToHear(e)
  BY <1>4, <1>5 DEF StillToHear, Fires
<1>7. HeardOnce
  BY <1>4 DEF HeardOnce
<1> QED
  BY <1>1, <1>6, <1>7 DEF HeardInv

\* Listeners hear an event once, in the order in which events were fired,
\* however often the server was told to listen and to stop.
THEOREM EventsAreHeardOnce == Spec => []HeardOnce
<1>1. HeardInv /\ [Next]_vars => HeardInv'
  BY NextHeard
<1>2. HeardInv => HeardOnce
  BY DEF HeardInv
<1> QED
  BY <1>1, <1>2, InitHeard, PTL DEF Spec

=============================================================================
