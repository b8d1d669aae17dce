---------------------- MODULE PersistentProtocolProofs ----------------------
(***************************************************************************)
(* PersistentProtocol delivers every message exactly once and in order,    *)
(* keeps what was not delivered, and implements ReliableChannel: for any   *)
(* number of messages, connections, faults and lost messages.  The client  *)
(* notices a dead socket, and no end ever meets a gap while the transport  *)
(* drops nothing, even when the client gives up.                           *)
(***************************************************************************)
EXTENDS PersistentProtocol, TLAPS

HandshakeTypes == {"Control", "Pause", "Resume"}

\* What p may have written when it has sent snt[p] messages and received
\* inc[p]: a number it has given out, an acknowledgement of something it has
\* received, and the payload that belongs to the number.  Only the server's
\* end takes part in a handshake.
GenuineIn(snt, inc) ==
    [p \in Peers |-> {m \in Messages : /\ m.id <= snt[p]
                                       /\ m.ack <= inc[p]
                                       /\ m.type = "Regular" => m.data = m.id
                                       /\ m.type \in HandshakeTypes => p = "server"}]

Genuine == GenuineIn(sent, incomingMsgId)

\* In network w, all messages to q are in the other party's set of V.
WireIn(w, V) == /\ w \in [Conns -> [Peers -> Seq(Messages)]]
                /\ \A c \in Conns, q \in Peers : w[c][q] \in Seq(V[Other(q)])

QueuesIn(qs, V) == \A p \in Peers : qs[p] \in Seq(V[p])

CountersAgree ==
    \A p \in Peers :
        /\ outgoingMsgId[p] = sent[p]
        /\ incomingMsgId[p] = Len(delivered[p])
        /\ incomingMsgId[p] <= sent[Other(p)]
        /\ outgoingAckId[p] <= incomingMsgId[Other(p)]

\* The queue holds the messages after number low, up to number high.
Numbered(queue, low, high) ==
    /\ Len(queue) = high - low
    /\ \A i \in 1..Len(queue) : queue[i].type = "Regular" /\ queue[i].id = low + i

QueueIsIntact == \A p \in Peers : Numbered(outgoingUnackMsg[p], outgoingAckId[p], sent[p])

DeliveredInOrder == \A p \in Peers : \A i \in 1..Len(delivered[p]) : delivered[p][i] = i

\* The part of the invariant about what the protocols know and remember ...
CoreType ==
    /\ outgoingUnackMsg \in [Peers -> Seq(Messages)]
    /\ outgoingMsgId \in [Peers -> 0..MaxMsgs]
    /\ outgoingAckId \in [Peers -> 0..MaxMsgs]
    /\ incomingMsgId \in [Peers -> 0..MaxMsgs]
    /\ sent \in [Peers -> 0..MaxMsgs]
    /\ delivered \in [Peers -> Seq(Nat)]

CoreInv == /\ CoreType /\ CountersAgree /\ QueueIsIntact /\ DeliveredInOrder
           /\ QueuesIn(outgoingUnackMsg, Genuine)

core == <<outgoingUnackMsg, outgoingMsgId, outgoingAckId, incomingMsgId, sent, delivered>>

\* ... the part about what is on its way ...
NetInv == /\ conn \in [Peers -> Conns]
          /\ WireIn(wire, Genuine)
          /\ held \in [Peers -> Seq(Messages)]
          /\ QueuesIn(held, Genuine)

\* ... and the types of the rest.
FlagType ==
    /\ isReconnecting \in [Peers -> BOOLEAN]
    /\ outgoingAckTimeout \in [Peers -> BOOLEAN]
    /\ incomingAckId \in [Peers -> 0..MaxMsgs]
    /\ incomingAckTimeout \in [Peers -> BOOLEAN]
    /\ mayRequestReplay \in [Peers -> BOOLEAN]
    /\ isPaused \in [Peers -> BOOLEAN]
    /\ broken \in SUBSET Conns
    /\ okSent \in SUBSET Conns
    /\ attached \in SUBSET Conns
    /\ looping \in BOOLEAN
    /\ awaitingOk \in BOOLEAN
    /\ faults \in 0..MaxFaults
    /\ lost \in 0..MaxLosses
    /\ over \in {"no", "gave up", "failed"}

IInv == CoreInv /\ NetInv /\ FlagType


-----------------------------------------------------------------------------
(* Sequences *)

LEMMA SeqOfFunction ==
  ASSUME NEW S, NEW n \in Nat, NEW f \in [1..n -> S]
  PROVE  f \in Seq(S) /\ Len(f) = n
OBVIOUS

LEMMA SeqMono ==
  ASSUME NEW S, NEW T, S \subseteq T, NEW s \in Seq(S)
  PROVE  s \in Seq(T)
<1>1. Len(s) \in Nat /\ s \in [1..Len(s) -> S]
  OBVIOUS
<1>2. s \in [1..Len(s) -> T]
  BY <1>1
<1> QED
  BY <1>1, <1>2, SeqOfFunction

LEMMA ConcatType ==
  ASSUME NEW S, NEW s \in Seq(S), NEW t \in Seq(S)
  PROVE  s \o t \in Seq(S)
OBVIOUS

LEMMA AppendType ==
  ASSUME NEW S, NEW s \in Seq(S), NEW e \in S
  PROVE  Append(s, e) \in Seq(S)
OBVIOUS

LEMMA AppendFacts ==
  ASSUME NEW S, NEW s \in Seq(S), NEW e \in S
  PROVE  /\ Len(s) \in Nat
         /\ Len(Append(s, e)) = Len(s) + 1
         /\ \A i \in 1..Len(s) : Append(s, e)[i] = s[i]
         /\ Append(s, e)[Len(s) + 1] = e
OBVIOUS

LEMMA TailType ==
  ASSUME NEW S, NEW s \in Seq(S), Len(s) > 0
  PROVE  Head(s) \in S /\ Tail(s) \in Seq(S)
OBVIOUS

LEMMA DropType ==
  ASSUME NEW S, NEW s \in Seq(S), NEW d \in 0..Len(s)
  PROVE  /\ SubSeq(s, d + 1, Len(s)) \in Seq(S)
         /\ Len(SubSeq(s, d + 1, Len(s))) = Len(s) - d
         /\ \A i \in 1..(Len(s) - d) : SubSeq(s, d + 1, Len(s))[i] = s[d + i]
OBVIOUS

LEMMA TakeType ==
  ASSUME NEW S, NEW s \in Seq(S), NEW n \in 0..Len(s)
  PROVE  SubSeq(s, 1, n) \in Seq(S)
OBVIOUS

LEMMA SingletonType ==
  ASSUME NEW S, NEW e \in S
  PROVE  <<e>> \in Seq(S)
OBVIOUS

LEMMA PairType ==
  ASSUME NEW S, NEW d \in S, NEW e \in S
  PROVE  <<d, e>> \in Seq(S)
OBVIOUS

LEMMA EmptyType ==
  ASSUME NEW S
  PROVE  <<>> \in Seq(S)
OBVIOUS

-----------------------------------------------------------------------------
(* The operators of the model *)

LEMMA OtherFacts ==
  /\ \A p \in Peers : Other(p) \in Peers /\ Other(Other(p)) = p /\ Other(p) # p
  /\ \A p, q \in Peers : q = p \/ q = Other(p)
BY DEF Peers, Other

LEMMA GenuineType ==
  ASSUME NEW snt, NEW inc
  PROVE  GenuineIn(snt, inc) \in [Peers -> SUBSET Messages]
BY DEF GenuineIn

\* What was genuine stays genuine.
LEMMA GenuineGrows ==
  ASSUME NEW snt \in [Peers -> 0..MaxMsgs], NEW inc \in [Peers -> 0..MaxMsgs],
         NEW snt1 \in [Peers -> 0..MaxMsgs], NEW inc1 \in [Peers -> 0..MaxMsgs],
         \A p \in Peers : snt[p] <= snt1[p] /\ inc[p] <= inc1[p]
  PROVE  \A p \in Peers : GenuineIn(snt, inc)[p] \subseteq GenuineIn(snt1, inc1)[p]
<1> SUFFICES ASSUME NEW p \in Peers, NEW m \in Messages,
                    m.id <= snt[p], m.ack <= inc[p], m.type = "Regular" => m.data = m.id,
                    m.type \in HandshakeTypes => p = "server"
             PROVE  m.id <= snt1[p] /\ m.ack <= inc1[p]
  BY DEF GenuineIn
<1>1. m.id \in Nat /\ m.ack \in Nat
  BY DEF Messages
<1>2. snt[p] \in Nat /\ snt1[p] \in Nat /\ inc[p] \in Nat /\ inc1[p] \in Nat
  BY ProtocolBounds
<1> QED
  BY <1>1, <1>2

LEMMA ModSmall == \A a, b \in Nat : a < b => a % b = a
OBVIOUS

\* The header's fields hold every number that is in use.
LEMMA EncodedIn ==
  ASSUME NEW snt \in [Peers -> 0..MaxMsgs], NEW inc \in [Peers -> 0..MaxMsgs], NEW p \in Peers,
         NEW msgs \in Seq(GenuineIn(snt, inc)[p])
  PROVE  Encoded(msgs) \in Seq(GenuineIn(snt, inc)[p])
<1> DEFINE S == GenuineIn(snt, inc)[p]
<1>1. ASSUME NEW m \in S PROVE Encode(m) \in S
  <2>1. m \in Messages /\ m.id <= snt[p] /\ m.ack <= inc[p]
    BY <1>1 DEF GenuineIn
  <2>2. m.id \in Nat /\ m.ack \in Nat
    BY <2>1 DEF Messages
  <2>3. m.id < IdSpace /\ m.ack < IdSpace /\ IdSpace \in Nat
    BY <2>1, <2>2, ProtocolBounds
  <2>4. m.id % IdSpace = m.id /\ m.ack % IdSpace = m.ack
    BY <2>2, <2>3, ModSmall, Zenon
  <2>5. Encode(m) = m
    BY <2>1, <2>4 DEF Encode, Messages
  <2> QED
    BY <1>1, <2>5
<1>2. \A i \in 1..Len(msgs) : msgs[i] \in S
  OBVIOUS
<1> HIDE DEF S
<1>3. [i \in 1..Len(msgs) |-> Encode(msgs[i])] \in [1..Len(msgs) -> S]
  BY <1>1, <1>2, Zenon
<1>4. Len(msgs) \in Nat
  BY DEF S
<1> QED
  BY <1>3, <1>4, SeqOfFunction, Zenon DEF Encoded, S

LEMMA WireGrows ==
  ASSUME NEW V, NEW W, \A p \in Peers : V[p] \subseteq W[p], NEW w, WireIn(w, V)
  PROVE  WireIn(w, W)
<1>1. \A c \in Conns, q \in Peers : w[c][q] \in Seq(W[Other(q)])
  BY OtherFacts, SeqMono, Zenon DEF WireIn
<1> QED
  BY <1>1, Zenon DEF WireIn

LEMMA QueuesGrow ==
  ASSUME NEW V, NEW W, \A p \in Peers : V[p] \subseteq W[p], NEW qs, QueuesIn(qs, V)
  PROVE  QueuesIn(qs, W)
BY SeqMono, Zenon DEF QueuesIn

LEMMA WireReplace ==
  ASSUME NEW V \in [Peers -> SUBSET Messages], NEW w, WireIn(w, V),
         NEW c \in Conns, NEW q \in Peers, NEW s \in Seq(V[Other(q)])
  PROVE  WireIn([w EXCEPT ![c][q] = s], V)
<1>1. V[Other(q)] \subseteq Messages
  BY OtherFacts
<1>2. s \in Seq(Messages)
  BY <1>1, SeqMono, Zenon
<1>3. w \in [Conns -> [Peers -> Seq(Messages)]]
  BY DEF WireIn
<1>4. [w EXCEPT ![c][q] = s] \in [Conns -> [Peers -> Seq(Messages)]]
  BY <1>2, <1>3
<1>5. ASSUME NEW d \in Conns, NEW r \in Peers
      PROVE  [w EXCEPT ![c][q] = s][d][r] \in Seq(V[Other(r)])
  <2>1. [w EXCEPT ![c][q] = s][d][r] = IF d = c /\ r = q THEN s ELSE w[d][r]
    BY <1>3
  <2>2. w[d][r] \in Seq(V[Other(r)])
    BY DEF WireIn
  <2> QED
    BY <2>1, <2>2, Zenon
<1> QED
  BY <1>4, <1>5, Zenon DEF WireIn

LEMMA WireAt ==
  ASSUME NEW V, NEW w, WireIn(w, V), NEW c \in Conns, NEW p \in Peers
  PROVE  w[c][p] \in Seq(V[Other(p)]) /\ w[c][Other(p)] \in Seq(V[p])
BY OtherFacts, Zenon DEF WireIn

LEMMA PutIn ==
  ASSUME NEW V \in [Peers -> SUBSET Messages], NEW w, WireIn(w, V), NEW p \in Peers,
         NEW msgs \in Seq(V[p]), conn[p] \in Conns
  PROVE  WireIn(Put(w, p, msgs), V)
<1>1. w[conn[p]][Other(p)] \o msgs \in Seq(V[Other(Other(p))])
  BY WireAt, ConcatType, OtherFacts, Zenon
<1>2. WireIn([w EXCEPT ![conn[p]][Other(p)] = w[conn[p]][Other(p)] \o msgs], V)
  BY <1>1, WireReplace, OtherFacts, Zenon
<1> QED
  BY <1>2 DEF Put

LEMMA ToClientIn ==
  ASSUME NEW V \in [Peers -> SUBSET Messages], NEW w, WireIn(w, V), NEW c \in Conns,
         NEW msgs \in Seq(V["server"])
  PROVE  WireIn(ToClient(w, c, msgs), V)
<1>1. "client" \in Peers /\ Other("client") = "server"
  BY DEF Peers, Other
<1>2. w[c]["client"] \o msgs \in Seq(V[Other("client")])
  BY <1>1, WireAt, ConcatType, Zenon
<1>3. WireIn([w EXCEPT ![c]["client"] = w[c]["client"] \o msgs], V)
  BY <1>1, <1>2, WireReplace, Zenon
<1> QED
  BY <1>3 DEF ToClient

LEMMA PoppedIn ==
  ASSUME NEW V \in [Peers -> SUBSET Messages], WireIn(wire, V), NEW p \in Peers, conn[p] \in Conns,
         Len(Incoming(p)) > 0
  PROVE  WireIn(Popped(p), V) /\ Head(Incoming(p)) \in V[Other(p)]
<1>1. Incoming(p) \in Seq(V[Other(p)])
  BY WireAt, Zenon DEF Incoming
<1>2. Head(Incoming(p)) \in V[Other(p)] /\ Tail(Incoming(p)) \in Seq(V[Other(p)])
  BY <1>1, TailType, Zenon
<1> QED
  BY <1>2, WireReplace, Zenon DEF Popped, Incoming

\* Writing genuine messages leaves only genuine messages in the network and
\* in the writers.
LEMMA WriteIn ==
  ASSUME NEW snt \in [Peers -> 0..MaxMsgs], NEW inc \in [Peers -> 0..MaxMsgs], NEW p \in Peers,
         NEW msgs \in Seq(GenuineIn(snt, inc)[p]),
         NEW w, WireIn(w, GenuineIn(snt, inc)),
         held \in [Peers -> Seq(Messages)], QueuesIn(held, GenuineIn(snt, inc)),
         conn[p] \in Conns, Write(w, p, msgs)
  PROVE  /\ WireIn(wire', GenuineIn(snt, inc))
         /\ held' \in [Peers -> Seq(Messages)]
         /\ QueuesIn(held', GenuineIn(snt, inc))
<1> DEFINE V == GenuineIn(snt, inc)
<1>1. Encoded(msgs) \in Seq(V[p])
  BY EncodedIn
<1>2. V \in [Peers -> SUBSET Messages]
  BY GenuineType
<1> HIDE DEF V
<1>3. CASE isPaused[p]
  <2>1. held' = [held EXCEPT ![p] = held[p] \o Encoded(msgs)] /\ wire' = w
    BY <1>3 DEF Write
  <2>2. held[p] \o Encoded(msgs) \in Seq(V[p])
    BY <1>1, ConcatType, Zenon DEF QueuesIn, V
  <2>3. V[p] \subseteq Messages
    BY <1>2
  <2>4. held[p] \o Encoded(msgs) \in Seq(Messages)
    BY <2>2, <2>3, SeqMono, Zenon
  <2>5. held' \in [Peers -> Seq(Messages)]
    BY <2>1, <2>4
  <2>6. \A q \in Peers : held'[q] = IF q = p THEN held[p] \o Encoded(msgs) ELSE held[q]
    BY <2>1
  <2>7. QueuesIn(held', V)
    BY <2>2, <2>6, Zenon DEF QueuesIn, V
  <2> QED
    BY <2>1, <2>5, <2>7 DEF V
<1>4. CASE ~isPaused[p]
  <2>1. held' = held /\ wire' = Put(w, p, Encoded(msgs))
    BY <1>4 DEF Write
  <2>2. WireIn(Put(w, p, Encoded(msgs)), V)
    BY <1>1, <1>2, PutIn, Zenon DEF V
  <2> QED
    BY <2>1, <2>2 DEF V
<1> QED
  BY <1>3, <1>4

LEMMA PlainIn ==
  ASSUME NEW snt \in [Peers -> 0..MaxMsgs], NEW inc \in [Peers -> 0..MaxMsgs], NEW p \in Peers,
         NEW type \in MessageTypes \ {"Regular"}, NEW ack \in {0, inc[p]},
         type \in HandshakeTypes => p = "server"
  PROVE  Plain(type, ack) \in GenuineIn(snt, inc)[p]
<1>1. inc[p] \in Nat /\ snt[p] \in Nat
  BY ProtocolBounds
<1>2. ack \in Nat /\ ack <= inc[p] /\ 0 <= snt[p]
  BY <1>1
<1>3. Plain(type, ack) = [type |-> type, id |-> 0, ack |-> ack, data |-> 0]
  BY DEF Plain, ProtocolMessage
<1>4. Plain(type, ack) \in Messages
  BY <1>2, <1>3 DEF Messages
<1> QED
  BY <1>2, <1>3, <1>4 DEF GenuineIn

\* Acknowledge removes exactly the acknowledged messages from a queue whose
\* numbers follow each other.
LEMMA AcknowledgeFacts ==
  ASSUME NEW S, NEW queue \in Seq(S), NEW base \in Nat, NEW d \in 1..Len(queue),
         \A i \in 1..Len(queue) : queue[i].id = base + i
  PROVE  Acknowledge(queue, base + d) = SubSeq(queue, d + 1, Len(queue))
<1> DEFINE L == Len(queue)
           P(n) == /\ \A i \in 1..n : queue[i].id <= base + d
                   /\ n < L => queue[n + 1].id > base + d
           popped == CHOOSE n \in 0..L : P(n)
<1>1. L \in Nat /\ d \in 1..L /\ d \in Nat
  OBVIOUS
<1>2. P(d)
  <2>1. \A i \in 1..d : queue[i].id <= base + d
    BY <1>1
  <2>2. d < L => queue[d + 1].id = base + (d + 1)
    BY <1>1
  <2> QED
    BY <1>1, <2>1, <2>2
<1>3. \A n \in 0..L : P(n) => n = d
  <2> SUFFICES ASSUME NEW n \in 0..L, P(n) PROVE n = d
    OBVIOUS
  <2>1. CASE n > d
    <3>1. queue[d + 1].id <= base + d /\ queue[d + 1].id = base + (d + 1)
      BY <1>1, <2>1
    <3> QED
      BY <3>1, <1>1
  <2>2. CASE n < d
    <3>1. queue[n + 1].id > base + d /\ queue[n + 1].id = base + (n + 1)
      BY <1>1, <2>2
    <3> QED
      BY <3>1, <1>1, <2>2
  <2> QED
    BY <1>1, <2>1, <2>2
<1> HIDE DEF P
<1>4. popped = d
  <2>1. d \in 0..L
    BY <1>1
  <2> QED
    BY <1>2, <1>3, <2>1, Zenon
<1> QED
  BY <1>4 DEF Acknowledge, P

\* What a step of p's protocol changes in the numbers, when it sends.
LEMMA SendCore ==
  ASSUME CoreInv, NEW p \in Peers, Send(p)
  PROVE  /\ CoreInv'
         /\ \A q \in Peers : sent[q] <= sent'[q] /\ incomingMsgId[q] <= incomingMsgId'[q]
         /\ ProtocolMessage("Regular", outgoingMsgId[p] + 1, incomingMsgId[p], sent[p] + 1) \in Genuine'[p]
<1> DEFINE msg == ProtocolMessage("Regular", outgoingMsgId[p] + 1, incomingMsgId[p], sent[p] + 1)
<1>1. /\ sent[p] < MaxMsgs
      /\ sent' = [sent EXCEPT ![p] = sent[p] + 1]
      /\ outgoingMsgId' = [outgoingMsgId EXCEPT ![p] = outgoingMsgId[p] + 1]
      /\ outgoingUnackMsg' = [outgoingUnackMsg EXCEPT ![p] = Append(outgoingUnackMsg[p], msg)]
      /\ UNCHANGED <<outgoingAckId, incomingMsgId, delivered>>
  BY DEF Send
<1>2. /\ \A q \in Peers : sent[q] \in Nat /\ incomingMsgId[q] \in Nat /\ outgoingAckId[q] \in Nat
      /\ outgoingMsgId[p] = sent[p]
      /\ outgoingMsgId[p] \in 0..MaxMsgs
  BY ProtocolBounds DEF CoreInv, CoreType, CountersAgree
<1>3. msg \in Messages
  BY <1>2 DEF ProtocolMessage, Messages, MessageTypes
<1>4. /\ sent' \in [Peers -> 0..MaxMsgs]
      /\ outgoingMsgId' \in [Peers -> 0..MaxMsgs]
      /\ \A q \in Peers : sent'[q] = IF q = p THEN sent[q] + 1 ELSE sent[q]
      /\ \A q \in Peers : outgoingMsgId'[q] = IF q = p THEN outgoingMsgId[q] + 1 ELSE outgoingMsgId[q]
  BY <1>1, <1>2, ProtocolBounds DEF CoreInv, CoreType
<1>5. msg \in Genuine'[p]
  BY <1>1, <1>2, <1>3, <1>4 DEF Genuine, GenuineIn, ProtocolMessage, HandshakeTypes
<1>6. \A q \in Peers : sent[q] <= sent'[q] /\ incomingMsgId[q] <= incomingMsgId'[q]
  BY <1>1, <1>2, <1>4
<1>7. outgoingUnackMsg[p] \in Seq(Messages)
  BY DEF CoreInv, CoreType
<1>8. Append(outgoingUnackMsg[p], msg) \in Seq(Messages)
  BY <1>3, <1>7, AppendType, Zenon
<1>9. /\ outgoingUnackMsg' \in [Peers -> Seq(Messages)]
      /\ \A q \in Peers : outgoingUnackMsg'[q] =
              IF q = p THEN Append(outgoingUnackMsg[p], msg) ELSE outgoingUnackMsg[q]
  BY <1>1, <1>8, Zenon DEF CoreInv, CoreType
<1>10. CoreType'
  BY <1>1, <1>4, <1>9, Zenon DEF CoreInv, CoreType
<1>11. CountersAgree'
  <2> SUFFICES ASSUME NEW q \in Peers
               PROVE  /\ outgoingMsgId'[q] = sent'[q]
                      /\ incomingMsgId[q] = Len(delivered[q])
                      /\ incomingMsgId[q] <= sent'[Other(q)]
                      /\ outgoingAckId[q] <= incomingMsgId[Other(q)]
    BY <1>1, Zenon DEF CountersAgree
  <2>1. /\ outgoingMsgId[q] = sent[q]
        /\ incomingMsgId[q] = Len(delivered[q])
        /\ incomingMsgId[q] <= sent[Other(q)]
        /\ outgoingAckId[q] <= incomingMsgId[Other(q)]
        /\ Other(q) \in Peers
    BY OtherFacts, Zenon DEF CoreInv, CountersAgree
  <2>2. sent[Other(q)] <= sent'[Other(q)] /\ sent[Other(q)] \in Nat /\ sent'[Other(q)] \in Nat /\ incomingMsgId[q] \in Nat
    BY <1>2, <1>4, <1>6, <2>1, ProtocolBounds
  <2>3. incomingMsgId[q] <= sent'[Other(q)]
    BY <2>1, <2>2
  <2>4. outgoingMsgId'[q] = sent'[q]
    BY <1>4, <2>1, Zenon
  <2> QED
    BY <2>1, <2>3, <2>4
<1>12. QueueIsIntact'
  <2> SUFFICES ASSUME NEW q \in Peers
               PROVE  Numbered(outgoingUnackMsg'[q], outgoingAckId[q], sent'[q])
    BY <1>1, Zenon DEF QueueIsIntact
  <2>1. CASE q # p
    <3>1. outgoingUnackMsg'[q] = outgoingUnackMsg[q] /\ sent'[q] = sent[q]
      BY <2>1, <1>4, <1>9
    <3> QED
      BY <3>1 DEF CoreInv, QueueIsIntact
  <2>2. CASE q = p
    <3> DEFINE old == outgoingUnackMsg[p]
               new == Append(old, msg)
    <3>1. /\ Len(old) = sent[p] - outgoingAckId[p]
          /\ \A i \in 1..Len(old) : old[i].type = "Regular" /\ old[i].id = outgoingAckId[p] + i
      BY DEF CoreInv, QueueIsIntact, Numbered
    <3>2. /\ Len(old) \in Nat
          /\ Len(new) = Len(old) + 1
          /\ \A i \in 1..Len(old) : new[i] = old[i]
          /\ new[Len(old) + 1] = msg
      BY <1>3, <1>7, AppendFacts, Zenon
    <3>3. msg.type = "Regular" /\ msg.id = sent[p] + 1
      BY <1>2 DEF ProtocolMessage
    <3>4. outgoingUnackMsg'[q] = new /\ sent'[q] = sent[p] + 1
      BY <1>4, <1>9, <2>2, Zenon
    <3> HIDE DEF old, new, msg
    <3>5. Len(new) = (sent[p] + 1) - outgoingAckId[p] /\ sent[p] + 1 = outgoingAckId[p] + (Len(old) + 1)
      BY <1>2, <3>1, <3>2
    <3>6. ASSUME NEW i \in 1..Len(new)
          PROVE  new[i].type = "Regular" /\ new[i].id = outgoingAckId[p] + i
      <4>1. i \in 1..Len(old) \/ i = Len(old) + 1
        BY <3>2
      <4> QED
        BY <3>1, <3>2, <3>3, <3>5, <4>1, Zenon
    <3>7. Numbered(new, outgoingAckId[p], sent[p] + 1)
      BY <3>5, <3>6, Zenon DEF Numbered
    <3> QED
      BY <2>2, <3>4, <3>7
  <2> QED
    BY <2>1, <2>2
<1>13. QueuesIn(outgoingUnackMsg', Genuine')
  <2>1. \A q \in Peers : Genuine[q] \subseteq Genuine'[q]
    <3>1. sent \in [Peers -> 0..MaxMsgs] /\ incomingMsgId \in [Peers -> 0..MaxMsgs] /\ incomingMsgId' \in [Peers -> 0..MaxMsgs]
      BY <1>1, Zenon DEF CoreInv, CoreType
    <3> QED
      BY <1>4, <1>6, <3>1, GenuineGrows, Zenon DEF Genuine
  <2>2. QueuesIn(outgoingUnackMsg, Genuine')
    BY <2>1, QueuesGrow, Zenon DEF CoreInv
  <2>3. Append(outgoingUnackMsg[p], msg) \in Seq(Genuine'[p])
    BY <1>5, <2>2, AppendType, Zenon DEF QueuesIn
  <2> QED
    BY <1>9, <2>2, <2>3, Zenon DEF QueuesIn
<1>14. DeliveredInOrder'
  BY <1>1, Zenon DEF CoreInv, DeliveredInOrder
<1> QED
  BY <1>5, <1>6, <1>10, <1>11, <1>12, <1>13, <1>14, Zenon DEF CoreInv

\* What the acknowledgement of a genuine message changes.
LEMMA AckCore ==
  ASSUME CoreInv, NEW p \in Peers, NEW m \in Genuine[Other(p)], ReceiveAck(p, m.ack)
  PROVE  /\ outgoingAckId' \in [Peers -> 0..MaxMsgs]
         /\ outgoingUnackMsg' \in [Peers -> Seq(Messages)]
         /\ \A q \in Peers : outgoingAckId[q] <= outgoingAckId'[q]
         /\ \A q \in Peers : outgoingAckId'[q] <= incomingMsgId[Other(q)]
         /\ \A q \in Peers : Numbered(outgoingUnackMsg'[q], outgoingAckId'[q], sent[q])
         /\ QueuesIn(outgoingUnackMsg', Genuine)
<1> DEFINE ack == m.ack
<1>1. /\ \A q \in Peers : sent[q] \in Nat /\ incomingMsgId[q] \in Nat /\ outgoingAckId[q] \in Nat
      /\ \A q \in Peers : outgoingAckId[q] <= incomingMsgId[Other(q)]
      /\ incomingMsgId[Other(p)] <= sent[p]
      /\ incomingMsgId[Other(p)] \in 0..MaxMsgs
  BY ProtocolBounds, OtherFacts DEF CoreInv, CoreType, CountersAgree
<1>2. ack \in Nat /\ ack <= incomingMsgId[Other(p)]
  BY OtherFacts DEF Genuine, GenuineIn, Messages
<1> HIDE DEF ack
<1>3. CASE ack > outgoingAckId[p]
  <2> DEFINE queue == outgoingUnackMsg[p]
             base  == outgoingAckId[p]
             d     == ack - base
             rest  == SubSeq(queue, d + 1, Len(queue))
  <2>1. /\ outgoingAckId' = [outgoingAckId EXCEPT ![p] = ack]
        /\ outgoingUnackMsg' = [outgoingUnackMsg EXCEPT ![p] = Acknowledge(queue, ack)]
    BY <1>3 DEF ReceiveAck, ack
  <2>2. /\ Len(queue) = sent[p] - base
        /\ \A i \in 1..Len(queue) : queue[i].type = "Regular" /\ queue[i].id = base + i
    BY DEF CoreInv, QueueIsIntact, Numbered
  <2>3. queue \in Seq(Messages) /\ queue \in Seq(Genuine[p])
    BY DEF CoreInv, CoreType, QueuesIn
  <2>4. base \in Nat /\ sent[p] \in Nat /\ base < ack /\ ack <= sent[p]
    BY <1>1, <1>2, <1>3, OtherFacts
  <2> HIDE DEF queue, base
  <2>5. d \in 1..Len(queue) /\ d \in 0..Len(queue) /\ base + d = ack
    BY <1>2, <2>2, <2>4
  <2>6. Acknowledge(queue, base + d) = rest
    BY <2>2, <2>3, <2>4, <2>5, AcknowledgeFacts, Zenon
  <2>7. Acknowledge(queue, ack) = rest
    BY <2>5, <2>6
  <2>8. /\ rest \in Seq(Messages)
        /\ rest \in Seq(Genuine[p])
        /\ Len(rest) = Len(queue) - d
        /\ \A i \in 1..(Len(queue) - d) : rest[i] = queue[d + i]
    BY <2>3, <2>5, DropType, Zenon
  <2> HIDE DEF rest
  <2>9. Numbered(rest, ack, sent[p])
    <3>1. Len(rest) = sent[p] - ack
      BY <1>2, <2>2, <2>4, <2>8
    <3>2. ASSUME NEW i \in 1..Len(rest)
          PROVE  rest[i].type = "Regular" /\ rest[i].id = ack + i
      <4>1. i \in 1..(Len(queue) - d) /\ d + i \in 1..Len(queue) /\ base + (d + i) = ack + i
        BY <1>2, <2>2, <2>4, <2>8, <3>1
      <4> QED
        BY <2>2, <2>8, <4>1, Zenon
    <3> QED
      BY <3>1, <3>2, Zenon DEF Numbered
  <2>10. /\ \A q \in Peers : outgoingAckId'[q] = IF q = p THEN ack ELSE outgoingAckId[q]
         /\ outgoingAckId' \in [Peers -> 0..MaxMsgs]
    <3>1. ack \in 0..MaxMsgs
      BY <1>1, <1>2, ProtocolBounds
    <3> QED
      BY <2>1, <3>1 DEF CoreInv, CoreType
  <2>11. /\ outgoingUnackMsg' \in [Peers -> Seq(Messages)]
         /\ \A q \in Peers : outgoingUnackMsg'[q] = IF q = p THEN rest ELSE outgoingUnackMsg[q]
    BY <2>1, <2>7, <2>8 DEF CoreInv, CoreType
  <2>12. \A q \in Peers : outgoingAckId[q] <= outgoingAckId'[q]
    BY <1>1, <1>3, <2>10
  <2>13. \A q \in Peers : outgoingAckId'[q] <= incomingMsgId[Other(q)]
    BY <1>1, <1>2, <2>10
  <2>14. \A q \in Peers : Numbered(outgoingUnackMsg'[q], outgoingAckId'[q], sent[q])
    <3> SUFFICES ASSUME NEW q \in Peers PROVE Numbered(outgoingUnackMsg'[q], outgoingAckId'[q], sent[q])
      OBVIOUS
    <3>1. CASE q = p
      BY <2>9, <2>10, <2>11, <3>1
    <3>2. CASE q # p
      BY <2>10, <2>11, <3>2 DEF CoreInv, QueueIsIntact
    <3> QED
      BY <3>1, <3>2
  <2>15. QueuesIn(outgoingUnackMsg', Genuine)
    BY <2>8, <2>11, Zenon DEF CoreInv, QueuesIn
  <2> QED
    BY <2>10, <2>11, <2>12, <2>13, <2>14, <2>15
<1>4. CASE ~(ack > outgoingAckId[p])
  <2>1. outgoingAckId' = outgoingAckId /\ outgoingUnackMsg' = outgoingUnackMsg
    BY <1>4 DEF ReceiveAck, ack
  <2>2. \A q \in Peers : outgoingAckId[q] <= outgoingAckId[q]
    BY <1>1
  <2> QED
    BY <1>1, <2>1, <2>2, Zenon DEF CoreInv, CoreType, QueueIsIntact
<1> QED
  BY <1>3, <1>4

Growing == \A q \in Peers : sent[q] <= sent'[q] /\ incomingMsgId[q] <= incomingMsgId'[q]

\* Genuine messages of a state are genuine in the next one.
LEMMA GenuineStep ==
  ASSUME CoreInv, CoreInv', Growing
  PROVE  \A q \in Peers : Genuine[q] \subseteq Genuine'[q]
<1>1. /\ sent \in [Peers -> 0..MaxMsgs] /\ incomingMsgId \in [Peers -> 0..MaxMsgs]
      /\ sent' \in [Peers -> 0..MaxMsgs] /\ incomingMsgId' \in [Peers -> 0..MaxMsgs]
  BY Zenon DEF CoreInv, CoreType
<1> QED
  BY <1>1, GenuineGrows, Zenon DEF Genuine, Growing

LEMMA CoreUnchanged ==
  ASSUME CoreInv, UNCHANGED core
  PROVE  CoreInv' /\ Growing
<1>1. \A q \in Peers : sent[q] \in Nat /\ incomingMsgId[q] \in Nat
  BY ProtocolBounds DEF CoreInv, CoreType
<1>2. Growing
  BY <1>1 DEF Growing, core
<1> QED
  BY <1>2, Zenon DEF CoreInv, CoreType, CountersAgree, QueueIsIntact, DeliveredInOrder, QueuesIn, Genuine, core

\* What a genuine message changes when p reads it.
LEMMA ReceiveCore ==
  ASSUME CoreInv, NEW p \in Peers, NEW m \in Genuine[Other(p)], ReceiveAck(p, m.ack),
         UNCHANGED <<outgoingMsgId, sent>>,
         \/ UNCHANGED <<incomingMsgId, delivered>>
         \/ /\ m.type = "Regular" /\ m.id = incomingMsgId[p] + 1
            /\ incomingMsgId' = [incomingMsgId EXCEPT ![p] = m.id]
            /\ delivered' = [delivered EXCEPT ![p] = Append(delivered[p], m.data)]
  PROVE  CoreInv' /\ Growing
<1>1. /\ outgoingAckId' \in [Peers -> 0..MaxMsgs]
      /\ outgoingUnackMsg' \in [Peers -> Seq(Messages)]
      /\ \A q \in Peers : outgoingAckId'[q] <= incomingMsgId[Other(q)]
      /\ \A q \in Peers : Numbered(outgoingUnackMsg'[q], outgoingAckId'[q], sent[q])
      /\ QueuesIn(outgoingUnackMsg', Genuine)
  BY AckCore, Zenon
<1>2. QueueIsIntact'
  BY <1>1, Zenon DEF QueueIsIntact
<1>3. /\ \A q \in Peers : sent[q] \in Nat /\ incomingMsgId[q] \in Nat /\ outgoingAckId'[q] \in Nat
      /\ \A q \in Peers : outgoingMsgId[q] = sent[q] /\ incomingMsgId[q] = Len(delivered[q])
      /\ \A q \in Peers : incomingMsgId[q] <= sent[Other(q)]
      /\ \A q \in Peers : delivered[q] \in Seq(Nat)
      /\ sent[Other(p)] \in 0..MaxMsgs
  BY <1>1, ProtocolBounds, OtherFacts DEF CoreInv, CoreType, CountersAgree
<1>4. CASE UNCHANGED <<incomingMsgId, delivered>>
  <2>1. Growing
    BY <1>3, <1>4 DEF Growing
  <2>2. CountersAgree'
    BY <1>1, <1>3, <1>4, Zenon DEF CountersAgree
  <2>3. CoreType'
    BY <1>1, <1>4, Zenon DEF CoreInv, CoreType
  <2>4. DeliveredInOrder'
    BY <1>4, Zenon DEF CoreInv, DeliveredInOrder
  <2>5. QueuesIn(outgoingUnackMsg', Genuine')
    BY <1>1, <1>4, Zenon DEF Genuine
  <2> QED
    BY <1>2, <2>1, <2>2, <2>3, <2>4, <2>5, Zenon DEF CoreInv
<1>5. CASE /\ m.type = "Regular" /\ m.id = incomingMsgId[p] + 1
           /\ incomingMsgId' = [incomingMsgId EXCEPT ![p] = m.id]
           /\ delivered' = [delivered EXCEPT ![p] = Append(delivered[p], m.data)]
  <2>1. m \in Messages /\ m.id <= sent[Other(p)] /\ m.data = m.id
    BY <1>5, OtherFacts DEF Genuine, GenuineIn
  <2>2. m.id \in Nat /\ m.data \in Nat
    BY <2>1 DEF Messages
  <2>3. m.id \in 0..MaxMsgs
    BY <1>3, <2>1, <2>2, ProtocolBounds
  <2>4. /\ incomingMsgId' \in [Peers -> 0..MaxMsgs]
        /\ \A q \in Peers : incomingMsgId'[q] = IF q = p THEN incomingMsgId[p] + 1 ELSE incomingMsgId[q]
    BY <1>5, <2>3 DEF CoreInv, CoreType
  <2>5. Append(delivered[p], m.data) \in Seq(Nat)
    BY <1>3, <2>2, AppendType, Zenon
  <2>6. /\ delivered' \in [Peers -> Seq(Nat)]
        /\ \A q \in Peers : delivered'[q] = IF q = p THEN Append(delivered[p], m.data) ELSE delivered[q]
    BY <1>5, <2>5, Zenon DEF CoreInv, CoreType
  <2>7. /\ Len(delivered[p]) \in Nat
        /\ Len(Append(delivered[p], m.data)) = Len(delivered[p]) + 1
        /\ \A i \in 1..Len(delivered[p]) : Append(delivered[p], m.data)[i] = delivered[p][i]
        /\ Append(delivered[p], m.data)[Len(delivered[p]) + 1] = m.data
    <3>1. delivered[p] \in Seq(Nat)
      BY <1>3, Zenon
    <3> QED
      BY <2>2, <3>1
  <2>8. Growing
    BY <1>3, <2>4 DEF Growing
  <2>9. CoreType'
    BY <1>1, <2>4, <2>6, Zenon DEF CoreInv, CoreType
  <2>10. CountersAgree'
    <3> SUFFICES ASSUME NEW q \in Peers
                 PROVE  /\ incomingMsgId'[q] = Len(delivered'[q])
                        /\ incomingMsgId'[q] <= sent[Other(q)]
                        /\ outgoingAckId'[q] <= incomingMsgId'[Other(q)]
      BY <1>3, Zenon DEF CountersAgree
    <3>1. incomingMsgId'[q] = Len(delivered'[q])
      <4>1. CASE q = p
        BY <1>3, <2>4, <2>6, <2>7, <4>1, Zenon
      <4>2. CASE q # p
        BY <1>3, <2>4, <2>6, <4>2, Zenon
      <4> QED
        BY <4>1, <4>2
    <3>2. incomingMsgId'[q] <= sent[Other(q)]
      BY <1>3, <1>5, <2>1, <2>4
    <3>3. outgoingAckId'[q] <= incomingMsgId'[Other(q)]
      <4>1. /\ outgoingAckId'[q] <= incomingMsgId[Other(q)] /\ Other(q) \in Peers
            /\ outgoingAckId'[q] \in Nat /\ incomingMsgId[Other(q)] \in Nat
        BY <1>1, <1>3, OtherFacts, Zenon
      <4> QED
        BY <2>4, <4>1
    <3> QED
      BY <3>1, <3>2, <3>3
  <2>11. DeliveredInOrder'
    <3> SUFFICES ASSUME NEW q \in Peers, NEW i \in 1..Len(delivered'[q])
                 PROVE  delivered'[q][i] = i
      BY Zenon DEF DeliveredInOrder
    <3>1. \A j \in 1..Len(delivered[q]) : delivered[q][j] = j
      BY DEF CoreInv, DeliveredInOrder
    <3>2. CASE q # p
      BY <2>6, <3>1, <3>2, Zenon
    <3>3. CASE q = p
      <4>1. delivered'[q] = Append(delivered[p], m.data)
        BY <2>6, <3>3, Zenon
      <4>2. i \in 1..(Len(delivered[p]) + 1)
        BY <2>7, <4>1, Zenon
      <4>3. i \in 1..Len(delivered[p]) \/ i = Len(delivered[p]) + 1
        BY <2>7, <4>2
      <4>4. m.data = Len(delivered[p]) + 1
        BY <1>3, <1>5, <2>1, Zenon
      <4> QED
        BY <2>7, <3>1, <3>3, <4>1, <4>3, <4>4, Zenon
    <3> QED
      BY <3>2, <3>3
  <2>12. QueuesIn(outgoingUnackMsg', Genuine')
    <3>1. \A q \in Peers : Genuine[q] \subseteq Genuine'[q]
      <4>1. /\ sent \in [Peers -> 0..MaxMsgs] /\ incomingMsgId \in [Peers -> 0..MaxMsgs]
            /\ sent' \in [Peers -> 0..MaxMsgs] /\ incomingMsgId' \in [Peers -> 0..MaxMsgs]
        BY <2>9, Zenon DEF CoreInv, CoreType
      <4> QED
        BY <2>8, <4>1, GenuineGrows, Zenon DEF Genuine, Growing
    <3> QED
      BY <1>1, <3>1, QueuesGrow, Zenon
  <2> QED
    BY <1>2, <2>8, <2>9, <2>10, <2>11, <2>12, Zenon DEF CoreInv
<1> QED
  BY <1>4, <1>5

-----------------------------------------------------------------------------
(* The flags *)

LEMMA FaultCount ==
  ASSUME faults \in 0..MaxFaults, Fault
  PROVE  faults' \in 0..MaxFaults
<1>1. faults < MaxFaults /\ faults' = faults + 1
  BY Zenon DEF Fault
<1> QED
  BY <1>1, ProtocolBounds

LEMMA FlagStep ==
  ASSUME CoreType, FlagType, conn \in [Peers -> Conns], [Next]_vars
  PROVE  FlagType'
<1>0. \A p \in Peers : incomingMsgId[p] \in 0..MaxMsgs
  BY DEF CoreType
<1> USE DEF protocol, writer, network, loop, trouble, history
<1>1. ASSUME NEW p \in Peers, Send(p) PROVE FlagType'
  BY <1>0, <1>1 DEF FlagType, RecvAckCheck, Send
<1>2. ASSUME NEW p \in Peers, SendKeepAlive(p) PROVE FlagType'
  BY <1>0, <1>2 DEF FlagType, RecvAckCheck, SendKeepAlive
<1>3. ASSUME NEW p \in Peers, IncomingAckTimeout(p) PROVE FlagType'
  BY <1>0, <1>3 DEF FlagType, RecvAckCheck, IncomingAckTimeout
<1>4. ASSUME NEW p \in Peers, OutgoingAckTimeout(p) PROVE FlagType'
  BY <1>0, <1>4 DEF FlagType, RecvAckCheck, OutgoingAckTimeout
<1>5. ASSUME NEW p \in Peers, ReceiveRegular(p) PROVE FlagType'
  BY <1>0, <1>5 DEF FlagType, RecvAckCheck, ReceiveRegular, AcceptRegular, RequestReplay, IgnoreRegular
<1>6. ASSUME NEW p \in Peers, ReceiveBare(p) PROVE FlagType'
  BY <1>0, <1>6 DEF FlagType, RecvAckCheck, ReceiveBare
<1>7. ASSUME NEW p \in Peers, ReceiveReplayRequest(p) PROVE FlagType'
  BY <1>0, <1>7 DEF FlagType, RecvAckCheck, ReceiveReplayRequest
<1>8. ASSUME NEW p \in Peers, ReceivePause(p) PROVE FlagType'
  BY <1>0, <1>8 DEF FlagType, RecvAckCheck, ReceivePause
<1>9. ASSUME NEW p \in Peers, ReceiveResume(p) PROVE FlagType'
  BY <1>0, <1>9 DEF FlagType, RecvAckCheck, ReceiveResume
<1>10. ASSUME NEW p \in Peers, ReceiveControl(p) PROVE FlagType'
  BY <1>0, <1>10 DEF FlagType, RecvAckCheck, ReceiveControl
<1>11. ASSUME NEW p \in Peers, ReplayTimePasses(p) PROVE FlagType'
  BY <1>0, <1>11 DEF FlagType, RecvAckCheck, ReplayTimePasses
<1>12. CASE SocketClose
  BY <1>12 DEF FlagType, SocketClose, Peers
<1>13. CASE Reconnect
  BY <1>13 DEF FlagType, Reconnect, Peers
<1>14. CASE HandshakeTimeout
  <2>1. faults' \in 0..MaxFaults
    BY <1>14, FaultCount, Zenon DEF FlagType, HandshakeTimeout
  <2>2. looping' \in BOOLEAN /\ awaitingOk' \in BOOLEAN
    BY <1>14, Zenon DEF HandshakeTimeout
  <2> QED
    BY <1>14, <2>1, <2>2, Zenon DEF FlagType, HandshakeTimeout
<1>15. ASSUME NEW c \in Conns, AnswerHandshake(c) PROVE FlagType'
  BY <1>15 DEF FlagType, AnswerHandshake
<1>16. ASSUME NEW c \in Conns, NEW n \in 0..Len(wire[c]["server"]), AcceptReconnection(c, n) PROVE FlagType'
  <2>1. "server" \in Peers
    BY DEF Peers
  <2> QED
    BY <1>0, <1>16, <2>1 DEF FlagType, RecvAckCheck, AcceptReconnection
<1>17. ASSUME NEW c \in Conns, Break(c) PROVE FlagType'
  <2>1. faults' \in 0..MaxFaults
    BY <1>17, FaultCount, Zenon DEF FlagType, Break
  <2>2. broken' \in SUBSET Conns
    BY <1>17 DEF FlagType, Break
  <2> QED
    BY <1>17, <2>1, <2>2, Zenon DEF FlagType, Break
<1>18. ASSUME NEW c \in Conns, NEW p \in Peers, NEW i \in 1..Len(wire[c][p]), Lose(c, p, i) PROVE FlagType'
  <2>1. lost' \in 0..MaxLosses
    <3>1. lost \in 0..MaxLosses /\ lost < MaxLosses /\ lost' = lost + 1
      BY <1>18, Zenon DEF FlagType, Lose
    <3> QED
      BY <3>1, ProtocolBounds
  <2> QED
    BY <1>18, <2>1, Zenon DEF FlagType, Lose
<1>19. CASE UNCHANGED vars
  BY <1>19, Zenon DEF FlagType, vars
<1>20. CASE GiveUp \/ PermanentFailure
  <2>1. DisposeProtocol /\ over' \in {"gave up", "failed"} /\ looping' \in BOOLEAN /\ awaitingOk' \in BOOLEAN
    BY <1>20 DEF GiveUp, PermanentFailure, FlagType
  <2>2. conn["client"] \in Conns
    BY DEF Peers
  <2> QED
    BY <2>1, <2>2 DEF FlagType, DisposeProtocol
<1>21. CASE LoopEnds
  BY <1>21 DEF FlagType, LoopEnds
<1> QED
  BY <1>1, <1>2, <1>3, <1>4, <1>5, <1>6, <1>7, <1>8, <1>9, <1>10, <1>11, <1>12, <1>13, <1>14,
     <1>15, <1>16, <1>17, <1>18, <1>19, <1>20, <1>21, Zenon DEF Next

-----------------------------------------------------------------------------
(* The numbers and the queues *)

LEMMA HeadGenuine ==
  ASSUME CoreInv, NetInv, NEW p \in Peers, Len(Incoming(p)) > 0
  PROVE  Head(Incoming(p)) \in Genuine[Other(p)]
<1>1. conn[p] \in Conns /\ WireIn(wire, Genuine)
  BY DEF NetInv
<1>2. Genuine \in [Peers -> SUBSET Messages]
  BY GenuineType, Zenon DEF Genuine
<1> QED
  BY <1>1, <1>2, PoppedIn, Zenon

LEMMA CoreStep ==
  ASSUME CoreInv, NetInv, [Next]_vars
  PROVE  CoreInv' /\ Growing
<1> USE DEF protocol, writer, network, loop, trouble, history
<1>1. ASSUME NEW p \in Peers, Send(p) PROVE CoreInv' /\ Growing
  BY <1>1, SendCore, Zenon DEF Growing
<1>2. ASSUME NEW p \in Peers, ReceiveRegular(p) PROVE CoreInv' /\ Growing
  <2> DEFINE m == Head(Incoming(p))
  <2>1. Len(Incoming(p)) > 0 /\ m.type = "Regular" /\ ReceiveAck(p, m.ack) /\ UNCHANGED <<outgoingMsgId, sent>>
    BY <1>2, Zenon DEF ReceiveRegular
  <2>2. m \in Genuine[Other(p)]
    BY <2>1, HeadGenuine, Zenon
  <2>3. AcceptRegular(p, m) \/ UNCHANGED <<incomingMsgId, delivered>>
    BY <1>2, Zenon DEF ReceiveRegular, RequestReplay, IgnoreRegular
  <2>4. AcceptRegular(p, m) => /\ m.id = incomingMsgId[p] + 1
                               /\ incomingMsgId' = [incomingMsgId EXCEPT ![p] = m.id]
                               /\ delivered' = [delivered EXCEPT ![p] = Append(delivered[p], m.data)]
    BY Zenon DEF AcceptRegular
  <2> HIDE DEF m
  <2> QED
    BY <2>1, <2>2, <2>3, <2>4, ReceiveCore, Zenon
<1>3. ASSUME NEW p \in Peers, ReceiveBare(p) PROVE CoreInv' /\ Growing
  <2> DEFINE m == Head(Incoming(p))
  <2>1. Len(Incoming(p)) > 0 /\ ReceiveAck(p, m.ack) /\ UNCHANGED <<outgoingMsgId, sent, incomingMsgId, delivered>>
    BY <1>3, Zenon DEF ReceiveBare
  <2>2. m \in Genuine[Other(p)]
    BY <2>1, HeadGenuine, Zenon
  <2> HIDE DEF m
  <2> QED
    BY <2>1, <2>2, ReceiveCore, Zenon
<1>4. ASSUME NEW p \in Peers,
             \/ SendKeepAlive(p) \/ IncomingAckTimeout(p) \/ OutgoingAckTimeout(p)
             \/ ReceiveReplayRequest(p) \/ ReceivePause(p) \/ ReceiveResume(p) \/ ReceiveControl(p)
             \/ ReplayTimePasses(p)
      PROVE  UNCHANGED core
  BY <1>4, Zenon DEF core, SendKeepAlive, IncomingAckTimeout, OutgoingAckTimeout, ReceiveReplayRequest,
     ReceivePause, ReceiveResume, ReceiveControl, ReplayTimePasses
<1>5. CASE SocketClose \/ Reconnect \/ HandshakeTimeout \/ GiveUp \/ PermanentFailure \/ LoopEnds
  BY <1>5, CoreUnchanged, Zenon DEF core, SocketClose, Reconnect, HandshakeTimeout, GiveUp, PermanentFailure,
     DisposeProtocol, LoopEnds
<1>6. ASSUME NEW c \in Conns, AnswerHandshake(c) \/ Break(c) PROVE UNCHANGED core
  BY <1>6, Zenon DEF core, AnswerHandshake, Break
<1>7. ASSUME NEW c \in Conns, NEW n \in 0..Len(wire[c]["server"]), AcceptReconnection(c, n)
      PROVE  UNCHANGED core
  BY <1>7, Zenon DEF core, AcceptReconnection
<1>8. ASSUME NEW c \in Conns, NEW p \in Peers, NEW i \in 1..Len(wire[c][p]), Lose(c, p, i)
      PROVE  UNCHANGED core
  BY <1>8, Zenon DEF core, Lose
<1>9. CASE UNCHANGED vars
  BY <1>9, CoreUnchanged, Zenon DEF core, vars
<1> QED
  BY <1>1, <1>2, <1>3, <1>4, <1>5, <1>6, <1>7, <1>8, <1>9, CoreUnchanged, Zenon DEF Next

-----------------------------------------------------------------------------
(* The messages on their way *)

\* Reading or dropping messages leaves only genuine ones, and so does writing
\* genuine ones.
LEMMA NetStep ==
  ASSUME CoreInv, NetInv, CoreInv', Growing, [Next]_vars
  PROVE  NetInv'
<1> DEFINE G == Genuine'
<1>1. /\ sent' \in [Peers -> 0..MaxMsgs] /\ incomingMsgId' \in [Peers -> 0..MaxMsgs]
      /\ G = GenuineIn(sent', incomingMsgId')
      /\ G \in [Peers -> SUBSET Messages]
  BY GenuineType, Zenon DEF CoreInv, CoreType, Genuine
<1>2. /\ conn \in [Peers -> Conns] /\ \A p \in Peers : conn[p] \in Conns
      /\ held \in [Peers -> Seq(Messages)]
  BY DEF NetInv
<1>3. WireIn(wire, G) /\ QueuesIn(held, G)
  <2>1. \A q \in Peers : Genuine[q] \subseteq G[q]
    BY GenuineStep, Zenon
  <2> HIDE DEF G
  <2> QED
    BY <2>1, WireGrows, QueuesGrow, Zenon DEF NetInv
<1>4. QueuesIn(outgoingUnackMsg', G)
  BY Zenon DEF CoreInv
<1>5. ASSUME NEW p \in Peers, Len(Incoming(p)) > 0 PROVE WireIn(Popped(p), G)
  BY <1>1, <1>2, <1>3, <1>5, PoppedIn, Zenon
<1>6. ASSUME NEW p \in Peers, NEW w, WireIn(w, G), NEW msgs \in Seq(G[p]), Write(w, p, msgs), conn' = conn
      PROVE  NetInv'
  <2>1. WireIn(wire', G) /\ held' \in [Peers -> Seq(Messages)] /\ QueuesIn(held', G)
    BY <1>1, <1>2, <1>3, <1>6, WriteIn, Zenon
  <2> QED
    BY <1>2, <1>6, <2>1, Zenon DEF NetInv
<1>7. ASSUME WireIn(wire', G), conn' = conn, held' = held PROVE NetInv'
  BY <1>2, <1>3, <1>7, Zenon DEF NetInv
<1>8. ASSUME NEW p \in Peers, NEW type \in MessageTypes \ {"Regular"}, NEW ack \in {0, incomingMsgId'[p]},
             type \in HandshakeTypes => p = "server"
      PROVE  Plain(type, ack) \in G[p] /\ <<Plain(type, ack)>> \in Seq(G[p])
  BY <1>1, <1>8, PlainIn, SingletonType, Zenon
<1>9. ASSUME NEW p \in Peers, held' = [held EXCEPT ![p] = <<>>]
      PROVE  held' \in [Peers -> Seq(Messages)] /\ QueuesIn(held', G)
  <2>1. \A q \in Peers : held'[q] = IF q = p THEN <<>> ELSE held[q]
    BY <1>2, <1>9
  <2>2. QueuesIn(held', G)
    BY <1>3, <2>1, EmptyType, Zenon DEF QueuesIn
  <2> QED
    BY <1>2, <1>9, <2>2
<1> HIDE DEF G
<1> USE DEF protocol, writer, network, loop, trouble, history
<1>10. ASSUME NEW p \in Peers, Send(p) PROVE NetInv'
  <2> DEFINE msg == ProtocolMessage("Regular", outgoingMsgId[p] + 1, incomingMsgId[p], sent[p] + 1)
  <2>1. msg \in G[p]
    BY <1>10, SendCore, Zenon DEF G
  <2>2. \/ wire' = wire /\ held' = held
        \/ Write(wire, p, <<msg>>)
    BY <1>10, Zenon DEF Send
  <2>3. conn' = conn
    BY <1>10, Zenon DEF Send
  <2> HIDE DEF msg
  <2>4. <<msg>> \in Seq(G[p])
    BY <2>1, SingletonType, Zenon
  <2> QED
    BY <1>3, <1>6, <1>7, <2>2, <2>3, <2>4, Zenon
<1>11. ASSUME NEW p \in Peers, SendKeepAlive(p) PROVE NetInv'
  <2>1. Write(wire, p, <<Plain("KeepAlive", incomingMsgId'[p])>>) /\ conn' = conn
    BY <1>11, Zenon DEF SendKeepAlive
  <2>2. "KeepAlive" \in MessageTypes \ {"Regular"} /\ "KeepAlive" \notin HandshakeTypes
    BY DEF MessageTypes, HandshakeTypes
  <2> QED
    BY <1>3, <1>6, <1>8, <2>1, <2>2, Zenon
<1>12. ASSUME NEW p \in Peers, IncomingAckTimeout(p) PROVE NetInv'
  <2>1. /\ (wire' = wire /\ held' = held) \/ Write(wire, p, <<Plain("Ack", incomingMsgId'[p])>>)
        /\ conn' = conn
    BY <1>12, Zenon DEF IncomingAckTimeout
  <2>2. "Ack" \in MessageTypes \ {"Regular"} /\ "Ack" \notin HandshakeTypes
    BY DEF MessageTypes, HandshakeTypes
  <2> QED
    BY <1>3, <1>6, <1>7, <1>8, <2>1, <2>2, Zenon
<1>13. ASSUME NEW p \in Peers, OutgoingAckTimeout(p) \/ ReplayTimePasses(p) PROVE NetInv'
  BY <1>3, <1>7, <1>13, Zenon DEF OutgoingAckTimeout, ReplayTimePasses
<1>14. ASSUME NEW p \in Peers, ReceiveRegular(p) PROVE NetInv'
  <2>1. /\ Len(Incoming(p)) > 0 /\ conn' = conn
        /\ \/ Write(Popped(p), p, <<>>)
           \/ Write(Popped(p), p, <<Plain("ReplayRequest", 0)>>)
    BY <1>14, Zenon DEF ReceiveRegular, AcceptRegular, RequestReplay, IgnoreRegular
  <2>2. "ReplayRequest" \in MessageTypes \ {"Regular"} /\ "ReplayRequest" \notin HandshakeTypes
    BY DEF MessageTypes, HandshakeTypes
  <2>3. <<>> \in Seq(G[p]) /\ <<Plain("ReplayRequest", 0)>> \in Seq(G[p])
    BY <1>8, <2>2, EmptyType, Zenon
  <2> QED
    BY <1>5, <1>6, <2>1, <2>3, Zenon
<1>15. ASSUME NEW p \in Peers, ReceiveBare(p) \/ ReceivePause(p) PROVE NetInv'
  <2>1. Len(Incoming(p)) > 0 /\ conn' = conn /\ held' = held /\ wire' = Popped(p)
    BY <1>15, Zenon DEF ReceiveBare, ReceivePause
  <2> QED
    BY <1>5, <1>7, <2>1, Zenon
<1>16. ASSUME NEW p \in Peers, ReceiveReplayRequest(p) PROVE NetInv'
  <2>1. Len(Incoming(p)) > 0 /\ conn' = conn /\ Write(Popped(p), p, outgoingUnackMsg'[p])
    BY <1>16, Zenon DEF ReceiveReplayRequest
  <2>2. outgoingUnackMsg'[p] \in Seq(G[p])
    BY <1>4, Zenon DEF QueuesIn
  <2> QED
    BY <1>5, <1>6, <2>1, <2>2, Zenon
<1>17. ASSUME NEW p \in Peers, ReceiveResume(p) PROVE NetInv'
  <2>1. /\ Len(Incoming(p)) > 0 /\ conn' = conn
        /\ held' = [held EXCEPT ![p] = <<>>]
        /\ wire' = Put(Popped(p), p, held[p])
    BY <1>17, Zenon DEF ReceiveResume
  <2>2. held[p] \in Seq(G[p])
    BY <1>3, Zenon DEF QueuesIn
  <2>3. WireIn(wire', G)
    BY <1>1, <1>2, <1>5, <2>1, <2>2, PutIn, Zenon
  <2>4. held' \in [Peers -> Seq(Messages)] /\ QueuesIn(held', G)
    BY <1>9, <2>1, Zenon
  <2> QED
    BY <1>2, <2>1, <2>3, <2>4, Zenon DEF NetInv, G
<1>18. ASSUME NEW p \in Peers, incomingMsgId' = incomingMsgId, outgoingUnackMsg' = outgoingUnackMsg
       PROVE  WrittenAfterReconnection(p) \in Seq(G[p])
  <2>1. "Ack" \in MessageTypes \ {"Regular"} /\ "Ack" \notin HandshakeTypes
    BY DEF MessageTypes, HandshakeTypes
  <2>2. <<Plain("Ack", incomingMsgId[p])>> \in Seq(G[p])
    BY <1>8, <1>18, <2>1, Zenon
  <2>3. outgoingUnackMsg[p] \in Seq(G[p])
    BY <1>4, <1>18, Zenon DEF QueuesIn
  <2> QED
    BY <2>2, <2>3, ConcatType, Zenon DEF WrittenAfterReconnection
<1>19. ASSUME NEW p \in Peers, ReceiveControl(p) PROVE NetInv'
  <2>1. /\ Len(Incoming(p)) > 0 /\ conn' = conn
        /\ incomingMsgId' = incomingMsgId /\ outgoingUnackMsg' = outgoingUnackMsg
        /\ \/ Write(Popped(p), p, WrittenAfterReconnection(p))
           \/ wire' = Popped(p) /\ held' = held
    BY <1>19, Zenon DEF ReceiveControl
  <2>2. WireIn(Popped(p), G) /\ WrittenAfterReconnection(p) \in Seq(G[p])
    BY <1>5, <1>18, <2>1, Zenon
  <2> QED
    BY <1>6, <1>7, <2>1, <2>2, Zenon
<1>20. "client" \in Peers /\ "server" \in Peers
  BY DEF Peers
<1>21. ASSUME NEW c \in Conns, NEW p \in Peers, NEW w, WireIn(w, G)
       PROVE  WireIn([w EXCEPT ![c][p] = <<>>], G)
  BY <1>1, <1>21, EmptyType, WireReplace, Zenon
<1>22. CASE SocketClose \/ GiveUp \/ PermanentFailure
  <2>1. conn' = conn /\ held' = held /\ wire' = [wire EXCEPT ![conn["client"]]["client"] = <<>>]
    BY <1>22, Zenon DEF SocketClose, GiveUp, PermanentFailure, DisposeProtocol
  <2> QED
    BY <1>2, <1>3, <1>7, <1>20, <1>21, <2>1, Zenon
<1>23. CASE Reconnect
  <2>1. /\ conn' = [conn EXCEPT !["client"] = conn["client"] + 1] /\ conn["client"] < MaxConns
        /\ held' = [held EXCEPT !["client"] = <<>>]
        /\ wire' = [wire EXCEPT ![conn["client"]]["client"] = <<>>]
    BY <1>23 DEF Reconnect
  <2>2. WireIn(wire', G)
    BY <1>2, <1>3, <1>20, <1>21, <2>1, Zenon
  <2>3. held' \in [Peers -> Seq(Messages)] /\ QueuesIn(held', G)
    BY <1>9, <1>20, <2>1, Zenon
  <2>4. conn' \in [Peers -> Conns]
    <3>1. conn["client"] + 1 \in Conns
      BY <1>2, <1>20, <2>1, ProtocolBounds DEF Conns
    <3> QED
      BY <1>2, <2>1, <3>1
  <2> QED
    BY <2>2, <2>3, <2>4, Zenon DEF NetInv, G
<1>24. CASE HandshakeTimeout \/ LoopEnds
  BY <1>3, <1>7, <1>24, Zenon DEF HandshakeTimeout, LoopEnds
<1>25. ASSUME NEW c \in Conns, AnswerHandshake(c) PROVE NetInv'
  <2>1. /\ conn' = conn /\ held' = held
        /\ wire' = ToClient(wire, c, <<Plain("Pause", 0), Plain("Control", 0)>>)
    BY <1>25, Zenon DEF AnswerHandshake
  <2>2. "Pause" \in MessageTypes \ {"Regular"} /\ "Control" \in MessageTypes \ {"Regular"}
    BY DEF MessageTypes, HandshakeTypes
  <2>3. Plain("Pause", 0) \in G["server"] /\ Plain("Control", 0) \in G["server"]
    BY <1>8, <1>20, <2>2, Zenon
  <2>4. <<Plain("Pause", 0), Plain("Control", 0)>> \in Seq(G["server"])
    BY <2>3, PairType, Zenon
  <2>5. WireIn(wire', G)
    BY <1>1, <1>3, <2>1, <2>4, ToClientIn, Zenon
  <2> QED
    BY <1>7, <2>1, <2>5, Zenon
<1>26. ASSUME NEW c \in Conns, NEW n \in 0..Len(wire[c]["server"]), AcceptReconnection(c, n) PROVE NetInv'
  <2> DEFINE unread == wire[c]["server"]
             rest   == SubSeq(unread, n + 1, Len(unread))
             gone   == [wire EXCEPT ![conn["server"]]["server"] = <<>>]
             left   == [gone EXCEPT ![c]["server"] = rest]
             ok     == IF ExtHost THEN <<>> ELSE <<Plain("Control", 0)>>
             resume == IF ExtHost THEN <<Plain("Resume", 0)>> ELSE <<>>
             again  == Encoded(WrittenAfterReconnection("server"))
  <2>1. /\ conn' = [conn EXCEPT !["server"] = c]
        /\ held' = [held EXCEPT !["server"] = <<>>]
        /\ wire' = ToClient(left, c, ok \o again \o resume)
        /\ incomingMsgId' = incomingMsgId /\ outgoingUnackMsg' = outgoingUnackMsg
    BY <1>26, Zenon DEF AcceptReconnection
  <2>2. WireIn(gone, G)
    BY <1>2, <1>3, <1>20, <1>21, Zenon
  <2>3. unread \in Seq(G[Other("server")])
    BY <1>3, <1>20, WireAt, Zenon
  <2>4. rest \in Seq(G[Other("server")])
    BY <2>3, DropType, Zenon
  <2>5. WireIn(left, G)
    BY <1>1, <1>20, <2>2, <2>4, WireReplace, Zenon
  <2>6. again \in Seq(G["server"])
    BY <1>1, <1>18, <1>20, <2>1, EncodedIn, Zenon
  <2>7. ok \in Seq(G["server"]) /\ resume \in Seq(G["server"])
    <3>1. "Resume" \in MessageTypes \ {"Regular"} /\ "Control" \in MessageTypes \ {"Regular"}
      BY DEF MessageTypes, HandshakeTypes
    <3> QED
      BY <1>8, <1>20, <3>1, EmptyType, Zenon
  <2> HIDE DEF left, ok, resume, again
  <2>8. ok \o again \o resume \in Seq(G["server"])
    BY <2>6, <2>7, ConcatType, Zenon
  <2>9. WireIn(wire', G)
    BY <1>1, <2>1, <2>5, <2>8, ToClientIn, Zenon
  <2>10. held' \in [Peers -> Seq(Messages)] /\ QueuesIn(held', G)
    BY <1>9, <1>20, <2>1, Zenon
  <2>11. conn' \in [Peers -> Conns]
    BY <1>2, <1>26, <2>1
  <2> QED
    BY <2>9, <2>10, <2>11, Zenon DEF NetInv, G
<1>27. ASSUME NEW c \in Conns, Break(c) PROVE NetInv'
  BY <1>3, <1>7, <1>27, Zenon DEF Break
<1>28. ASSUME NEW c \in Conns, NEW p \in Peers, NEW i \in 1..Len(wire[c][p]), Lose(c, p, i) PROVE NetInv'
  <2> DEFINE old == wire[c][p]
             new == SubSeq(old, 1, i - 1) \o SubSeq(old, i + 1, Len(old))
  <2>1. conn' = conn /\ held' = held /\ wire' = [wire EXCEPT ![c][p] = new]
    BY <1>28, Zenon DEF Lose
  <2>2. old \in Seq(G[Other(p)])
    BY <1>3, WireAt, Zenon
  <2>3. i \in 0..Len(old) /\ i - 1 \in 0..Len(old)
    BY <2>2
  <2>4. new \in Seq(G[Other(p)])
    BY <2>2, <2>3, DropType, TakeType, ConcatType, Zenon
  <2> HIDE DEF new
  <2>5. WireIn(wire', G)
    BY <1>1, <1>3, <2>1, <2>4, WireReplace, Zenon
  <2> QED
    BY <1>7, <2>1, <2>5, Zenon
<1>29. CASE UNCHANGED vars
  BY <1>3, <1>7, <1>29, Zenon DEF vars
<1> QED
  BY <1>10, <1>11, <1>12, <1>13, <1>14, <1>15, <1>16, <1>17, <1>19, <1>22, <1>23, <1>24, <1>25,
     <1>26, <1>27, <1>28, <1>29, Zenon DEF Next

-----------------------------------------------------------------------------
(* The theorems *)

LEMMA InitIInv == Init => IInv
<1> SUFFICES ASSUME Init PROVE IInv
  OBVIOUS
<1>1. 1 \in Conns /\ 0 \in 0..MaxMsgs /\ 0 \in 0..MaxFaults
  BY ProtocolBounds DEF Conns
<1>2. /\ \A q \in Peers : /\ sent[q] = 0 /\ incomingMsgId[q] = 0 /\ outgoingMsgId[q] = 0 /\ outgoingAckId[q] = 0
                          /\ delivered[q] = <<>> /\ outgoingUnackMsg[q] = <<>> /\ held[q] = <<>>
      /\ \A c \in Conns, q \in Peers : wire[c][q] = <<>>
  BY DEF Init
<1>3. CoreType
  BY <1>1, EmptyType DEF Init, CoreType
<1>4. CountersAgree
  BY <1>2, OtherFacts DEF CountersAgree
<1>5. QueueIsIntact
  BY <1>2 DEF QueueIsIntact, Numbered
<1>6. DeliveredInOrder
  BY <1>2 DEF DeliveredInOrder
<1>7. QueuesIn(outgoingUnackMsg, Genuine) /\ QueuesIn(held, Genuine)
  BY <1>2, EmptyType, Zenon DEF QueuesIn
<1>8. WireIn(wire, Genuine)
  <2>1. wire \in [Conns -> [Peers -> Seq(Messages)]]
    BY EmptyType, Zenon DEF Init
  <2> QED
    BY <1>2, <2>1, EmptyType, Zenon DEF WireIn
<1>9. conn \in [Peers -> Conns] /\ held \in [Peers -> Seq(Messages)]
  BY <1>1, EmptyType, Zenon DEF Init
<1>10. FlagType
  <2>1. /\ isReconnecting \in [Peers -> BOOLEAN] /\ outgoingAckTimeout \in [Peers -> BOOLEAN]
        /\ incomingAckTimeout \in [Peers -> BOOLEAN] /\ mayRequestReplay \in [Peers -> BOOLEAN]
        /\ isPaused \in [Peers -> BOOLEAN] /\ incomingAckId \in [Peers -> 0..MaxMsgs]
    BY <1>1 DEF Init
  <2>2. 0 \in 0..MaxFaults /\ 0 \in 0..MaxLosses
    BY ProtocolBounds
  <2>3. faults \in 0..MaxFaults /\ lost \in 0..MaxLosses /\ over \in {"no", "gave up", "failed"}
    BY <2>2, Zenon DEF Init
  <2> QED
    BY <1>1, <2>1, <2>3, Zenon DEF Init, FlagType
<1> QED
  BY <1>3, <1>4, <1>5, <1>6, <1>7, <1>8, <1>9, <1>10, Zenon DEF IInv, CoreInv, NetInv

LEMMA StepIInv == IInv /\ [Next]_vars => IInv' /\ Growing
<1> SUFFICES ASSUME IInv, [Next]_vars PROVE IInv' /\ Growing
  OBVIOUS
<1>1. CoreInv' /\ Growing
  BY CoreStep, Zenon DEF IInv
<1>2. NetInv'
  BY <1>1, NetStep, Zenon DEF IInv
<1>3. FlagType'
  BY FlagStep, Zenon DEF IInv, CoreInv, NetInv
<1> QED
  BY <1>1, <1>2, <1>3, Zenon DEF IInv

\* The inductive invariant holds in every reachable state of the protocol.
THEOREM Invariance == Spec => []IInv
<1>1. IInv /\ [Next]_vars => IInv'
  BY StepIInv, Zenon
<1> QED
  BY <1>1, InitIInv, PTL DEF Spec

\* Every variable keeps its type; in particular no acknowledgement and no
\* number exceeds what was sent.
THEOREM TypeCorrect == Spec => []TypeOK
<1>1. IInv => TypeOK
  BY Zenon DEF IInv, CoreInv, CoreType, NetInv, WireIn, FlagType, TypeOK
<1> QED
  BY <1>1, Invariance, PTL

\* Messages are reported in order, each one once, however often sockets are
\* replaced and messages sent again.
THEOREM ExactlyOnce == Spec => []ExactlyOnceInOrder
<1>1. IInv => ExactlyOnceInOrder
  BY Zenon DEF IInv, CoreInv, CountersAgree, DeliveredInOrder, ExactlyOnceInOrder
<1> QED
  BY <1>1, Invariance, PTL

\* The queue of unacknowledged messages holds every message that was not
\* reported yet, so that a reconnection can send it again.
THEOREM NothingForgotten == Spec => []UnackedUntilDelivered
<1>1. IInv => UnackedUntilDelivered
  <2> SUFFICES ASSUME IInv, NEW p \in Peers
               PROVE  /\ outgoingAckId[p] <= Len(delivered[Other(p)])
                      /\ Len(outgoingUnackMsg[p]) = sent[p] - outgoingAckId[p]
                      /\ \A i \in 1..Len(outgoingUnackMsg[p]) : outgoingUnackMsg[p][i].data = outgoingAckId[p] + i
    BY Zenon DEF UnackedUntilDelivered
  <2>1. outgoingAckId[p] <= Len(delivered[Other(p)])
    BY OtherFacts, Zenon DEF IInv, CoreInv, CountersAgree
  <2>2. /\ Len(outgoingUnackMsg[p]) = sent[p] - outgoingAckId[p]
        /\ \A i \in 1..Len(outgoingUnackMsg[p]) :
                outgoingUnackMsg[p][i].type = "Regular" /\ outgoingUnackMsg[p][i].id = outgoingAckId[p] + i
    BY DEF IInv, CoreInv, QueueIsIntact, Numbered
  <2>3. outgoingUnackMsg[p] \in Seq(Genuine[p])
    BY DEF IInv, CoreInv, QueuesIn
  <2>4. \A m \in Genuine[p] : m.type = "Regular" => m.data = m.id
    BY DEF Genuine, GenuineIn
  <2>5. \A i \in 1..Len(outgoingUnackMsg[p]) : outgoingUnackMsg[p][i] \in Genuine[p]
    BY <2>3
  <2> QED
    BY <2>1, <2>2, <2>4, <2>5, Zenon
<1> QED
  BY <1>1, Invariance, PTL

\* One step: what a peer has received and had acknowledged never goes back.
LEMMA StepProgress == IInv /\ [Next]_vars => KeepsProgress
<1> SUFFICES ASSUME IInv, [Next]_vars, NEW p \in Peers
             PROVE  incomingMsgId'[p] >= incomingMsgId[p] /\ outgoingAckId'[p] >= outgoingAckId[p]
  BY DEF KeepsProgress
<1>0. incomingMsgId[p] \in Nat /\ outgoingAckId[p] \in Nat
  BY ProtocolBounds DEF IInv, CoreInv, CoreType
<1>1. CASE UNCHANGED vars
  BY <1>0, <1>1 DEF vars, protocol
<1>2. CASE Next
  <2>1. IInv' /\ Growing
    BY <1>2, StepIInv, Zenon
  <2>2. /\ incomingMsgId[p] \in Nat /\ incomingMsgId'[p] \in Nat /\ incomingMsgId[p] <= incomingMsgId'[p]
        /\ outgoingAckId[p] \in Nat /\ outgoingAckId'[p] \in Nat
    BY <2>1, ProtocolBounds DEF Growing, IInv, CoreInv, CoreType
  <2>3. \/ outgoingAckId' = outgoingAckId
        \/ \E q \in Peers : Len(Incoming(q)) > 0 /\ ReceiveAck(q, Head(Incoming(q)).ack)
    BY <1>2, Zenon DEF Next, Send, SendKeepAlive, IncomingAckTimeout, OutgoingAckTimeout, ReceiveRegular,
       ReceiveBare, ReceiveReplayRequest, ReceivePause, ReceiveResume, ReceiveControl, ReplayTimePasses,
       SocketClose, Reconnect, HandshakeTimeout, GiveUp, PermanentFailure, DisposeProtocol, LoopEnds,
       AnswerHandshake, AcceptReconnection, Break, Lose, protocol
  <2>4. outgoingAckId[p] <= outgoingAckId'[p]
    <3>1. CASE outgoingAckId' = outgoingAckId
      BY <2>2, <3>1
    <3>2. ASSUME NEW q \in Peers, Len(Incoming(q)) > 0, ReceiveAck(q, Head(Incoming(q)).ack)
          PROVE  outgoingAckId[p] <= outgoingAckId'[p]
      <4>1. Head(Incoming(q)) \in Genuine[Other(q)]
        BY <3>2, HeadGenuine, Zenon DEF IInv
      <4> QED
        BY <3>2, <4>1, AckCore, Zenon DEF IInv
    <3> QED
      BY <2>3, <3>1, <3>2
  <2> QED
    BY <2>2, <2>4
<1> QED
  BY <1>1, <1>2

\* No step takes back what was reported or acknowledged.
THEOREM ProgressKept == Spec => ProgressIsKept
<1>1. IInv /\ [Next]_vars => [KeepsProgress]_vars
  BY StepProgress
<1> QED
  BY <1>1, Invariance, PTL DEF Spec, ProgressIsKept

\* The two protocols, the reconnections and the faults included, implement
\* the channel that hands over every message in order and exactly once.
THEOREM Refinement == Spec => ImplementsChannel
<1>1. Init => Channel!Init
  BY DEF Init, Channel!Init
<1>2. IInv /\ [Next]_vars => [Channel!Next]_(Channel!vars)
  <2> SUFFICES ASSUME IInv, [Next]_vars PROVE Channel!Next \/ UNCHANGED <<sent, delivered>>
    BY DEF Channel!vars
  <2> USE DEF protocol, writer, network, loop, trouble, history
  <2>1. ASSUME NEW p \in Peers, Send(p) PROVE Channel!Next
    <3>1. Channel!Send(p)
      BY <2>1, Zenon DEF Send, Channel!Send
    <3> QED
      BY <3>1 DEF Channel!Next
  <2>2. ASSUME NEW p \in Peers, ReceiveRegular(p) PROVE Channel!Next \/ UNCHANGED <<sent, delivered>>
    <3> DEFINE m == Head(Incoming(p))
    <3>1. m.type = "Regular" /\ Len(Incoming(p)) > 0 /\ sent' = sent
      BY <2>2, Zenon DEF ReceiveRegular
    <3>2. CASE AcceptRegular(p, m)
      <4>1. m.id = incomingMsgId[p] + 1 /\ delivered' = [delivered EXCEPT ![p] = Append(delivered[p], m.data)]
        BY <3>2, Zenon DEF AcceptRegular
      <4>2. m \in Genuine[Other(p)]
        BY <3>1, HeadGenuine, Zenon DEF IInv
      <4>3. m.id <= sent[Other(p)] /\ m.data = m.id
        BY <3>1, <4>2, OtherFacts DEF Genuine, GenuineIn
      <4>4. incomingMsgId[p] = Len(delivered[p]) /\ incomingMsgId[p] \in Nat /\ sent[Other(p)] \in Nat
        BY OtherFacts, ProtocolBounds DEF IInv, CoreInv, CoreType, CountersAgree
      <4> HIDE DEF m
      <4>5. Len(delivered[p]) < sent[Other(p)] /\ m.data = Len(delivered[p]) + 1
        BY <4>1, <4>3, <4>4
      <4>6. Channel!Deliver(p)
        BY <3>1, <4>1, <4>5, Zenon DEF Channel!Deliver
      <4> QED
        BY <4>6 DEF Channel!Next
    <3>3. CASE ~AcceptRegular(p, m)
      BY <2>2, <3>1, <3>3, Zenon DEF ReceiveRegular, RequestReplay, IgnoreRegular
    <3> QED
      BY <3>2, <3>3
  <2>3. CASE ~ \E p \in Peers : Send(p) \/ ReceiveRegular(p)
    BY <2>3, Zenon DEF Next, SendKeepAlive, IncomingAckTimeout, OutgoingAckTimeout, ReceiveBare,
       ReceiveReplayRequest, ReceivePause, ReceiveResume, ReceiveControl, ReplayTimePasses, SocketClose,
       Reconnect, HandshakeTimeout, GiveUp, PermanentFailure, DisposeProtocol, LoopEnds,
       AnswerHandshake, AcceptReconnection, Break, Lose, vars
  <2> QED
    BY <2>1, <2>2, <2>3
<1> QED
  BY <1>1, <1>2, Invariance, PTL DEF Spec, ImplementsChannel, Channel!Safety

-----------------------------------------------------------------------------
(* The client's loop *)

\* Unless the connection has been given up, the loop runs while the protocol
\* is reconnecting.
ReconnectingInLoop == isReconnecting["client"] /\ over = "no" => looping

\* An attempt belongs to the loop; with this, a dead socket is noticed.
LoopInv ==
    /\ IInv
    /\ awaitingOk => looping
    /\ ReconnectingInLoop
    /\ SocketIsWatched

\* The queue of the client is as long as the numbers say.
QueueAgrees ==
    /\ sent["client"] \in Nat /\ outgoingAckId["client"] \in Nat /\ Len(outgoingUnackMsg["client"]) \in Nat
    /\ outgoingMsgId["client"] = sent["client"]
    /\ Len(outgoingUnackMsg["client"]) = sent["client"] - outgoingAckId["client"]

LEMMA QueueLength == IInv => QueueAgrees
<1> SUFFICES ASSUME IInv PROVE QueueAgrees
  OBVIOUS
<1>0. "client" \in Peers
  BY DEF Peers
<1>1. sent["client"] \in 0..MaxMsgs /\ outgoingAckId["client"] \in 0..MaxMsgs
  BY <1>0 DEF IInv, CoreInv, CoreType
<1>2. sent["client"] \in Nat /\ outgoingAckId["client"] \in Nat
  BY <1>1
<1>3. outgoingUnackMsg["client"] \in Seq(Messages)
  BY <1>0 DEF IInv, CoreInv, CoreType
<1>4. Len(outgoingUnackMsg["client"]) \in Nat
  BY <1>3
<1>5. /\ outgoingMsgId["client"] = sent["client"]
      /\ Len(outgoingUnackMsg["client"]) = sent["client"] - outgoingAckId["client"]
  BY <1>0, Zenon DEF IInv, CoreInv, CountersAgree, QueueIsIntact, Numbered
<1> QED
  BY <1>2, <1>4, <1>5 DEF QueueAgrees

\* Steps that neither send nor reconnect.
LEMMA LoopKept ==
  ASSUME LoopInv, IInv', [Next]_vars, sent'["client"] = sent["client"],
         isReconnecting'["client"] = isReconnecting["client"],
         outgoingAckTimeout["client"] => outgoingAckTimeout'["client"],
         looping => looping', awaitingOk' => awaitingOk, over' = over
  PROVE  LoopInv'
<1>1. outgoingAckId["client"] <= outgoingAckId'["client"]
  BY StepProgress DEF LoopInv, KeepsProgress, Peers
<1>2. Len(outgoingUnackMsg'["client"]) > 0 => Len(outgoingUnackMsg["client"]) > 0
  <2>1. QueueAgrees /\ QueueAgrees'
    BY QueueLength, PTL DEF LoopInv
  <2> QED
    BY <1>1, <2>1 DEF QueueAgrees
<1> QED
  BY <1>2, Zenon DEF LoopInv, ReconnectingInLoop, SocketIsWatched

LEMMA LoopStep == LoopInv /\ [Next]_vars => LoopInv'
<1> SUFFICES ASSUME LoopInv, [Next]_vars PROVE LoopInv'
  OBVIOUS
<1>0. /\ IInv /\ IInv' /\ Growing /\ "client" \in Peers /\ "server" \in Peers
      /\ isReconnecting \in [Peers -> BOOLEAN] /\ outgoingAckTimeout \in [Peers -> BOOLEAN]
  BY StepIInv DEF LoopInv, Peers, IInv, FlagType
<1> USE DEF protocol, writer, network, loop, trouble, history
<1>1. ASSUME NEW p \in Peers, Send(p) PROVE LoopInv'
  <2>1. /\ outgoingAckTimeout' = [outgoingAckTimeout EXCEPT ![p] = RecvAckCheck(p, TRUE, isReconnecting[p])]
        /\ sent' = [sent EXCEPT ![p] = @ + 1] /\ UNCHANGED <<isReconnecting, looping, awaitingOk, over>>
    BY <1>1 DEF Send
  <2>2. CASE p = "client"
    <3>1. isReconnecting["client"] \/ outgoingAckTimeout'["client"]
      BY <1>0, <2>1, <2>2 DEF RecvAckCheck
    <3> QED
      BY <1>0, <2>1, <3>1 DEF LoopInv, ReconnectingInLoop, SocketIsWatched
  <2>3. CASE p # "client"
    <3>1. sent'["client"] = sent["client"] /\ outgoingAckTimeout'["client"] = outgoingAckTimeout["client"]
      BY <1>0, <2>1, <2>3 DEF IInv, CoreInv, CoreType
    <3> QED
      BY <1>0, <2>1, <3>1, LoopKept
  <2> QED
    BY <2>2, <2>3
<1>2. ASSUME NEW p \in Peers, OutgoingAckTimeout(p) PROVE LoopInv'
  <2>1. /\ outgoingAckTimeout' = [outgoingAckTimeout EXCEPT ![p] = FALSE]
        /\ UNCHANGED <<isReconnecting, awaitingOk, sent, outgoingUnackMsg, over>>
        /\ \/ looping' = looping /\ (outgoingMsgId[p] <= outgoingAckId[p] \/ isReconnecting[p])
           \/ looping' = (looping \/ (p = "client" /\ over # "failed"))
    BY <1>2 DEF OutgoingAckTimeout
  <2>2. CASE p # "client"
    <3>1. outgoingAckTimeout'["client"] = outgoingAckTimeout["client"]
      BY <1>0, <2>1, <2>2
    <3>2. looping => looping'
      BY <2>1, Zenon
    <3> QED
      BY <1>0, <2>1, <3>1, <3>2, LoopKept
  <2>3. CASE p = "client" /\ looping'
    BY <1>0, <2>1, <2>3 DEF LoopInv, ReconnectingInLoop, SocketIsWatched
  <2>4. CASE p = "client" /\ ~looping' /\ over # "no"
    BY <1>0, <2>1, <2>4 DEF LoopInv, ReconnectingInLoop, SocketIsWatched
  <2>5. CASE p = "client" /\ ~looping' /\ over = "no"
    <3>1. looping' = looping /\ (outgoingMsgId["client"] <= outgoingAckId["client"] \/ isReconnecting["client"])
      BY <2>1, <2>5
    <3>2. ~isReconnecting["client"]
      BY <2>5, <3>1 DEF LoopInv, ReconnectingInLoop
    <3>3. ~(Len(outgoingUnackMsg["client"]) > 0)
      BY <1>0, <3>1, <3>2, QueueLength DEF QueueAgrees
    <3> QED
      BY <1>0, <2>1, <3>1, <3>2, <3>3, Zenon DEF LoopInv, ReconnectingInLoop, SocketIsWatched
  <2> QED
    BY <2>2, <2>3, <2>4, <2>5
<1>3. ASSUME NEW p \in Peers, ReceiveControl(p) PROVE LoopInv'
  <2>1. p = "client"
    <3>1. Len(Incoming(p)) > 0 /\ Head(Incoming(p)).type = "Control"
      BY <1>3 DEF ReceiveControl
    <3>2. Head(Incoming(p)) \in Genuine[Other(p)]
      BY <1>0, <3>1, HeadGenuine DEF IInv
    <3>3. Other(p) = "server"
      BY <3>1, <3>2, OtherFacts DEF Genuine, GenuineIn, HandshakeTypes
    <3> QED
      BY <3>3 DEF Peers, Other
  <2>2. CASE awaitingOk
    <3>1. /\ isReconnecting' = [isReconnecting EXCEPT !["client"] = FALSE]
          /\ outgoingAckTimeout' = [outgoingAckTimeout EXCEPT !["client"] =
                RecvAckCheck("client", outgoingMsgId["client"] > outgoingAckId["client"], FALSE)]
          /\ looping' = FALSE /\ awaitingOk' = FALSE /\ UNCHANGED <<sent, outgoingUnackMsg>>
      BY <1>3, <2>1, <2>2 DEF ReceiveControl
    <3>2. ~isReconnecting'["client"]
      BY <1>0, <3>1
    <3>3. Len(outgoingUnackMsg["client"]) > 0 => outgoingMsgId["client"] > outgoingAckId["client"]
      BY <1>0, QueueLength DEF QueueAgrees
    <3>4. Len(outgoingUnackMsg["client"]) > 0 => outgoingAckTimeout'["client"]
      BY <1>0, <3>1, <3>3 DEF RecvAckCheck
    <3> QED
      BY <1>0, <3>1, <3>2, <3>4, Zenon DEF LoopInv, ReconnectingInLoop, SocketIsWatched
  <2>3. CASE ~awaitingOk
    <3>1. UNCHANGED <<isReconnecting, outgoingAckTimeout, looping, awaitingOk, sent, over>>
      BY <1>3, <2>3 DEF ReceiveControl
    <3> QED
      BY <1>0, <3>1, LoopKept
  <2> QED
    BY <2>2, <2>3
<1>4. ASSUME NEW p \in Peers, ReceiveReplayRequest(p) PROVE LoopInv'
  <2>1. /\ outgoingAckTimeout' = [outgoingAckTimeout EXCEPT ![p] =
              RecvAckCheck(p, outgoingMsgId[p] > outgoingAckId[p], isReconnecting[p])]
        /\ UNCHANGED <<isReconnecting, looping, awaitingOk, sent, over>>
    BY <1>4 DEF ReceiveReplayRequest
  <2>2. outgoingAckTimeout["client"] => outgoingAckTimeout'["client"]
    BY <1>0, <2>1 DEF RecvAckCheck
  <2> QED
    BY <1>0, <2>1, <2>2, LoopKept
<1>5. ASSUME NEW p \in Peers,
             \/ SendKeepAlive(p) \/ IncomingAckTimeout(p) \/ ReceiveRegular(p) \/ ReceiveBare(p)
             \/ ReceivePause(p) \/ ReceiveResume(p) \/ ReplayTimePasses(p)
      PROVE  LoopInv'
  <2>1. UNCHANGED <<isReconnecting, outgoingAckTimeout, looping, awaitingOk, sent, over>>
    BY <1>5 DEF SendKeepAlive, IncomingAckTimeout, ReceiveRegular, ReceiveBare, ReceivePause, ReceiveResume,
                ReplayTimePasses
  <2> QED
    BY <1>0, <2>1, LoopKept
<1>6. CASE SocketClose
  <2>1. (looping => looping') /\ UNCHANGED <<isReconnecting, outgoingAckTimeout, awaitingOk, sent, over>>
    BY <1>6 DEF SocketClose
  <2> QED
    BY <1>0, <2>1, LoopKept
<1>7. CASE Reconnect
  <2>1. looping /\ looping' = looping
    BY <1>7 DEF Reconnect
  <2> QED
    BY <1>0, <2>1 DEF LoopInv, ReconnectingInLoop, SocketIsWatched
<1>8. CASE HandshakeTimeout
  <2>1. /\ awaitingOk' = FALSE /\ looping' = (over # "failed")
        /\ UNCHANGED <<isReconnecting, outgoingAckTimeout, sent, over>>
    BY <1>8 DEF HandshakeTimeout
  <2>2. CASE over = "failed"
    BY <1>0, <2>1, <2>2 DEF LoopInv, ReconnectingInLoop, SocketIsWatched
  <2>3. CASE over # "failed"
    BY <1>0, <2>1, <2>3, LoopKept
  <2> QED
    BY <2>2, <2>3
<1>9. ASSUME NEW c \in Conns,
             \/ AnswerHandshake(c) \/ Break(c)
             \/ \E p \in Peers : \E i \in 1..Len(wire[c][p]) : Lose(c, p, i)
      PROVE  LoopInv'
  <2>1. UNCHANGED <<isReconnecting, outgoingAckTimeout, looping, awaitingOk, sent, over>>
    BY <1>9 DEF AnswerHandshake, Break, Lose
  <2> QED
    BY <1>0, <2>1, LoopKept
<1>10. ASSUME NEW c \in Conns, NEW n \in 0..Len(wire[c]["server"]), AcceptReconnection(c, n) PROVE LoopInv'
  <2>1. /\ UNCHANGED <<isReconnecting, looping, awaitingOk, sent, over>>
        /\ outgoingAckTimeout' = [outgoingAckTimeout EXCEPT !["server"] =
              RecvAckCheck("server", outgoingMsgId["server"] > outgoingAckId["server"], FALSE)]
    BY <1>10 DEF AcceptReconnection
  <2>2. outgoingAckTimeout'["client"] = outgoingAckTimeout["client"]
    BY <1>0, <2>1
  <2> QED
    BY <1>0, <2>1, <2>2, LoopKept
<1>11. CASE GiveUp \/ PermanentFailure \/ LoopEnds
  <2>1. /\ over' # "no"
        /\ ~awaitingOk' \/ (awaitingOk' = awaitingOk /\ looping' = looping)
    <3>1. CASE GiveUp
      <4>1. over' \in {"gave up", "failed"} /\ ~awaitingOk'
        BY <3>1, Zenon DEF GiveUp
      <4> QED
        BY <4>1
    <3>2. CASE PermanentFailure
      BY <3>2 DEF PermanentFailure
    <3>3. CASE LoopEnds
      BY <3>3 DEF LoopEnds
    <3> QED
      BY <1>11, <3>1, <3>2, <3>3, Zenon
  <2> QED
    BY <1>0, <2>1 DEF LoopInv, ReconnectingInLoop, SocketIsWatched
<1>12. CASE UNCHANGED vars
  <2>1. UNCHANGED <<isReconnecting, outgoingAckTimeout, looping, awaitingOk, sent, over>>
    BY <1>12 DEF vars
  <2> QED
    BY <1>0, <2>1, LoopKept
<1> QED
  BY <1>1, <1>2, <1>3, <1>4, <1>5, <1>6, <1>7, <1>8, <1>9, <1>10, <1>11, <1>12, Zenon DEF Next

LEMMA LoopAlways == Spec => []LoopInv
<1>1. Init => LoopInv
  <2>1. Init => awaitingOk = FALSE /\ isReconnecting["client"] = FALSE /\ Len(outgoingUnackMsg["client"]) = 0
    BY DEF Init, Peers
  <2> QED
    BY <2>1, InitIInv DEF LoopInv, ReconnectingInLoop, SocketIsWatched
<1> QED
  BY <1>1, LoopStep, PTL DEF Spec

\* While messages of the client are unacknowledged and it is not reconnecting,
\* the timer of _recvAckCheck is armed or the reconnection loop runs.
THEOREM DeadSocketsAreNoticed == Spec => []SocketIsWatched
<1>1. LoopInv => SocketIsWatched
  BY DEF LoopInv
<1> QED
  BY <1>1, LoopAlways, PTL

-----------------------------------------------------------------------------
(* No message is missed *)

NoRegular(s) == \A i \in 1..Len(s) : s[i].type # "Regular"

\* Whoever has received n messages and reads s misses none.
Gapless(s, n) ==
    \A i \in 1..Len(s) : s[i].type = "Regular" =>
        \/ s[i].id <= n + 1
        \/ \E j \in 1..(i - 1) : s[j].type = "Regular" /\ s[j].id = s[i].id - 1

\* He will have received message k then.
Reaches(s, n, k) == k <= n \/ \E i \in 1..Len(s) : s[i].type = "Regular" /\ s[i].id = k

\* The client dials the connections in order, the server's protocol uses those
\* whose handshake is answered, and only a paused writer holds data back.
ConnInv ==
    /\ conn["server"] \in attached /\ attached \subseteq okSent
    /\ \A c \in okSent : c <= conn["client"]
    /\ \A p \in Peers : ~isPaused[p] => held[p] = <<>>

\* The rest is stated of a network w and held data h, for the network between
\* the reading of a message and the writing of what it calls for.
ReadGapless(w, inc) == \A p \in Peers : Gapless(w[conn[p]][p], inc[p])

\* What p has written on its socket and the other end has not read.
Stream(w, h, p) == w[conn[p]][Other(p)] \o h[p]

\* If the connection works, what is on its way continues what was received,
\* up to the last message sent once the protocol is not reconnecting.
WrittenGapless(w, h, inc, rec, snt) ==
    \A p \in Peers : ~Dead(p, conn[p]) =>
        /\ Gapless(Stream(w, h, p), inc[Other(p)])
        /\ ~rec[p] => Reaches(Stream(w, h, p), inc[Other(p)], snt[p])

HandshakeAnswers == {<<>>, <<Plain("Control", 0)>>, <<Plain("Pause", 0), Plain("Control", 0)>>}

\* Until the server's protocol uses a connection, no Regular message is on it,
\* and towards the client only the answer to the handshake.
FreshConnections(w) ==
    \A c \in Conns : c \notin attached =>
        /\ NoRegular(w[c]["server"])
        /\ w[c]["client"] \in HandshakeAnswers
        /\ c \notin okSent => w[c]["client"] = <<>>

\* Until then the client's writer is paused, once the answer is read.
PausedInHandshake(w, rec, pau) ==
    conn["client"] \notin attached /\ (~rec["client"] \/ w[conn["client"]]["client"] = <<Plain("Control", 0)>>)
        => pau["client"]

NothingMissing ==
    /\ ReadGapless(wire, incomingMsgId)
    /\ WrittenGapless(wire, held, incomingMsgId, isReconnecting, sent)
    /\ FreshConnections(wire)
    /\ PausedInHandshake(wire, isReconnecting, isPaused)

GapInv == IInv /\ ConnInv /\ (lost = 0 => NothingMissing)

LEMMA ConcatFacts ==
  ASSUME NEW S, NEW s \in Seq(S), NEW t \in Seq(S)
  PROVE  /\ s \o t \in Seq(S) /\ Len(s) \in Nat /\ Len(t) \in Nat /\ Len(s \o t) = Len(s) + Len(t)
         /\ \A i \in 1..Len(s) : (s \o t)[i] = s[i]
         /\ \A i \in 1..Len(t) : (s \o t)[Len(s) + i] = t[i]
         /\ \A i \in (Len(s) + 1)..(Len(s) + Len(t)) : (s \o t)[i] = t[i - Len(s)]
OBVIOUS

LEMMA TailFacts ==
  ASSUME NEW S, NEW s \in Seq(S), Len(s) > 0
  PROVE  /\ Tail(s) \in Seq(S) /\ Head(s) \in S /\ Head(s) = s[1] /\ Len(s) \in Nat /\ Len(Tail(s)) = Len(s) - 1
         /\ \A i \in 1..(Len(s) - 1) : Tail(s)[i] = s[i + 1]
OBVIOUS

LEMMA TailOfConcat ==
  ASSUME NEW S, NEW s \in Seq(S), NEW t \in Seq(S), Len(s) > 0
  PROVE  Tail(s \o t) = Tail(s) \o t /\ Head(s \o t) = Head(s) /\ Len(s \o t) > 0
OBVIOUS

LEMMA ConcatEmpty ==
  ASSUME NEW S, NEW s \in Seq(S)
  PROVE  s \o <<>> = s /\ <<>> \o s = s
OBVIOUS

LEMMA ConcatAssoc == \A s, t, u \in Seq(Messages) : (s \o t) \o u = s \o (t \o u)
OBVIOUS

LEMMA MessageFields == \A m \in Messages : m.id \in Nat /\ m.ack \in Nat /\ m.type \in MessageTypes
BY DEF Messages

LEMMA NoRegularConcat ==
  ASSUME NEW s \in Seq(Messages), NEW t \in Seq(Messages), NoRegular(s), NoRegular(t)
  PROVE  NoRegular(s \o t)
<1>1. SUFFICES ASSUME NEW i \in 1..Len(s \o t) PROVE (s \o t)[i].type # "Regular"
  BY DEF NoRegular
<1>2. i \in 1..Len(s) \/ (i \in (Len(s) + 1)..(Len(s) + Len(t)) /\ i - Len(s) \in 1..Len(t))
  <2>1. Len(s) \in Nat /\ Len(t) \in Nat /\ Len(s \o t) = Len(s) + Len(t)
    BY ConcatFacts
  <2> QED
    BY <2>1
<1> QED
  BY <1>2, ConcatFacts DEF NoRegular

LEMMA NoRegularGapless ==
  ASSUME NEW s \in Seq(Messages), NoRegular(s), NEW n \in Nat
  PROVE  Gapless(s, n)
BY DEF NoRegular, Gapless

LEMMA GaplessMore ==
  ASSUME NEW s \in Seq(Messages), NEW n \in Nat, NEW n1 \in Nat, n <= n1
  PROVE  /\ Gapless(s, n) => Gapless(s, n1)
         /\ \A k \in Nat : Reaches(s, n, k) => Reaches(s, n1, k)
<1>1. ASSUME Gapless(s, n) PROVE Gapless(s, n1)
  <2>1. SUFFICES ASSUME NEW i \in 1..Len(s), s[i].type = "Regular"
                 PROVE  \/ s[i].id <= n1 + 1
                        \/ \E j \in 1..(i - 1) : s[j].type = "Regular" /\ s[j].id = s[i].id - 1
    BY DEF Gapless
  <2>2. s[i] \in Messages
    OBVIOUS
  <2>3. s[i].id \in Nat
    BY <2>2, MessageFields
  <2> QED
    BY <1>1, <2>1, <2>3 DEF Gapless
<1> QED
  BY <1>1 DEF Reaches

LEMMA GaplessConcat ==
  ASSUME NEW s \in Seq(Messages), NEW t \in Seq(Messages), NEW n \in Nat, Gapless(s, n), Gapless(t, n)
  PROVE  Gapless(s \o t, n)
<1>1. SUFFICES ASSUME NEW i \in 1..Len(s \o t), (s \o t)[i].type = "Regular"
               PROVE  \/ (s \o t)[i].id <= n + 1
                      \/ \E j \in 1..(i - 1) : (s \o t)[j].type = "Regular" /\ (s \o t)[j].id = (s \o t)[i].id - 1
  BY DEF Gapless
<1>2. CASE i \in 1..Len(s)
  <2>1. (s \o t)[i] = s[i] /\ \A j \in 1..(i - 1) : (s \o t)[j] = s[j]
    BY <1>2, ConcatFacts
  <2>2. \/ s[i].id <= n + 1
        \/ \E j \in 1..(i - 1) : s[j].type = "Regular" /\ s[j].id = s[i].id - 1
    BY <1>1, <1>2, <2>1 DEF Gapless
  <2> QED
    BY <2>1, <2>2
<1>3. CASE i \in (Len(s) + 1)..(Len(s) + Len(t))
  <2>1. /\ (s \o t)[i] = t[i - Len(s)] /\ i - Len(s) \in 1..Len(t)
        /\ \A j \in 1..(i - Len(s) - 1) : (s \o t)[Len(s) + j] = t[j] /\ Len(s) + j \in 1..(i - 1)
    BY <1>3, ConcatFacts
  <2>2. \/ t[i - Len(s)].id <= n + 1
        \/ \E j \in 1..(i - Len(s) - 1) : t[j].type = "Regular" /\ t[j].id = t[i - Len(s)].id - 1
    BY <1>1, <2>1 DEF Gapless
  <2> QED
    BY <2>1, <2>2
<1>4. Len(s) \in Nat /\ Len(t) \in Nat /\ Len(s \o t) = Len(s) + Len(t)
  BY ConcatFacts
<1>5. i \in 1..Len(s) \/ i \in (Len(s) + 1)..(Len(s) + Len(t))
  BY <1>4
<1> QED
  BY <1>2, <1>3, <1>5, Zenon

LEMMA GaplessPrefix ==
  ASSUME NEW s \in Seq(Messages), NEW t \in Seq(Messages), NEW n \in Nat, Gapless(s \o t, n)
  PROVE  Gapless(s, n)
<1>1. SUFFICES ASSUME NEW i \in 1..Len(s), s[i].type = "Regular"
               PROVE  \/ s[i].id <= n + 1
                      \/ \E j \in 1..(i - 1) : s[j].type = "Regular" /\ s[j].id = s[i].id - 1
  BY DEF Gapless
<1>2. (s \o t)[i] = s[i] /\ i \in 1..Len(s \o t) /\ \A j \in 1..(i - 1) : (s \o t)[j] = s[j]
  BY ConcatFacts
<1>3. \/ (s \o t)[i].id <= n + 1
      \/ \E j \in 1..(i - 1) : (s \o t)[j].type = "Regular" /\ (s \o t)[j].id = (s \o t)[i].id - 1
  BY <1>1, <1>2 DEF Gapless
<1> QED
  BY <1>2, <1>3

LEMMA ReachesConcat ==
  ASSUME NEW s \in Seq(Messages), NEW t \in Seq(Messages), NEW n \in Nat, NEW k \in Nat,
         Reaches(s, n, k) \/ Reaches(t, n, k)
  PROVE  Reaches(s \o t, n, k)
<1>1. ASSUME NEW i \in 1..Len(s), s[i].type = "Regular", s[i].id = k PROVE Reaches(s \o t, n, k)
  <2>1. (s \o t)[i] = s[i] /\ i \in 1..Len(s \o t)
    BY ConcatFacts
  <2> QED
    BY <1>1, <2>1 DEF Reaches
<1>2. ASSUME NEW i \in 1..Len(t), t[i].type = "Regular", t[i].id = k PROVE Reaches(s \o t, n, k)
  <2>1. (s \o t)[Len(s) + i] = t[i] /\ Len(s) + i \in 1..Len(s \o t)
    BY ConcatFacts
  <2> QED
    BY <1>2, <2>1 DEF Reaches
<1> QED
  BY <1>1, <1>2 DEF Reaches

LEMMA GaplessSuffix ==
  ASSUME NEW s \in Seq(Messages), NEW t \in Seq(Messages), NoRegular(s), NEW n \in Nat
  PROVE  /\ Gapless(s \o t, n) => Gapless(t, n)
         /\ \A k \in Nat : Reaches(s \o t, n, k) => Reaches(t, n, k)
<1>0. /\ Len(s) \in Nat /\ Len(t) \in Nat /\ Len(s \o t) = Len(s) + Len(t)
      /\ \A i \in 1..Len(s) : (s \o t)[i] = s[i] /\ s[i].type # "Regular"
      /\ \A i \in 1..Len(t) : (s \o t)[Len(s) + i] = t[i]
  BY ConcatFacts DEF NoRegular
<1>1. ASSUME NEW j \in 1..(Len(s) + Len(t)), (s \o t)[j].type = "Regular"
      PROVE  \E i \in 1..Len(t) : j = Len(s) + i /\ (s \o t)[j] = t[i]
  <2>1. ~(j \in 1..Len(s))
    BY <1>0, <1>1
  <2>2. j - Len(s) \in 1..Len(t) /\ j = Len(s) + (j - Len(s))
    BY <1>0, <2>1
  <2> QED
    BY <1>0, <2>2
<1>2. ASSUME Gapless(s \o t, n) PROVE Gapless(t, n)
  <2>1. SUFFICES ASSUME NEW i \in 1..Len(t), t[i].type = "Regular"
                 PROVE  \/ t[i].id <= n + 1
                        \/ \E l \in 1..(i - 1) : t[l].type = "Regular" /\ t[l].id = t[i].id - 1
    BY DEF Gapless
  <2>2. Len(s) + i \in 1..Len(s \o t) /\ (s \o t)[Len(s) + i] = t[i]
    BY <1>0
  <2>3. \/ t[i].id <= n + 1
        \/ \E j \in 1..(Len(s) + i - 1) : (s \o t)[j].type = "Regular" /\ (s \o t)[j].id = t[i].id - 1
    BY <1>2, <2>1, <2>2 DEF Gapless
  <2>4. ASSUME NEW j \in 1..(Len(s) + i - 1), (s \o t)[j].type = "Regular", (s \o t)[j].id = t[i].id - 1
        PROVE  \E l \in 1..(i - 1) : t[l].type = "Regular" /\ t[l].id = t[i].id - 1
    <3>1. j \in 1..(Len(s) + Len(t))
      BY <1>0
    <3>2. PICK l \in 1..Len(t) : j = Len(s) + l /\ (s \o t)[j] = t[l]
      BY <1>1, <2>4, <3>1
    <3>3. l \in 1..(i - 1)
      BY <1>0, <3>2
    <3> QED
      BY <2>4, <3>2, <3>3
  <2> QED
    BY <2>3, <2>4
<1>3. ASSUME NEW k \in Nat, Reaches(s \o t, n, k) PROVE Reaches(t, n, k)
  <2>1. k <= n \/ \E j \in 1..(Len(s) + Len(t)) : (s \o t)[j].type = "Regular" /\ (s \o t)[j].id = k
    BY <1>0, <1>3 DEF Reaches
  <2>2. ASSUME NEW j \in 1..(Len(s) + Len(t)), (s \o t)[j].type = "Regular", (s \o t)[j].id = k
        PROVE  \E i \in 1..Len(t) : t[i].type = "Regular" /\ t[i].id = k
    <3>1. PICK i \in 1..Len(t) : (s \o t)[j] = t[i]
      BY <1>1, <2>2
    <3> QED
      BY <2>2, <3>1
  <2> QED
    BY <2>1, <2>2 DEF Reaches
<1> QED
  BY <1>2, <1>3

\* Reading the first message: the others continue what is received then.
LEMMA GaplessTail ==
  ASSUME NEW s \in Seq(Messages), Len(s) > 0, NEW n \in Nat, NEW n1 \in Nat, n <= n1,
         Head(s).type = "Regular" => Head(s).id <= n1, Gapless(s, n)
  PROVE  /\ Gapless(Tail(s), n1)
         /\ \A k \in Nat : Reaches(s, n, k) => Reaches(Tail(s), n1, k)
<1>0. Len(Tail(s)) = Len(s) - 1 /\ \A i \in 1..(Len(s) - 1) : Tail(s)[i] = s[i + 1]
  BY TailFacts
<1>1. \A i \in 1..Len(s) : s[i].id \in Nat
  BY MessageFields
<1>2. Gapless(Tail(s), n1)
  <2>1. SUFFICES ASSUME NEW i \in 1..Len(Tail(s)), Tail(s)[i].type = "Regular"
                 PROVE  \/ Tail(s)[i].id <= n1 + 1
                        \/ \E j \in 1..(i - 1) : Tail(s)[j].type = "Regular" /\ Tail(s)[j].id = Tail(s)[i].id - 1
    BY DEF Gapless
  <2>2. Tail(s)[i] = s[i + 1] /\ i + 1 \in 1..Len(s)
    BY TailFacts
  <2>3. CASE s[i + 1].id <= n + 1
    BY <1>1, <2>2, <2>3
  <2>4. ASSUME NEW j \in 1..i, s[j].type = "Regular", s[j].id = s[i + 1].id - 1
        PROVE  \/ Tail(s)[i].id <= n1 + 1
               \/ \E l \in 1..(i - 1) : Tail(s)[l].type = "Regular" /\ Tail(s)[l].id = Tail(s)[i].id - 1
    <3>1. CASE j = 1
      BY <1>1, <2>2, <2>4, <3>1, TailFacts
    <3>2. CASE j > 1
      <4>1. Tail(s)[j - 1] = s[j] /\ j - 1 \in 1..(i - 1)
        BY <2>2, <3>2, TailFacts
      <4> QED
        BY <2>2, <2>4, <4>1
    <3> QED
      BY <3>1, <3>2
  <2>5. \/ s[i + 1].id <= n + 1
        \/ \E j \in 1..(i + 1 - 1) : s[j].type = "Regular" /\ s[j].id = s[i + 1].id - 1
    BY <2>1, <2>2 DEF Gapless
  <2> QED
    BY <2>3, <2>4, <2>5
<1>3. ASSUME NEW k \in Nat, Reaches(s, n, k) PROVE Reaches(Tail(s), n1, k)
  <2>1. ASSUME NEW i \in 1..Len(s), s[i].type = "Regular", s[i].id = k PROVE Reaches(Tail(s), n1, k)
    <3>1. CASE i = 1
      BY <2>1, <3>1, TailFacts DEF Reaches
    <3>2. CASE i > 1
      <4>1. PICK j \in 1..(Len(s) - 1) : i = j + 1
        <5>1. i - 1 \in 1..(Len(s) - 1) /\ i = (i - 1) + 1
          BY <3>2, TailFacts
        <5> QED
          BY <5>1
      <4>2. Tail(s)[j] = s[j + 1] /\ j \in 1..Len(Tail(s))
        BY <1>0, Zenon
      <4> QED
        BY <2>1, <4>1, <4>2 DEF Reaches
    <3> QED
      BY <3>1, <3>2
  <2>2. CASE k <= n
    BY <2>2 DEF Reaches
  <2>3. k <= n \/ \E i \in 1..Len(s) : s[i].type = "Regular" /\ s[i].id = k
    BY <1>3 DEF Reaches
  <2> QED
    BY <2>1, <2>2, <2>3, Zenon
<1> QED
  BY <1>2, <1>3

\* The unacknowledged messages, written again.
LEMMA NumberedGapless ==
  ASSUME NEW t \in Seq(Messages), NEW low \in Nat, NEW high \in Nat, NEW n \in Nat, Numbered(t, low, high), low <= n
  PROVE  Gapless(t, n) /\ Reaches(t, n, high)
<1>1. Len(t) \in Nat /\ Len(t) = high - low /\ \A i \in 1..Len(t) : t[i].type = "Regular" /\ t[i].id = low + i
  BY DEF Numbered
<1>2. Gapless(t, n)
  <2>1. SUFFICES ASSUME NEW i \in 1..Len(t)
                 PROVE  \/ t[i].id <= n + 1
                        \/ \E j \in 1..(i - 1) : t[j].type = "Regular" /\ t[j].id = t[i].id - 1
    BY DEF Gapless
  <2>2. CASE i = 1
    BY <1>1, <2>2
  <2>3. CASE i > 1
    <3>1. i - 1 \in 1..(i - 1) /\ i - 1 \in 1..Len(t)
      BY <1>1, <2>3
    <3>2. t[i - 1].type = "Regular" /\ t[i - 1].id = t[i].id - 1
      BY <1>1, <3>1
    <3> QED
      BY <3>1, <3>2
  <2> QED
    BY <2>2, <2>3
<1>3. Reaches(t, n, high)
  <2>1. CASE Len(t) = 0
    BY <1>1, <2>1 DEF Reaches
  <2>2. CASE Len(t) > 0
    <3>1. Len(t) \in 1..Len(t) /\ t[Len(t)].type = "Regular" /\ t[Len(t)].id = high
      BY <1>1, <2>2
    <3> QED
      BY <3>1 DEF Reaches
  <2> QED
    BY <1>1, <2>1, <2>2
<1> QED
  BY <1>2, <1>3

\* The next message, written after the last one.
LEMMA GaplessNext ==
  ASSUME NEW s \in Seq(Messages), NEW m \in Messages, NEW n \in Nat, NEW k \in Nat,
         Gapless(s, n), Reaches(s, n, k), m.type = "Regular", m.id = k + 1
  PROVE  Gapless(s \o <<m>>, n) /\ Reaches(s \o <<m>>, n, k + 1)
<1>1. /\ <<m>> \in Seq(Messages) /\ Len(<<m>>) = 1 /\ <<m>>[1] = m
      /\ (s \o <<m>>)[Len(s) + 1] = m /\ Len(s \o <<m>>) = Len(s) + 1 /\ Len(s) \in Nat
      /\ \A i \in 1..Len(s) : (s \o <<m>>)[i] = s[i]
  BY ConcatFacts
<1>2. Gapless(s \o <<m>>, n)
  <2>1. SUFFICES ASSUME NEW i \in 1..(Len(s) + 1), (s \o <<m>>)[i].type = "Regular"
                 PROVE  \/ (s \o <<m>>)[i].id <= n + 1
                        \/ \E j \in 1..(i - 1) : /\ (s \o <<m>>)[j].type = "Regular"
                                                 /\ (s \o <<m>>)[j].id = (s \o <<m>>)[i].id - 1
    BY <1>1 DEF Gapless
  <2>2. CASE i \in 1..Len(s)
    <3>1. \/ s[i].id <= n + 1
          \/ \E j \in 1..(i - 1) : s[j].type = "Regular" /\ s[j].id = s[i].id - 1
      BY <1>1, <2>1, <2>2 DEF Gapless
    <3>2. (s \o <<m>>)[i] = s[i] /\ \A j \in 1..(i - 1) : (s \o <<m>>)[j] = s[j]
      BY <1>1, <2>2
    <3> QED
      BY <3>1, <3>2
  <2>3. CASE i = Len(s) + 1
    <3>1. CASE k <= n
      BY <1>1, <2>3, <3>1
    <3>2. ASSUME NEW j \in 1..Len(s), s[j].type = "Regular", s[j].id = k
          PROVE  \E l \in 1..(i - 1) : /\ (s \o <<m>>)[l].type = "Regular"
                                       /\ (s \o <<m>>)[l].id = (s \o <<m>>)[i].id - 1
      <4>1. (s \o <<m>>)[j] = s[j] /\ j \in 1..(i - 1) /\ (s \o <<m>>)[i].id = k + 1 /\ k = k + 1 - 1
        BY <1>1, <2>3
      <4> QED
        BY <3>2, <4>1
    <3> QED
      BY <3>1, <3>2 DEF Reaches
  <2> QED
    BY <1>1, <2>2, <2>3
<1>3. Reaches(s \o <<m>>, n, k + 1)
  <2>1. Len(s) + 1 \in 1..Len(s \o <<m>>)
    BY <1>1
  <2> QED
    BY <1>1, <2>1 DEF Reaches
<1> QED
  BY <1>2, <1>3

\* Every number in use fits the header: encoding changes nothing.
LEMMA EncodedSame ==
  ASSUME NEW snt \in [Peers -> 0..MaxMsgs], NEW inc \in [Peers -> 0..MaxMsgs], NEW p \in Peers,
         NEW msgs \in Seq(GenuineIn(snt, inc)[p])
  PROVE  Encoded(msgs) = msgs
<1> DEFINE S == GenuineIn(snt, inc)[p]
<1>1. ASSUME NEW m \in S PROVE Encode(m) = m
  <2>1. m \in Messages /\ m.id <= snt[p] /\ m.ack <= inc[p]
    BY <1>1 DEF GenuineIn
  <2>2. m.id \in Nat /\ m.ack \in Nat
    BY <2>1 DEF Messages
  <2>3. m.id < IdSpace /\ m.ack < IdSpace /\ IdSpace \in Nat
    BY <2>1, <2>2, ProtocolBounds
  <2>4. m.id % IdSpace = m.id /\ m.ack % IdSpace = m.ack
    BY <2>2, <2>3, ModSmall, Zenon
  <2> QED
    BY <2>1, <2>4 DEF Encode, Messages
<1> HIDE DEF S
<1>2. msgs \in Seq(S)
  BY DEF S
<1>3. \A i \in 1..Len(msgs) : msgs[i] \in S
  BY <1>2
<1>4. Encoded(msgs) = [i \in 1..Len(msgs) |-> msgs[i]]
  BY <1>1, <1>3 DEF Encoded
<1> QED
  BY <1>2, <1>4

LEMMA ConnFacts ==
  ASSUME NEW p \in Peers, NEW c \in Conns, conn \in [Peers -> Conns],
         NEW w \in [Conns -> [Peers -> Seq(Messages)]], NEW s \in Seq(Messages)
  PROVE  /\ [w EXCEPT ![c][p] = s] \in [Conns -> [Peers -> Seq(Messages)]]
         /\ [w EXCEPT ![c][p] = s][c][p] = s
         /\ \A d \in Conns, q \in Peers : d # c \/ q # p => [w EXCEPT ![c][p] = s][d][q] = w[d][q]
OBVIOUS

\* Reading a message.
LEMMA PoppedFacts ==
  ASSUME NEW p \in Peers, conn \in [Peers -> Conns], wire \in [Conns -> [Peers -> Seq(Messages)]],
         Len(Incoming(p)) > 0
  PROVE  /\ Popped(p) \in [Conns -> [Peers -> Seq(Messages)]]
         /\ Popped(p)[conn[p]][p] = Tail(wire[conn[p]][p])
         /\ \A d \in Conns, q \in Peers : d # conn[p] \/ q # p => Popped(p)[d][q] = wire[d][q]
<1>1. conn[p] \in Conns /\ wire[conn[p]][p] \in Seq(Messages)
  OBVIOUS
<1>2. Tail(wire[conn[p]][p]) \in Seq(Messages)
  BY <1>1, TailFacts DEF Incoming
<1>3. Popped(p) = [wire EXCEPT ![conn[p]][p] = Tail(wire[conn[p]][p])]
  BY <1>1 DEF Popped
<1> QED
  BY <1>1, <1>2, <1>3, ConnFacts

\* Writing messages: they are added to what is on its way, if the other end
\* still reads, and to no other stream.
LEMMA WriteFacts ==
  ASSUME NEW p \in Peers, conn \in [Peers -> Conns], held \in [Peers -> Seq(Messages)],
         NEW w \in [Conns -> [Peers -> Seq(Messages)]], NEW msgs \in Seq(Messages), Encoded(msgs) = msgs,
         ~isPaused[p] => held[p] = <<>>, Write(w, p, msgs)
  PROVE  /\ wire' \in [Conns -> [Peers -> Seq(Messages)]] /\ held' \in [Peers -> Seq(Messages)]
         /\ ~Dead(p, conn[p]) => Stream(wire', held', p) = Stream(w, held, p) \o msgs
         /\ held'[Other(p)] = held[Other(p)]
         /\ ~isPaused[p] => held'[p] = <<>>
         /\ \A d \in Conns, q \in Peers : d # conn[p] \/ q # Other(p) => wire'[d][q] = w[d][q]
         /\ \/ wire' = w
            \/ /\ ~Dead(p, conn[p]) /\ ~isPaused[p]
               /\ wire'[conn[p]][Other(p)] = w[conn[p]][Other(p)] \o msgs
<1>0. conn[p] \in Conns /\ Other(p) \in Peers /\ Other(p) # p /\ held[p] \in Seq(Messages)
      /\ w[conn[p]][Other(p)] \in Seq(Messages)
  BY OtherFacts
<1>1. CASE isPaused[p]
  <2>1. wire' = w /\ held' = [held EXCEPT ![p] = held[p] \o msgs]
    BY <1>1 DEF Write
  <2>2. held[p] \o msgs \in Seq(Messages)
    BY <1>0, ConcatType
  <2>3. held' \in [Peers -> Seq(Messages)] /\ held'[p] = held[p] \o msgs /\ held'[Other(p)] = held[Other(p)]
    BY <1>0, <2>1, <2>2
  <2>4. (w[conn[p]][Other(p)] \o held[p]) \o msgs = w[conn[p]][Other(p)] \o (held[p] \o msgs)
    BY <1>0, ConcatAssoc, Zenon
  <2>5. Stream(wire', held', p) = Stream(w, held, p) \o msgs
    BY <2>1, <2>3, <2>4, Zenon DEF Stream
  <2> QED
    BY <1>1, <2>1, <2>3, <2>5
<1>2. CASE ~isPaused[p] /\ Dead(p, conn[p])
  BY <1>2 DEF Write, Put
<1>3. CASE ~isPaused[p] /\ ~Dead(p, conn[p])
  <2> DEFINE new == w[conn[p]][Other(p)] \o msgs
  <2>1. new \in Seq(Messages)
    BY <1>0, ConcatType
  <2>2. held' = held /\ held[p] = <<>> /\ wire' = [w EXCEPT ![conn[p]][Other(p)] = new]
    BY <1>0, <1>3 DEF Write, Put
  <2> HIDE DEF new
  <2>3. /\ wire' \in [Conns -> [Peers -> Seq(Messages)]]
        /\ wire'[conn[p]][Other(p)] = new
        /\ \A d \in Conns, q \in Peers : d # conn[p] \/ q # Other(p) => wire'[d][q] = w[d][q]
    BY <1>0, <2>1, <2>2, ConnFacts
  <2>4. Stream(wire', held', p) = Stream(w, held, p) \o msgs
    BY <1>0, <2>1, <2>2, <2>3, ConcatEmpty DEF Stream, new
  <2> QED
    BY <1>3, <2>2, <2>3, <2>4 DEF new
<1> QED
  BY <1>1, <1>2, <1>3

\* What the lemmas below use of the types.
NetType ==
    /\ conn \in [Peers -> Conns] /\ wire \in [Conns -> [Peers -> Seq(Messages)]]
    /\ held \in [Peers -> Seq(Messages)]

LEMMA AnswerFacts ==
  /\ Plain("Control", 0) \in Messages /\ Plain("Control", 0).type = "Control"
  /\ Plain("Pause", 0) \in Messages /\ Plain("Pause", 0).type = "Pause"
  /\ Plain("Resume", 0) \in Messages /\ Plain("Resume", 0).type = "Resume"
BY DEF Plain, ProtocolMessage, Messages, MessageTypes

LEMMA AnswerTails ==
  ASSUME NEW s \in HandshakeAnswers, Len(s) > 0
  PROVE  /\ Tail(s) \in HandshakeAnswers
         /\ \/ Head(s).type = "Control" /\ Tail(s) = <<>> /\ s = <<Plain("Control", 0)>>
            \/ Head(s).type = "Pause" /\ Tail(s) = <<Plain("Control", 0)>>
         /\ NoRegular(s)
<1>1. CASE s = <<Plain("Control", 0)>>
  BY <1>1, AnswerFacts DEF HandshakeAnswers, NoRegular
<1>2. CASE s = <<Plain("Pause", 0), Plain("Control", 0)>>
  BY <1>2, AnswerFacts DEF HandshakeAnswers, NoRegular
<1> QED
  BY <1>1, <1>2 DEF HandshakeAnswers

LEMMA AnswersNoRegular ==
  ASSUME NEW s \in HandshakeAnswers
  PROVE  NoRegular(s) /\ s \in Seq(Messages)
<1>1. CASE s = <<>>
  BY <1>1 DEF NoRegular
<1>2. CASE s = <<Plain("Control", 0)>>
  BY <1>2, AnswerFacts DEF NoRegular
<1>3. CASE s = <<Plain("Pause", 0), Plain("Control", 0)>>
  BY <1>3, AnswerFacts DEF NoRegular
<1> QED
  BY <1>1, <1>2, <1>3 DEF HandshakeAnswers

\* p reads its oldest message, after which everybody has received inc1.
LEMMA PopGapless ==
  ASSUME NEW p \in Peers, NetType, Len(Incoming(p)) > 0,
         NEW inc \in [Peers -> Nat], NEW inc1 \in [Peers -> Nat], \A q \in Peers : inc[q] <= inc1[q],
         NEW rec, NEW snt \in [Peers -> Nat],
         Head(Incoming(p)).type = "Regular" => Head(Incoming(p)).id <= inc1[p],
         ReadGapless(wire, inc), WrittenGapless(wire, held, inc, rec, snt)
  PROVE  ReadGapless(Popped(p), inc1) /\ WrittenGapless(Popped(p), held, inc1, rec, snt)
<1>0. conn[p] \in Conns /\ wire[conn[p]][p] \in Seq(Messages) /\ Incoming(p) = wire[conn[p]][p]
      /\ inc[p] \in Nat /\ inc1[p] \in Nat /\ inc[p] <= inc1[p]
  BY DEF NetType, Incoming
<1>1. /\ Popped(p) \in [Conns -> [Peers -> Seq(Messages)]]
      /\ Popped(p)[conn[p]][p] = Tail(wire[conn[p]][p])
      /\ \A d \in Conns, q \in Peers : d # conn[p] \/ q # p => Popped(p)[d][q] = wire[d][q]
  BY PoppedFacts DEF NetType
<1>2. ReadGapless(Popped(p), inc1)
  <2>1. SUFFICES ASSUME NEW q \in Peers PROVE Gapless(Popped(p)[conn[q]][q], inc1[q])
    BY DEF ReadGapless
  <2>2. Gapless(wire[conn[q]][q], inc[q])
    BY DEF ReadGapless
  <2>3. CASE q = p
    <3>1. Gapless(Tail(wire[conn[p]][p]), inc1[p])
      BY <1>0, <2>2, <2>3, GaplessTail
    <3> QED
      BY <1>1, <2>3, <3>1
  <2>4. CASE q # p
    <3>1. conn[q] \in Conns /\ wire[conn[q]][q] \in Seq(Messages) /\ inc[q] \in Nat /\ inc1[q] \in Nat
          /\ inc[q] <= inc1[q] /\ Popped(p)[conn[q]][q] = wire[conn[q]][q]
      BY <1>1, <2>4 DEF NetType
    <3> QED
      BY <2>2, <3>1, GaplessMore
  <2> QED
    BY <2>3, <2>4
<1>3. WrittenGapless(Popped(p), held, inc1, rec, snt)
  <2>1. SUFFICES ASSUME NEW q \in Peers, ~Dead(q, conn[q])
                 PROVE  /\ Gapless(Stream(Popped(p), held, q), inc1[Other(q)])
                        /\ ~rec[q] => Reaches(Stream(Popped(p), held, q), inc1[Other(q)], snt[q])
    BY DEF WrittenGapless
  <2> DEFINE o == Other(q)
             s == wire[conn[q]][o]
             t == Popped(p)[conn[q]][o]
  <2>2. /\ Gapless(s \o held[q], inc[o]) /\ (~rec[q] => Reaches(s \o held[q], inc[o], snt[q]))
        /\ Stream(Popped(p), held, q) = t \o held[q]
    BY <2>1 DEF WrittenGapless, Stream
  <2>3. /\ o \in Peers /\ conn[q] \in Conns /\ s \in Seq(Messages) /\ held[q] \in Seq(Messages)
        /\ inc[o] \in Nat /\ inc1[o] \in Nat /\ inc[o] <= inc1[o] /\ snt[q] \in Nat
    BY OtherFacts DEF NetType
  <2>4. CASE conn[q] = conn[p] /\ o = p
    <3>1. t = Tail(s) /\ s = Incoming(p) /\ Len(s) > 0
      BY <1>0, <1>1, <2>4
    <3> HIDE DEF o, s, t
    <3>2. s \o held[q] \in Seq(Messages)
      BY <2>3, ConcatType
    <3>3. Tail(s \o held[q]) = t \o held[q] /\ Head(s \o held[q]) = Head(s) /\ Len(s \o held[q]) > 0
      BY <2>3, <3>1, TailOfConcat
    <3>4. Head(s \o held[q]).type = "Regular" => Head(s \o held[q]).id <= inc1[o]
      BY <2>4, <3>1, <3>3
    <3>5. /\ Gapless(Tail(s \o held[q]), inc1[o])
          /\ \A k \in Nat : Reaches(s \o held[q], inc[o], k) => Reaches(Tail(s \o held[q]), inc1[o], k)
      BY <2>2, <2>3, <3>2, <3>3, <3>4, GaplessTail
    <3> QED
      BY <2>2, <2>3, <3>3, <3>5 DEF o
  <2>5. CASE ~(conn[q] = conn[p] /\ o = p)
    <3>1. t = s
      BY <1>1, <2>3, <2>5
    <3> HIDE DEF o, s, t
    <3>2. s \o held[q] \in Seq(Messages)
      BY <2>3, ConcatType
    <3>3. /\ Gapless(s \o held[q], inc[o]) => Gapless(s \o held[q], inc1[o])
          /\ \A k \in Nat : Reaches(s \o held[q], inc[o], k) => Reaches(s \o held[q], inc1[o], k)
      BY <2>3, <3>2, GaplessMore
    <3> QED
      BY <2>2, <2>3, <3>1, <3>3 DEF o
  <2> QED
    BY <2>4, <2>5
<1> QED
  BY <1>2, <1>3

LEMMA PopFresh ==
  ASSUME NEW p \in Peers, NetType, Len(Incoming(p)) > 0, FreshConnections(wire), NEW rec, NEW pau,
         PausedInHandshake(wire, rec, pau)
  PROVE  /\ FreshConnections(Popped(p))
         /\ Head(Incoming(p)).type # "Pause" => PausedInHandshake(Popped(p), rec, pau)
         /\ conn["client"] \notin attached /\ p = "client" =>
               \/ Head(Incoming(p)).type = "Control" /\ pau["client"]
               \/ Head(Incoming(p)).type = "Pause"
<1>0. conn[p] \in Conns /\ wire[conn[p]][p] \in Seq(Messages) /\ Incoming(p) = wire[conn[p]][p]
      /\ conn["client"] \in Conns /\ "client" \in Peers /\ "server" \in Peers
  BY DEF NetType, Incoming, Peers
<1>1. /\ Popped(p)[conn[p]][p] = Tail(wire[conn[p]][p])
      /\ \A d \in Conns, q \in Peers : d # conn[p] \/ q # p => Popped(p)[d][q] = wire[d][q]
  BY PoppedFacts DEF NetType
<1>2. ASSUME NEW c \in Conns, c \notin attached
      PROVE  /\ NoRegular(Popped(p)[c]["server"])
             /\ Popped(p)[c]["client"] \in HandshakeAnswers
             /\ c \notin okSent => Popped(p)[c]["client"] = <<>>
  <2>1. /\ NoRegular(wire[c]["server"]) /\ wire[c]["client"] \in HandshakeAnswers
        /\ c \notin okSent => wire[c]["client"] = <<>>
    BY <1>2 DEF FreshConnections
  <2>2. CASE c # conn[p]
    BY <1>0, <1>1, <2>1, <2>2
  <2>3. CASE c = conn[p] /\ p = "client"
    <3>1. Len(wire[c]["client"]) > 0
      BY <1>0, <2>3
    <3>2. Tail(wire[c]["client"]) \in HandshakeAnswers
      BY <2>1, <3>1, AnswerTails
    <3>3. c \in okSent
      BY <2>1, <3>1
    <3> QED
      BY <1>0, <1>1, <2>1, <2>3, <3>2, <3>3
  <2>4. CASE c = conn[p] /\ p = "server"
    <3>1. NoRegular(Tail(wire[c]["server"]))
      BY <1>0, <2>1, <2>4, TailFacts DEF NoRegular
    <3> QED
      BY <1>0, <1>1, <2>1, <2>4, <3>1
  <2> QED
    BY <2>2, <2>3, <2>4 DEF Peers
<1>3. conn["client"] \notin attached /\ p = "client" =>
        \/ Head(Incoming(p)).type = "Control" /\ pau["client"] /\ Popped(p)[conn[p]][p] = <<>>
        \/ Head(Incoming(p)).type = "Pause"
  <2>1. SUFFICES ASSUME conn["client"] \notin attached, p = "client"
                 PROVE  \/ Head(Incoming(p)).type = "Control" /\ pau["client"] /\ Popped(p)[conn[p]][p] = <<>>
                        \/ Head(Incoming(p)).type = "Pause"
    OBVIOUS
  <2>2. Incoming(p) \in HandshakeAnswers
    BY <1>0, <2>1 DEF FreshConnections
  <2>3. \/ Head(Incoming(p)).type = "Control" /\ Tail(Incoming(p)) = <<>> /\ Incoming(p) = <<Plain("Control", 0)>>
        \/ Head(Incoming(p)).type = "Pause"
    BY <2>2, AnswerTails
  <2> QED
    BY <1>0, <1>1, <2>1, <2>3 DEF PausedInHandshake
<1>4. Head(Incoming(p)).type # "Pause" => PausedInHandshake(Popped(p), rec, pau)
  <2>1. CASE p = "client"
    BY <1>0, <1>3, <2>1 DEF PausedInHandshake
  <2>2. CASE p = "server"
    <3>1. Popped(p)[conn["client"]]["client"] = wire[conn["client"]]["client"]
      BY <1>0, <1>1, <2>2
    <3> QED
      BY <3>1, Zenon DEF PausedInHandshake
  <2> QED
    BY <2>1, <2>2 DEF Peers
<1> QED
  BY <1>2, <1>3, <1>4 DEF FreshConnections

\* p writes msgs on the network w.
LEMMA WriteGapless ==
  ASSUME NEW p \in Peers, NetType, ConnInv, NEW w \in [Conns -> [Peers -> Seq(Messages)]],
         NEW msgs \in Seq(Messages), Encoded(msgs) = msgs, Write(w, p, msgs),
         NEW inc \in [Peers -> Nat], NEW rec, NEW rec1, NEW snt, NEW snt1, NEW pau,
         rec1[Other(p)] = rec[Other(p)], snt1[Other(p)] = snt[Other(p)],
         ReadGapless(w, inc), WrittenGapless(w, held, inc, rec, snt), FreshConnections(w),
         NoRegular(msgs) \/ isPaused[p] \/ conn[p] \in attached,
         ~Dead(p, conn[p]) =>
            /\ Gapless(Stream(w, held, p) \o msgs, inc[Other(p)])
            /\ ~rec1[p] => Reaches(Stream(w, held, p) \o msgs, inc[Other(p)], snt1[p])
  PROVE  /\ ReadGapless(wire', inc) /\ WrittenGapless(wire', held', inc, rec1, snt1) /\ FreshConnections(wire')
         /\ PausedInHandshake(w, rec1, pau) => PausedInHandshake(wire', rec1, pau)
         /\ \A q \in Peers : ~isPaused[q] => held'[q] = <<>>
<1>0. /\ conn \in [Peers -> Conns] /\ held \in [Peers -> Seq(Messages)] /\ (~isPaused[p] => held[p] = <<>>)
      /\ Other(p) \in Peers /\ Other(p) # p /\ Other(Other(p)) = p /\ conn[p] \in Conns
      /\ w[conn[p]][Other(p)] \in Seq(Messages) /\ held[p] \in Seq(Messages)
      /\ "client" \in Peers /\ "server" \in Peers
  BY OtherFacts DEF NetType, ConnInv, Peers
<1>1. /\ wire' \in [Conns -> [Peers -> Seq(Messages)]] /\ held' \in [Peers -> Seq(Messages)]
      /\ ~Dead(p, conn[p]) => Stream(wire', held', p) = Stream(w, held, p) \o msgs
      /\ held'[Other(p)] = held[Other(p)]
      /\ ~isPaused[p] => held'[p] = <<>>
      /\ \A d \in Conns, q \in Peers : d # conn[p] \/ q # Other(p) => wire'[d][q] = w[d][q]
      /\ \/ wire' = w
         \/ /\ ~Dead(p, conn[p]) /\ ~isPaused[p]
            /\ wire'[conn[p]][Other(p)] = w[conn[p]][Other(p)] \o msgs
  BY <1>0, WriteFacts
<1>2. ReadGapless(wire', inc)
  <2>1. SUFFICES ASSUME NEW q \in Peers PROVE Gapless(wire'[conn[q]][q], inc[q])
    BY DEF ReadGapless
  <2>2. Gapless(w[conn[q]][q], inc[q]) /\ conn[q] \in Conns /\ inc[q] \in Nat
    BY <1>0 DEF ReadGapless
  <2>3. CASE wire'[conn[q]][q] = w[conn[q]][q]
    BY <2>2, <2>3
  <2>4. CASE wire'[conn[q]][q] # w[conn[q]][q]
    <3>1. conn[q] = conn[p] /\ q = Other(p) /\ ~Dead(p, conn[p])
      BY <1>1, <2>2, <2>4
    <3>2. wire'[conn[p]][q] \in Seq(Messages) /\ held'[p] \in Seq(Messages)
      BY <1>0, <1>1, <3>1
    <3>3. Gapless(wire'[conn[p]][q] \o held'[p], inc[q])
      BY <1>1, <3>1 DEF Stream
    <3> QED
      BY <2>2, <3>1, <3>2, <3>3, GaplessPrefix
  <2> QED
    BY <2>3, <2>4
<1>3. WrittenGapless(wire', held', inc, rec1, snt1)
  <2>1. SUFFICES ASSUME NEW q \in Peers, ~Dead(q, conn[q])
                 PROVE  /\ Gapless(Stream(wire', held', q), inc[Other(q)])
                        /\ ~rec1[q] => Reaches(Stream(wire', held', q), inc[Other(q)], snt1[q])
    BY DEF WrittenGapless
  <2>2. CASE q = p
    BY <1>1, <2>1, <2>2
  <2>3. CASE q = Other(p)
    <3>1. conn[q] \in Conns /\ Other(q) = p /\ p # Other(p) /\ held'[q] = held[q]
      BY <1>0, <1>1, <2>3
    <3>2. wire'[conn[q]][p] = w[conn[q]][p]
      BY <1>1, <3>1, Zenon
    <3>3. Stream(wire', held', q) = Stream(w, held, q)
      BY <3>1, <3>2, Zenon DEF Stream
    <3> QED
      BY <1>0, <2>1, <2>3, <3>3 DEF WrittenGapless
  <2> QED
    BY <2>2, <2>3, OtherFacts
<1>4. ASSUME NEW c \in Conns, c \notin attached PROVE wire'[c]["client"] = w[c]["client"]
  <2>1. CASE p = "client"
    BY <1>0, <1>1, <2>1
  <2>2. CASE p = "server"
    BY <1>0, <1>1, <1>4, <2>2 DEF ConnInv
  <2> QED
    BY <2>1, <2>2 DEF Peers
<1>5. ASSUME NEW c \in Conns, c \notin attached PROVE NoRegular(wire'[c]["server"])
  <2>1. NoRegular(w[c]["server"]) /\ w[c]["server"] \in Seq(Messages)
    BY <1>0, <1>5 DEF FreshConnections
  <2>2. CASE wire'[c]["server"] = w[c]["server"]
    BY <2>1, <2>2
  <2>3. CASE wire'[c]["server"] # w[c]["server"]
    <3>1. c = conn[p] /\ Other(p) = "server" /\ ~isPaused[p] /\ wire'[c]["server"] = w[c]["server"] \o msgs
      BY <1>0, <1>1, <2>3
    <3>2. NoRegular(msgs)
      BY <1>5, <3>1
    <3> QED
      BY <2>1, <3>1, <3>2, NoRegularConcat
  <2> QED
    BY <2>2, <2>3
<1>6. FreshConnections(wire')
  BY <1>4, <1>5 DEF FreshConnections
<1>7. PausedInHandshake(w, rec1, pau) => PausedInHandshake(wire', rec1, pau)
  <2>1. conn["client"] \notin attached => wire'[conn["client"]]["client"] = w[conn["client"]]["client"]
    BY <1>0, <1>4
  <2> QED
    BY <2>1, Zenon DEF PausedInHandshake
<1>8. \A q \in Peers : ~isPaused[q] => held'[q] = <<>>
  BY <1>0, <1>1, OtherFacts DEF ConnInv
<1> QED
  BY <1>2, <1>3, <1>6, <1>7, <1>8

LEMMA GapTypes ==
  ASSUME IInv
  PROVE  /\ NetType
         /\ incomingMsgId \in [Peers -> Nat] /\ sent \in [Peers -> Nat] /\ outgoingAckId \in [Peers -> Nat]
         /\ sent \in [Peers -> 0..MaxMsgs] /\ incomingMsgId \in [Peers -> 0..MaxMsgs]
         /\ isReconnecting \in [Peers -> BOOLEAN] /\ isPaused \in [Peers -> BOOLEAN]
<1>1. /\ sent \in [Peers -> 0..MaxMsgs] /\ incomingMsgId \in [Peers -> 0..MaxMsgs]
      /\ outgoingAckId \in [Peers -> 0..MaxMsgs]
  BY DEF IInv, CoreInv, CoreType
<1>2. incomingMsgId \in [Peers -> Nat] /\ sent \in [Peers -> Nat] /\ outgoingAckId \in [Peers -> Nat]
  BY <1>1, ProtocolBounds
<1>3. NetType
  BY Zenon DEF IInv, NetInv, WireIn, NetType
<1>4. isReconnecting \in [Peers -> BOOLEAN] /\ isPaused \in [Peers -> BOOLEAN]
  BY Zenon DEF IInv, FlagType
<1> QED
  BY <1>1, <1>2, <1>3, <1>4

\* Steps after which the same connections are in use.
LEMMA GapSame ==
  ASSUME GapInv, IInv', UNCHANGED <<conn, okSent, attached>>, broken \subseteq broken',
         \A q \in Peers : ~isPaused'[q] => held'[q] = <<>>,
         lost' = 0 => /\ ReadGapless(wire', incomingMsgId')
                      /\ WrittenGapless(wire', held', incomingMsgId', isReconnecting', sent')
                      /\ FreshConnections(wire')
                      /\ PausedInHandshake(wire', isReconnecting', isPaused')
  PROVE  GapInv'
<1>1. ConnInv'
  BY Zenon DEF GapInv, ConnInv
<1>2. ASSUME lost' = 0 PROVE NothingMissing'
  <2>1. ReadGapless(wire, incomingMsgId)'
    BY <1>2, Zenon DEF ReadGapless
  <2>2. ASSUME NEW q \in Peers, ~Dead(q, conn[q])' PROVE ~Dead(q, conn[q])
    BY <2>2 DEF Dead, Left
  <2>3. WrittenGapless(wire, held, incomingMsgId, isReconnecting, sent)'
    BY <1>2, <2>2, Zenon DEF WrittenGapless, Stream
  <2>4. FreshConnections(wire)' /\ PausedInHandshake(wire, isReconnecting, isPaused)'
    BY <1>2, Zenon DEF FreshConnections, PausedInHandshake
  <2> QED
    BY <2>1, <2>3, <2>4 DEF NothingMissing
<1> QED
  BY <1>1, <1>2 DEF GapInv

\* p writes msgs on the network w.
LEMMA GapWrites ==
  ASSUME GapInv, IInv', NEW p \in Peers, UNCHANGED <<conn, okSent, attached, broken, isPaused, lost>>,
         NEW w \in [Conns -> [Peers -> Seq(Messages)]], NEW msgs \in Seq(Messages), Encoded(msgs) = msgs,
         Write(w, p, msgs),
         isReconnecting'[Other(p)] = isReconnecting[Other(p)], sent'[Other(p)] = sent[Other(p)],
         lost = 0 => /\ ReadGapless(w, incomingMsgId')
                     /\ WrittenGapless(w, held, incomingMsgId', isReconnecting, sent)
                     /\ FreshConnections(w)
                     /\ PausedInHandshake(w, isReconnecting', isPaused)
                     /\ NoRegular(msgs) \/ isPaused[p] \/ conn[p] \in attached
                     /\ ~Dead(p, conn[p]) =>
                           /\ Gapless(Stream(w, held, p) \o msgs, incomingMsgId'[Other(p)])
                           /\ ~isReconnecting'[p] =>
                                 Reaches(Stream(w, held, p) \o msgs, incomingMsgId'[Other(p)], sent'[p])
  PROVE  GapInv'
<1>0. NetType /\ incomingMsgId' \in [Peers -> Nat] /\ ConnInv
  <2>1. incomingMsgId' \in [Peers -> 0..MaxMsgs]
    BY Zenon DEF IInv, CoreInv, CoreType
  <2>2. incomingMsgId' \in [Peers -> Nat]
    BY <2>1, ProtocolBounds
  <2> QED
    BY <2>2, GapTypes DEF GapInv
<1>1. \A q \in Peers : ~isPaused[q] => held'[q] = <<>>
  <2>1. ~isPaused[p] => held[p] = <<>>
    BY <1>0 DEF ConnInv
  <2>2. held'[Other(p)] = held[Other(p)] /\ (~isPaused[p] => held'[p] = <<>>)
    BY <1>0, <2>1, WriteFacts DEF NetType
  <2> QED
    BY <1>0, <2>2, OtherFacts DEF ConnInv
<1>2. ASSUME lost = 0
      PROVE  /\ ReadGapless(wire', incomingMsgId')
             /\ WrittenGapless(wire', held', incomingMsgId', isReconnecting', sent')
             /\ FreshConnections(wire')
             /\ PausedInHandshake(w, isReconnecting', isPaused) => PausedInHandshake(wire', isReconnecting', isPaused)
  BY <1>0, <1>2, WriteGapless, Zenon
<1>3. broken \subseteq broken'
  OBVIOUS
<1>4. PausedInHandshake(wire', isReconnecting', isPaused) => PausedInHandshake(wire', isReconnecting', isPaused')
  BY Zenon DEF PausedInHandshake
<1> QED
  BY <1>1, <1>2, <1>3, <1>4, GapSame

\* The same if nothing that is written is numbered.
LEMMA GapQuiet ==
  ASSUME GapInv, IInv', NEW p \in Peers,
         UNCHANGED <<conn, okSent, attached, broken, isPaused, lost, isReconnecting, sent>>,
         NEW w \in [Conns -> [Peers -> Seq(Messages)]], NEW msgs \in Seq(Messages), Encoded(msgs) = msgs,
         NoRegular(msgs), Write(w, p, msgs),
         lost = 0 => /\ ReadGapless(w, incomingMsgId')
                     /\ WrittenGapless(w, held, incomingMsgId', isReconnecting, sent)
                     /\ FreshConnections(w)
                     /\ PausedInHandshake(w, isReconnecting, isPaused)
  PROVE  GapInv'
<1>0. /\ NetType /\ sent[p] \in Nat /\ incomingMsgId'[Other(p)] \in Nat /\ Stream(w, held, p) \in Seq(Messages)
  <2>1. incomingMsgId' \in [Peers -> 0..MaxMsgs] /\ Other(p) \in Peers
    BY OtherFacts, Zenon DEF IInv, CoreInv, CoreType
  <2>2. incomingMsgId'[Other(p)] \in Nat
    BY <2>1, ProtocolBounds
  <2>3. NetType /\ sent[p] \in Nat
    BY GapTypes DEF GapInv
  <2>4. w[conn[p]][Other(p)] \in Seq(Messages) /\ held[p] \in Seq(Messages)
    BY <2>1, <2>3 DEF NetType
  <2> QED
    BY <2>2, <2>3, <2>4, ConcatType DEF Stream
<1>1. ASSUME lost = 0, ~Dead(p, conn[p])
      PROVE  /\ Gapless(Stream(w, held, p) \o msgs, incomingMsgId'[Other(p)])
             /\ ~isReconnecting[p] => Reaches(Stream(w, held, p) \o msgs, incomingMsgId'[Other(p)], sent[p])
  <2>1. /\ Gapless(Stream(w, held, p), incomingMsgId'[Other(p)])
        /\ ~isReconnecting[p] => Reaches(Stream(w, held, p), incomingMsgId'[Other(p)], sent[p])
    BY <1>1 DEF WrittenGapless
  <2>2. Gapless(msgs, incomingMsgId'[Other(p)])
    BY <1>0, NoRegularGapless
  <2>3. Gapless(Stream(w, held, p) \o msgs, incomingMsgId'[Other(p)])
    BY <1>0, <2>1, <2>2, GaplessConcat
  <2>4. ASSUME ~isReconnecting[p]
        PROVE  Reaches(Stream(w, held, p) \o msgs, incomingMsgId'[Other(p)], sent[p])
    BY <1>0, <2>1, <2>4, ReachesConcat
  <2> QED
    BY <2>3, <2>4
<1>2. /\ isReconnecting'[Other(p)] = isReconnecting[Other(p)] /\ sent'[Other(p)] = sent[Other(p)]
      /\ isReconnecting'[p] = isReconnecting[p] /\ sent'[p] = sent[p]
  OBVIOUS
<1>3. PausedInHandshake(w, isReconnecting, isPaused) => PausedInHandshake(w, isReconnecting', isPaused)
  BY Zenon DEF PausedInHandshake
<1> QED
  BY <1>1, <1>2, <1>3, GapWrites

\* The unacknowledged messages continue what the other end has received.
LEMMA AgainGapless ==
  ASSUME IInv, NEW p \in Peers
  PROVE  /\ outgoingUnackMsg[p] \in Seq(Messages) /\ Encoded(outgoingUnackMsg[p]) = outgoingUnackMsg[p]
         /\ Gapless(outgoingUnackMsg[p], incomingMsgId[Other(p)])
         /\ Reaches(outgoingUnackMsg[p], incomingMsgId[Other(p)], sent[p])
         /\ WrittenAfterReconnection(p) \in Seq(Messages)
         /\ Encoded(WrittenAfterReconnection(p)) = WrittenAfterReconnection(p)
         /\ Gapless(WrittenAfterReconnection(p), incomingMsgId[Other(p)])
         /\ Reaches(WrittenAfterReconnection(p), incomingMsgId[Other(p)], sent[p])
<1> DEFINE q == outgoingUnackMsg[p]
           a == <<Plain("Ack", incomingMsgId[p])>>
           n == incomingMsgId[Other(p)]
<1>1. /\ sent \in [Peers -> 0..MaxMsgs] /\ incomingMsgId \in [Peers -> 0..MaxMsgs] /\ Other(p) \in Peers
      /\ sent[p] \in Nat /\ outgoingAckId[p] \in Nat /\ n \in Nat
  BY GapTypes, OtherFacts
<1>2. q \in Seq(Messages) /\ Numbered(q, outgoingAckId[p], sent[p]) /\ outgoingAckId[p] <= n
  BY DEF IInv, CoreInv, CoreType, QueueIsIntact, CountersAgree
<1>3. q \in Seq(GenuineIn(sent, incomingMsgId)[p])
  BY Zenon DEF IInv, CoreInv, QueuesIn, Genuine
<1>4. Plain("Ack", incomingMsgId[p]) \in GenuineIn(sent, incomingMsgId)[p]
  <2>1. "Ack" \in MessageTypes \ {"Regular"} /\ ~("Ack" \in HandshakeTypes)
        /\ incomingMsgId[p] \in {0, incomingMsgId[p]}
    BY DEF MessageTypes, HandshakeTypes
  <2> QED
    BY <1>1, <2>1, PlainIn
<1>5. Plain("Ack", incomingMsgId[p]) \in Messages
  BY <1>4 DEF GenuineIn
<1>6. a \in Seq(Messages) /\ NoRegular(a) /\ a \in Seq(GenuineIn(sent, incomingMsgId)[p])
  <2>1. a \in Seq(Messages) /\ a \in Seq(GenuineIn(sent, incomingMsgId)[p])
    BY <1>4, <1>5, SingletonType, Zenon
  <2>2. Plain("Ack", incomingMsgId[p]).type = "Ack"
    BY DEF Plain, ProtocolMessage
  <2> QED
    BY <2>1, <2>2 DEF NoRegular
<1>7. WrittenAfterReconnection(p) = a \o q
  BY DEF WrittenAfterReconnection
<1> HIDE DEF q, a, n
<1>8. Gapless(q, n) /\ Reaches(q, n, sent[p])
  BY <1>1, <1>2, NumberedGapless
<1>9. a \o q \in Seq(Messages) /\ a \o q \in Seq(GenuineIn(sent, incomingMsgId)[p])
  BY <1>2, <1>3, <1>6, ConcatType
<1>10. Gapless(a, n)
  BY <1>1, <1>6, NoRegularGapless
<1>11. Gapless(a \o q, n) /\ Reaches(a \o q, n, sent[p])
  BY <1>1, <1>2, <1>6, <1>8, <1>10, GaplessConcat, ReachesConcat
<1>12. Encoded(q) = q /\ Encoded(a \o q) = a \o q
  BY <1>1, <1>3, <1>9, EncodedSame
<1> QED
  BY <1>2, <1>7, <1>8, <1>9, <1>11, <1>12 DEF q, n

\* p writes its unacknowledged messages again.
LEMMA GapAgain ==
  ASSUME GapInv, IInv', NEW p \in Peers,
         UNCHANGED <<conn, okSent, attached, broken, isPaused, lost, sent, incomingMsgId>>,
         NEW w \in [Conns -> [Peers -> Seq(Messages)]],
         NEW msgs \in {outgoingUnackMsg[p], WrittenAfterReconnection(p)}, Write(w, p, msgs),
         isReconnecting'[Other(p)] = isReconnecting[Other(p)],
         lost = 0 => /\ ReadGapless(w, incomingMsgId)
                     /\ WrittenGapless(w, held, incomingMsgId, isReconnecting, sent)
                     /\ FreshConnections(w)
                     /\ PausedInHandshake(w, isReconnecting', isPaused)
                     /\ isPaused[p] \/ conn[p] \in attached
  PROVE  GapInv'
<1>0. /\ msgs \in Seq(Messages) /\ Encoded(msgs) = msgs
      /\ Gapless(msgs, incomingMsgId[Other(p)]) /\ Reaches(msgs, incomingMsgId[Other(p)], sent[p])
  BY AgainGapless DEF GapInv
<1>1. /\ NetType /\ sent[p] \in Nat /\ incomingMsgId[Other(p)] \in Nat /\ Stream(w, held, p) \in Seq(Messages)
  <2>1. NetType /\ sent[p] \in Nat /\ incomingMsgId[Other(p)] \in Nat /\ Other(p) \in Peers
    BY GapTypes, OtherFacts DEF GapInv
  <2>2. w[conn[p]][Other(p)] \in Seq(Messages) /\ held[p] \in Seq(Messages)
    BY <2>1 DEF NetType
  <2> QED
    BY <2>1, <2>2, ConcatType DEF Stream
<1>2. ASSUME lost = 0, ~Dead(p, conn[p])
      PROVE  /\ Gapless(Stream(w, held, p) \o msgs, incomingMsgId[Other(p)])
             /\ Reaches(Stream(w, held, p) \o msgs, incomingMsgId[Other(p)], sent[p])
  <2>1. WrittenGapless(w, held, incomingMsgId, isReconnecting, sent)
    BY <1>2, Zenon
  <2>2. Gapless(Stream(w, held, p), incomingMsgId[Other(p)])
    BY <1>2, <2>1 DEF WrittenGapless
  <2> QED
    BY <1>0, <1>1, <2>2, GaplessConcat, ReachesConcat
<1>3. incomingMsgId' = incomingMsgId /\ sent' = sent
  OBVIOUS
<1> QED
  BY <1>0, <1>2, <1>3, GapWrites

\* Plain messages, as p writes them.
LEMMA PlainWritten ==
  ASSUME IInv, NEW p \in Peers, NEW type \in {"Ack", "KeepAlive", "ReplayRequest"}, NEW ack \in {0, incomingMsgId[p]}
  PROVE  /\ <<Plain(type, ack)>> \in Seq(Messages) /\ Encoded(<<Plain(type, ack)>>) = <<Plain(type, ack)>>
         /\ NoRegular(<<Plain(type, ack)>>)
<1>1. /\ sent \in [Peers -> 0..MaxMsgs] /\ incomingMsgId \in [Peers -> 0..MaxMsgs]
      /\ type \in MessageTypes \ {"Regular"} /\ ~(type \in HandshakeTypes)
  BY GapTypes DEF MessageTypes, HandshakeTypes
<1>2. Plain(type, ack) \in GenuineIn(sent, incomingMsgId)[p]
  BY <1>1, PlainIn
<1>3. Plain(type, ack) \in Messages
  BY <1>2 DEF GenuineIn
<1>4. <<Plain(type, ack)>> \in Seq(Messages) /\ <<Plain(type, ack)>> \in Seq(GenuineIn(sent, incomingMsgId)[p])
  BY <1>2, <1>3, SingletonType, Zenon
<1>5. Encoded(<<Plain(type, ack)>>) = <<Plain(type, ack)>>
  BY <1>1, <1>4, EncodedSame
<1>6. Plain(type, ack).type = type
  BY DEF Plain, ProtocolMessage
<1> QED
  BY <1>4, <1>5, <1>6 DEF NoRegular

LEMMA NothingWritten ==
  <<>> \in Seq(Messages) /\ Encoded(<<>>) = <<>> /\ NoRegular(<<>>)
BY DEF Encoded, NoRegular

LEMMA SendGap ==
  ASSUME GapInv, IInv', NEW p \in Peers, Send(p)
  PROVE  GapInv'
<1> USE DEF protocol, writer, network, loop, trouble, history
<1> DEFINE msg == ProtocolMessage("Regular", outgoingMsgId[p] + 1, incomingMsgId[p], sent[p] + 1)
<1>1. /\ UNCHANGED <<conn, okSent, attached, broken, isPaused, lost, isReconnecting, incomingMsgId>>
      /\ sent' = [sent EXCEPT ![p] = @ + 1]
      /\ IF isReconnecting[p] THEN UNCHANGED <<wire, held>> ELSE Write(wire, p, <<msg>>)
  BY DEF Send
<1>2. /\ NetType /\ IInv /\ ConnInv /\ Other(p) \in Peers /\ Other(p) # p
      /\ sent \in [Peers -> Nat] /\ incomingMsgId \in [Peers -> Nat] /\ outgoingMsgId[p] = sent[p]
  BY GapTypes, OtherFacts DEF GapInv, IInv, CoreInv, CountersAgree
<1>3. sent'[p] = sent[p] + 1 /\ sent'[Other(p)] = sent[Other(p)]
  BY <1>1, <1>2
<1>4. CASE isReconnecting[p]
  <2>1. UNCHANGED <<wire, held>>
    BY <1>1, <1>4
  <2>2. lost = 0 => WrittenGapless(wire, held, incomingMsgId, isReconnecting, sent')
    <3>1. SUFFICES ASSUME lost = 0, NEW q \in Peers, ~Dead(q, conn[q])
                   PROVE  /\ Gapless(Stream(wire, held, q), incomingMsgId[Other(q)])
                          /\ ~isReconnecting[q] => Reaches(Stream(wire, held, q), incomingMsgId[Other(q)], sent'[q])
      BY DEF WrittenGapless
    <3>2. /\ Gapless(Stream(wire, held, q), incomingMsgId[Other(q)])
          /\ ~isReconnecting[q] => Reaches(Stream(wire, held, q), incomingMsgId[Other(q)], sent[q])
      BY <3>1 DEF GapInv, NothingMissing, WrittenGapless
    <3>3. ~isReconnecting[q] => sent'[q] = sent[q]
      BY <1>3, <1>4, OtherFacts
    <3> QED
      BY <3>2, <3>3
  <2>3. lost = 0 => /\ ReadGapless(wire, incomingMsgId) /\ FreshConnections(wire)
                    /\ PausedInHandshake(wire, isReconnecting, isPaused)
    BY DEF GapInv, NothingMissing
  <2>4. \A q \in Peers : ~isPaused[q] => held[q] = <<>>
    BY <1>2 DEF ConnInv
  <2>5. /\ wire' = wire /\ held' = held /\ incomingMsgId' = incomingMsgId /\ isReconnecting' = isReconnecting
        /\ isPaused' = isPaused /\ lost' = lost /\ broken \subseteq broken'
    BY <1>1, <2>1
  <2>6. lost' = 0 => /\ ReadGapless(wire', incomingMsgId')
                     /\ WrittenGapless(wire', held', incomingMsgId', isReconnecting', sent')
                     /\ FreshConnections(wire')
                     /\ PausedInHandshake(wire', isReconnecting', isPaused')
    BY <2>2, <2>3, <2>5
  <2>7. \A q \in Peers : ~isPaused'[q] => held'[q] = <<>>
    BY <2>4, <2>5
  <2> QED
    BY <1>1, <2>5, <2>6, <2>7, GapSame
<1>5. CASE ~isReconnecting[p]
  <2>1. Write(wire, p, <<msg>>)
    BY <1>1, <1>5
  <2>2. msg \in GenuineIn(sent', incomingMsgId')[p] /\ msg.type = "Regular" /\ msg.id = sent[p] + 1
    <3>1. msg \in Genuine'[p]
      BY <1>2, SendCore, Zenon DEF IInv
    <3> QED
      BY <1>2, <3>1 DEF Genuine, ProtocolMessage
  <2> HIDE DEF msg
  <2>3. msg \in Messages
    BY <2>2 DEF GenuineIn
  <2>4. <<msg>> \in Seq(Messages) /\ <<msg>> \in Seq(GenuineIn(sent', incomingMsgId')[p])
    BY <2>2, <2>3, SingletonType, Zenon
  <2>5. Encoded(<<msg>>) = <<msg>>
    <3>1. sent' \in [Peers -> 0..MaxMsgs] /\ incomingMsgId' \in [Peers -> 0..MaxMsgs]
      BY Zenon DEF IInv, CoreInv, CoreType
    <3> QED
      BY <2>4, <3>1, EncodedSame
  <2>6. ASSUME lost = 0, ~Dead(p, conn[p])
        PROVE  /\ Gapless(Stream(wire, held, p) \o <<msg>>, incomingMsgId[Other(p)])
               /\ Reaches(Stream(wire, held, p) \o <<msg>>, incomingMsgId[Other(p)], sent[p] + 1)
    <3>1. /\ Gapless(Stream(wire, held, p), incomingMsgId[Other(p)])
          /\ Reaches(Stream(wire, held, p), incomingMsgId[Other(p)], sent[p])
      BY <1>5, <2>6 DEF GapInv, NothingMissing, WrittenGapless
    <3>2. Stream(wire, held, p) \in Seq(Messages)
      <4>1. wire[conn[p]][Other(p)] \in Seq(Messages) /\ held[p] \in Seq(Messages)
        BY <1>2 DEF NetType
      <4> QED
        BY <4>1, ConcatType DEF Stream
    <3> QED
      BY <1>2, <2>2, <2>3, <3>1, <3>2, GaplessNext
  <2>7. ASSUME lost = 0 PROVE isPaused[p] \/ conn[p] \in attached
    BY <1>2, <1>5, <2>7 DEF GapInv, NothingMissing, PausedInHandshake, ConnInv, Peers
  <2>8. lost = 0 => /\ ReadGapless(wire, incomingMsgId')
                    /\ WrittenGapless(wire, held, incomingMsgId', isReconnecting, sent)
                    /\ FreshConnections(wire)
                    /\ PausedInHandshake(wire, isReconnecting', isPaused)
    BY <1>1 DEF GapInv, NothingMissing
  <2>9. /\ wire \in [Conns -> [Peers -> Seq(Messages)]]
        /\ isReconnecting'[Other(p)] = isReconnecting[Other(p)] /\ sent'[Other(p)] = sent[Other(p)]
    BY <1>1, <1>2, <1>3 DEF NetType
  <2>10. lost = 0 /\ ~Dead(p, conn[p]) =>
           /\ Gapless(Stream(wire, held, p) \o <<msg>>, incomingMsgId'[Other(p)])
           /\ ~isReconnecting'[p] => Reaches(Stream(wire, held, p) \o <<msg>>, incomingMsgId'[Other(p)], sent'[p])
    BY <1>1, <1>3, <2>6
  <2> QED
    BY <1>1, <2>1, <2>4, <2>5, <2>7, <2>8, <2>9, <2>10, GapWrites
<1> QED
  BY <1>4, <1>5

\* p reads a message; nothing is written and nothing but an acknowledgement
\* is taken from it.
LEMMA PopGap ==
  ASSUME GapInv, lost = 0, NEW p \in Peers, Len(Incoming(p)) > 0, Head(Incoming(p)).type # "Regular"
  PROVE  /\ ReadGapless(Popped(p), incomingMsgId)
         /\ WrittenGapless(Popped(p), held, incomingMsgId, isReconnecting, sent)
         /\ FreshConnections(Popped(p))
         /\ Head(Incoming(p)).type # "Pause" => PausedInHandshake(Popped(p), isReconnecting, isPaused)
         /\ conn["client"] \notin attached /\ p = "client" =>
               \/ Head(Incoming(p)).type = "Control" /\ isPaused["client"]
               \/ Head(Incoming(p)).type = "Pause"
<1>1. NetType /\ incomingMsgId \in [Peers -> Nat] /\ sent \in [Peers -> Nat]
  BY GapTypes DEF GapInv
<1>2. \A q \in Peers : incomingMsgId[q] <= incomingMsgId[q]
  BY <1>1
<1>3. NothingMissing
  BY DEF GapInv
<1>4. /\ ReadGapless(Popped(p), incomingMsgId)
      /\ WrittenGapless(Popped(p), held, incomingMsgId, isReconnecting, sent)
  BY <1>1, <1>2, <1>3, PopGapless DEF NothingMissing
<1> QED
  BY <1>1, <1>3, <1>4, PopFresh DEF NothingMissing

\* The messages that are read after a Regular one.
LEMMA RegularGap ==
  ASSUME GapInv, IInv', NEW p \in Peers, ReceiveRegular(p)
  PROVE  GapInv'
<1> USE DEF protocol, writer, network, loop, trouble, history
<1> DEFINE m == Head(Incoming(p))
<1>1. /\ UNCHANGED <<conn, okSent, attached, broken, isPaused, lost, isReconnecting, sent>>
      /\ Len(Incoming(p)) > 0 /\ m.type = "Regular"
  BY DEF ReceiveRegular
<1>2. /\ NetType /\ IInv /\ incomingMsgId \in [Peers -> Nat] /\ sent \in [Peers -> Nat]
  BY GapTypes DEF GapInv
<1>3. m \in Messages
  <2>1. Incoming(p) \in Seq(Messages)
    BY <1>2 DEF NetType, Incoming
  <2> QED
    BY <1>1, <2>1, TailFacts
<1>4. m.id \in Nat /\ incomingMsgId[p] \in Nat
  BY <1>2, <1>3, MessageFields
<1>5. Popped(p) \in [Conns -> [Peers -> Seq(Messages)]]
  BY <1>1, <1>2, PoppedFacts DEF NetType
<1> HIDE DEF m
<1>6. \E msgs \in {<<>>, <<Plain("ReplayRequest", 0)>>} : Write(Popped(p), p, msgs)
  BY Zenon DEF ReceiveRegular, AcceptRegular, RequestReplay, IgnoreRegular
<1>7. \/ m.id = incomingMsgId[p] + 1 /\ incomingMsgId' = [incomingMsgId EXCEPT ![p] = m.id]
      \/ m.id > incomingMsgId[p] + 1 /\ incomingMsgId' = incomingMsgId
      \/ m.id <= incomingMsgId[p] /\ incomingMsgId' = incomingMsgId
  BY DEF ReceiveRegular, AcceptRegular, RequestReplay, IgnoreRegular, m
<1>8. ASSUME lost = 0 PROVE m.id <= incomingMsgId[p] + 1
  <2>1. Gapless(Incoming(p), incomingMsgId[p])
    BY <1>8 DEF GapInv, NothingMissing, ReadGapless, Incoming
  <2>2. Incoming(p) \in Seq(Messages) /\ m = Incoming(p)[1] /\ 1 \in 1..Len(Incoming(p))
    BY <1>1, <1>2 DEF NetType, Incoming, m
  <2> QED
    BY <1>1, <2>1, <2>2 DEF Gapless
<1>9. incomingMsgId' \in [Peers -> Nat] /\ \A q \in Peers : incomingMsgId[q] <= incomingMsgId'[q]
  BY <1>2, <1>4, <1>7
<1>10. ASSUME lost = 0
       PROVE  /\ ReadGapless(Popped(p), incomingMsgId')
              /\ WrittenGapless(Popped(p), held, incomingMsgId', isReconnecting, sent)
              /\ FreshConnections(Popped(p))
              /\ PausedInHandshake(Popped(p), isReconnecting, isPaused)
  <2>1. m.id <= incomingMsgId'[p]
    BY <1>2, <1>4, <1>7, <1>8, <1>10
  <2>2. NothingMissing
    BY <1>10 DEF GapInv
  <2>3. /\ ReadGapless(Popped(p), incomingMsgId')
        /\ WrittenGapless(Popped(p), held, incomingMsgId', isReconnecting, sent)
    BY <1>1, <1>2, <1>9, <2>1, <2>2, PopGapless DEF NothingMissing, m
  <2>4. FreshConnections(Popped(p)) /\ PausedInHandshake(Popped(p), isReconnecting, isPaused)
    BY <1>1, <1>2, <2>2, PopFresh DEF NothingMissing, m
  <2> QED
    BY <2>3, <2>4
<1>11. ASSUME NEW msgs \in {<<>>, <<Plain("ReplayRequest", 0)>>}
       PROVE  msgs \in Seq(Messages) /\ Encoded(msgs) = msgs /\ NoRegular(msgs)
  BY <1>2, PlainWritten, NothingWritten
<1> QED
  BY <1>1, <1>5, <1>6, <1>10, <1>11, GapQuiet

\* Steps that leave the messages alone.
LEMMA IdleGap ==
  ASSUME GapInv, IInv', broken \subseteq broken',
         UNCHANGED <<wire, held, conn, okSent, attached, isPaused, lost, incomingMsgId, isReconnecting, sent>>
  PROVE  GapInv'
<1>1. \A q \in Peers : ~isPaused'[q] => held'[q] = <<>>
  BY DEF GapInv, ConnInv
<1>2. lost' = 0 => /\ ReadGapless(wire', incomingMsgId')
                   /\ WrittenGapless(wire', held', incomingMsgId', isReconnecting', sent')
                   /\ FreshConnections(wire')
                   /\ PausedInHandshake(wire', isReconnecting', isPaused')
  BY Zenon DEF GapInv, NothingMissing
<1> QED
  BY <1>1, <1>2, GapSame

\* Handshake messages are read by the client only.
LEMMA HandshakeReader ==
  ASSUME IInv, NEW p \in Peers, Len(Incoming(p)) > 0, Head(Incoming(p)).type \in HandshakeTypes
  PROVE  p = "client"
<1>1. Head(Incoming(p)) \in Genuine[Other(p)] /\ Other(p) \in Peers
  BY HeadGenuine, OtherFacts DEF IInv
<1>2. Other(p) = "server"
  BY <1>1 DEF Genuine, GenuineIn
<1> QED
  BY <1>2 DEF Peers, Other

LEMMA BareGap ==
  ASSUME GapInv, IInv', NEW p \in Peers, ReceiveBare(p)
  PROVE  GapInv'
<1> USE DEF protocol, writer, network, loop, trouble, history
<1>1. /\ UNCHANGED <<conn, okSent, attached, broken, held, isPaused, lost, isReconnecting, sent, incomingMsgId>>
      /\ Len(Incoming(p)) > 0 /\ Head(Incoming(p)).type \in {"Ack", "KeepAlive"} /\ wire' = Popped(p)
  BY DEF ReceiveBare
<1>2. \A q \in Peers : ~isPaused'[q] => held'[q] = <<>>
  BY <1>1 DEF GapInv, ConnInv
<1>3. lost = 0 => /\ ReadGapless(Popped(p), incomingMsgId)
                  /\ WrittenGapless(Popped(p), held, incomingMsgId, isReconnecting, sent)
                  /\ FreshConnections(Popped(p)) /\ PausedInHandshake(Popped(p), isReconnecting, isPaused)
  BY <1>1, PopGap
<1>4. broken \subseteq broken'
  BY <1>1
<1>5. lost' = 0 => /\ ReadGapless(wire', incomingMsgId')
                   /\ WrittenGapless(wire', held', incomingMsgId', isReconnecting', sent')
                   /\ FreshConnections(wire')
                   /\ PausedInHandshake(wire', isReconnecting', isPaused')
  BY <1>1, <1>3
<1> QED
  BY <1>1, <1>2, <1>4, <1>5, GapSame

LEMMA PauseGap ==
  ASSUME GapInv, IInv', NEW p \in Peers, ReceivePause(p)
  PROVE  GapInv'
<1> USE DEF protocol, writer, network, loop, trouble, history
<1>1. /\ UNCHANGED <<conn, okSent, attached, broken, held, lost, isReconnecting, sent, incomingMsgId>>
      /\ Len(Incoming(p)) > 0 /\ Head(Incoming(p)).type = "Pause" /\ wire' = Popped(p)
      /\ isPaused' = [isPaused EXCEPT ![p] = TRUE]
  BY DEF ReceivePause
<1>2. p = "client" /\ isPaused \in [Peers -> BOOLEAN]
  BY <1>1, HandshakeReader, GapTypes DEF GapInv, HandshakeTypes
<1>3. isPaused'["client"] /\ \A q \in Peers : isPaused[q] => isPaused'[q]
  BY <1>1, <1>2
<1>4. \A q \in Peers : ~isPaused'[q] => held'[q] = <<>>
  BY <1>1, <1>3 DEF GapInv, ConnInv
<1>5. lost = 0 => /\ ReadGapless(Popped(p), incomingMsgId)
                  /\ WrittenGapless(Popped(p), held, incomingMsgId, isReconnecting, sent)
                  /\ FreshConnections(Popped(p))
  BY <1>1, PopGap
<1>6. PausedInHandshake(wire', isReconnecting', isPaused') /\ broken \subseteq broken'
  BY <1>1, <1>3 DEF PausedInHandshake
<1>7. lost' = 0 => /\ ReadGapless(wire', incomingMsgId')
                   /\ WrittenGapless(wire', held', incomingMsgId', isReconnecting', sent')
                   /\ FreshConnections(wire')
                   /\ PausedInHandshake(wire', isReconnecting', isPaused')
  BY <1>1, <1>5, <1>6
<1> QED
  BY <1>1, <1>4, <1>6, <1>7, GapSame

\* What a writer has held back goes out when the server's end is in use.
LEMMA ResumeGap ==
  ASSUME GapInv, IInv', NEW p \in Peers, ReceiveResume(p)
  PROVE  GapInv'
<1> USE DEF protocol, writer, network, loop, trouble, history
<1> DEFINE w == Popped(p)
<1>1. /\ UNCHANGED <<conn, okSent, attached, broken, lost, isReconnecting, sent, incomingMsgId>>
      /\ Len(Incoming(p)) > 0 /\ Head(Incoming(p)).type = "Resume" /\ wire' = Put(w, p, held[p])
      /\ isPaused' = [isPaused EXCEPT ![p] = FALSE] /\ held' = [held EXCEPT ![p] = <<>>]
  BY DEF ReceiveResume
<1>2. /\ p = "client" /\ isPaused \in [Peers -> BOOLEAN] /\ NetType /\ ConnInv
      /\ Other(p) \in Peers /\ Other(p) # p /\ Other(Other(p)) = p /\ conn[p] \in Conns
      /\ incomingMsgId \in [Peers -> Nat]
  BY <1>1, HandshakeReader, GapTypes, OtherFacts DEF GapInv, HandshakeTypes, NetType
<1>3. /\ held[p] \in Seq(Messages) /\ held'[p] = <<>> /\ held'[Other(p)] = held[Other(p)]
      /\ isPaused'[Other(p)] = isPaused[Other(p)]
  BY <1>1, <1>2 DEF NetType
<1>4. \A q \in Peers : ~isPaused'[q] => held'[q] = <<>>
  BY <1>2, <1>3, OtherFacts DEF ConnInv
<1>5. w \in [Conns -> [Peers -> Seq(Messages)]]
  BY <1>1, <1>2, PoppedFacts DEF NetType
<1>6. lost = 0 => /\ ReadGapless(w, incomingMsgId)
                  /\ WrittenGapless(w, held, incomingMsgId, isReconnecting, sent)
                  /\ FreshConnections(w) /\ conn["client"] \in attached
  BY <1>1, <1>2, PopGap
<1> HIDE DEF w
<1>7. /\ w[conn[p]][Other(p)] \in Seq(Messages)
      /\ \A d \in Conns, q \in Peers : d # conn[p] \/ q # Other(p) => wire'[d][q] = w[d][q]
      /\ Dead(p, conn[p]) => wire' = w
      /\ ~Dead(p, conn[p]) => wire'[conn[p]][Other(p)] = w[conn[p]][Other(p)] \o held[p]
  <2>1. w[conn[p]][Other(p)] \in Seq(Messages)
    BY <1>2, <1>5
  <2>2. CASE Dead(p, conn[p])
    BY <1>1, <2>1, <2>2 DEF Put
  <2>3. CASE ~Dead(p, conn[p])
    <3>1. w[conn[p]][Other(p)] \o held[p] \in Seq(Messages)
      BY <1>3, <2>1, ConcatType
    <3>2. wire' = [w EXCEPT ![conn[p]][Other(p)] = w[conn[p]][Other(p)] \o held[p]]
      BY <1>1, <1>2, <1>5, <2>3 DEF Put
    <3> QED
      BY <1>2, <1>5, <2>1, <2>3, <3>1, <3>2, ConnFacts DEF NetType
  <2> QED
    BY <2>2, <2>3
<1>8. ASSUME lost = 0
      PROVE  /\ ReadGapless(wire', incomingMsgId) /\ WrittenGapless(wire', held', incomingMsgId, isReconnecting, sent)
             /\ FreshConnections(wire')
  <2>1. ASSUME ~Dead(p, conn[p]) PROVE wire'[conn[p]][Other(p)] = Stream(w, held, p)
    BY <1>7, <2>1 DEF Stream
  <2>2. ASSUME ~Dead(p, conn[p])
        PROVE  /\ Gapless(wire'[conn[p]][Other(p)], incomingMsgId[Other(p)])
               /\ ~isReconnecting[p] => Reaches(wire'[conn[p]][Other(p)], incomingMsgId[Other(p)], sent[p])
    BY <1>6, <1>8, <2>1, <2>2 DEF WrittenGapless
  <2>3. ASSUME NEW q \in Peers PROVE Gapless(wire'[conn[q]][q], incomingMsgId[q])
    <3>1. Gapless(w[conn[q]][q], incomingMsgId[q]) /\ conn[q] \in Conns
      BY <1>2, <1>6, <1>8 DEF ReadGapless, NetType
    <3>2. CASE wire'[conn[q]][q] = w[conn[q]][q]
      BY <3>1, <3>2
    <3>3. CASE wire'[conn[q]][q] # w[conn[q]][q]
      <4>1. conn[q] = conn[p] /\ q = Other(p) /\ ~Dead(p, conn[p])
        BY <1>7, <3>1, <3>3
      <4> QED
        BY <2>2, <4>1
    <3> QED
      BY <3>2, <3>3
  <2>4. ASSUME NEW q \in Peers, ~Dead(q, conn[q])
        PROVE  /\ Gapless(Stream(wire', held', q), incomingMsgId[Other(q)])
               /\ ~isReconnecting[q] => Reaches(Stream(wire', held', q), incomingMsgId[Other(q)], sent[q])
    <3>1. CASE q = p
      <4>1. Stream(wire', held', p) = wire'[conn[p]][Other(p)] \o <<>> /\ ~Dead(p, conn[p])
        BY <1>3, <2>4, <3>1 DEF Stream
      <4>2. wire'[conn[p]][Other(p)] \in Seq(Messages)
        BY <1>3, <1>7, <4>1, ConcatType
      <4>3. Stream(wire', held', p) = wire'[conn[p]][Other(p)]
        BY <4>1, <4>2, ConcatEmpty
      <4> QED
        BY <2>2, <3>1, <4>1, <4>3
    <3>2. CASE q = Other(p)
      <4>1. conn[q] \in Conns /\ Other(q) = p /\ held'[q] = held[q]
        BY <1>2, <1>3, <3>2 DEF NetType
      <4>2. wire'[conn[q]][p] = w[conn[q]][p]
        BY <1>2, <1>7, <4>1
      <4>3. Stream(wire', held', q) = Stream(w, held, q)
        BY <4>1, <4>2, Zenon DEF Stream
      <4> QED
        BY <1>6, <1>8, <2>4, <4>3 DEF WrittenGapless
    <3> QED
      BY <3>1, <3>2, OtherFacts
  <2>5. ASSUME NEW c \in Conns, c \notin attached
        PROVE  wire'[c]["client"] = w[c]["client"] /\ wire'[c]["server"] = w[c]["server"]
    BY <1>2, <1>6, <1>7, <1>8, <2>5 DEF Peers
  <2>6. FreshConnections(wire')
    BY <1>6, <1>8, <2>5 DEF FreshConnections
  <2> QED
    BY <2>3, <2>4, <2>6 DEF ReadGapless, WrittenGapless
<1>9. lost' = 0 => /\ ReadGapless(wire', incomingMsgId')
                   /\ WrittenGapless(wire', held', incomingMsgId', isReconnecting', sent')
                   /\ FreshConnections(wire')
                   /\ PausedInHandshake(wire', isReconnecting', isPaused')
  BY <1>1, <1>6, <1>8 DEF PausedInHandshake
<1> QED
  BY <1>1, <1>4, <1>9, GapSame

LEMMA ReplayGap ==
  ASSUME GapInv, IInv', NEW p \in Peers, ReceiveReplayRequest(p)
  PROVE  GapInv'
<1> USE DEF protocol, writer, network, loop, trouble, history
<1>1. /\ UNCHANGED <<conn, okSent, attached, broken, isPaused, lost, isReconnecting, sent, incomingMsgId>>
      /\ Len(Incoming(p)) > 0 /\ Head(Incoming(p)).type = "ReplayRequest"
      /\ Write(Popped(p), p, outgoingUnackMsg[p])
  BY DEF ReceiveReplayRequest
<1>2. Popped(p) \in [Conns -> [Peers -> Seq(Messages)]] /\ ConnInv
  BY <1>1, PoppedFacts, GapTypes DEF NetType, GapInv
<1>3. lost = 0 => /\ ReadGapless(Popped(p), incomingMsgId)
                  /\ WrittenGapless(Popped(p), held, incomingMsgId, isReconnecting, sent)
                  /\ FreshConnections(Popped(p)) /\ PausedInHandshake(Popped(p), isReconnecting, isPaused)
                  /\ p = "client" => conn["client"] \in attached
  BY <1>1, PopGap
<1>4. lost = 0 => conn[p] \in attached
  <2>1. p = "server" => conn[p] \in attached
    BY <1>2 DEF ConnInv, Peers
  <2> QED
    BY <1>3, <2>1, Zenon DEF Peers
<1>5. isReconnecting' = isReconnecting /\ isReconnecting'[Other(p)] = isReconnecting[Other(p)]
  BY <1>1
<1> QED
  BY <1>1, <1>2, <1>3, <1>4, <1>5, GapAgain

LEMMA ControlGap ==
  ASSUME GapInv, IInv', NEW p \in Peers, ReceiveControl(p)
  PROVE  GapInv'
<1> USE DEF protocol, writer, network, loop, trouble, history
<1>1. /\ UNCHANGED <<conn, okSent, attached, broken, isPaused, lost, sent, incomingMsgId>>
      /\ Len(Incoming(p)) > 0 /\ Head(Incoming(p)).type = "Control"
  BY DEF ReceiveControl
<1>2. /\ p = "client" /\ Popped(p) \in [Conns -> [Peers -> Seq(Messages)]] /\ ConnInv
      /\ isReconnecting \in [Peers -> BOOLEAN] /\ Other(p) = "server" /\ "server" \in Peers
  BY <1>1, HandshakeReader, PoppedFacts, GapTypes DEF NetType, GapInv, HandshakeTypes, Other, Peers
<1>3. lost = 0 => /\ ReadGapless(Popped(p), incomingMsgId)
                  /\ WrittenGapless(Popped(p), held, incomingMsgId, isReconnecting, sent)
                  /\ FreshConnections(Popped(p)) /\ PausedInHandshake(Popped(p), isReconnecting, isPaused)
                  /\ conn["client"] \notin attached => isPaused["client"]
  BY <1>1, <1>2, PopGap
<1>4. CASE awaitingOk
  <2>1. /\ isReconnecting' = [isReconnecting EXCEPT ![p] = FALSE]
        /\ Write(Popped(p), p, WrittenAfterReconnection(p))
    BY <1>4 DEF ReceiveControl
  <2>2. isReconnecting'[Other(p)] = isReconnecting[Other(p)]
    BY <1>2, <2>1
  <2>3. lost = 0 => PausedInHandshake(Popped(p), isReconnecting', isPaused) /\ (isPaused[p] \/ conn[p] \in attached)
    BY <1>2, <1>3, Zenon DEF PausedInHandshake
  <2> QED
    BY <1>1, <1>2, <1>3, <2>1, <2>2, <2>3, GapAgain
<1>5. CASE ~awaitingOk
  <2>1. wire' = Popped(p) /\ UNCHANGED <<held, isReconnecting>>
    BY <1>5 DEF ReceiveControl
  <2>2. \A q \in Peers : ~isPaused'[q] => held'[q] = <<>>
    BY <1>1, <1>2, <2>1 DEF ConnInv
  <2>3. lost' = 0 => /\ ReadGapless(wire', incomingMsgId')
                     /\ WrittenGapless(wire', held', incomingMsgId', isReconnecting', sent')
                     /\ FreshConnections(wire')
                     /\ PausedInHandshake(wire', isReconnecting', isPaused')
    BY <1>1, <1>3, <2>1, Zenon
  <2>4. broken \subseteq broken'
    BY <1>1
  <2> QED
    BY <1>1, <2>2, <2>3, <2>4, GapSame
<1> QED
  BY <1>4, <1>5

\* The client's unread messages go with its socket.
LEMMA CloseGap ==
  ASSUME GapInv, IInv', SocketClose
  PROVE  GapInv'
<1> USE DEF protocol, writer, network, loop, trouble, history
<1> DEFINE cc == conn["client"]
<1>1. /\ UNCHANGED <<conn, okSent, attached, broken, held, isPaused, lost, isReconnecting, sent, incomingMsgId>>
      /\ Dead("client", cc) /\ wire' = [wire EXCEPT ![cc]["client"] = <<>>]
  BY DEF SocketClose
<1>2. /\ NetType /\ cc \in Conns /\ conn["server"] \in Conns /\ "client" \in Peers /\ "server" \in Peers
      /\ incomingMsgId["client"] \in Nat /\ <<>> \in Seq(Messages) /\ ConnInv
  BY GapTypes DEF GapInv, NetType, Peers
<1>3. /\ wire'[cc]["client"] = <<>>
      /\ \A d \in Conns : wire'[d]["server"] = wire[d]["server"]
      /\ \A d \in Conns : d # cc => wire'[d]["client"] = wire[d]["client"]
  BY <1>1, <1>2 DEF NetType
<1>4. conn["server"] = cc => Dead("server", conn["server"])
  BY <1>1 DEF Dead, Left, Other
<1>5. ASSUME lost = 0
      PROVE  /\ ReadGapless(wire', incomingMsgId) /\ WrittenGapless(wire', held, incomingMsgId, isReconnecting, sent)
             /\ FreshConnections(wire') /\ PausedInHandshake(wire', isReconnecting, isPaused)
  <2>1. NothingMissing
    BY <1>5 DEF GapInv
  <2>2. ReadGapless(wire', incomingMsgId)
    <3>1. Gapless(<<>>, incomingMsgId["client"])
      BY <1>2, NothingWritten, NoRegularGapless
    <3> QED
      BY <1>2, <1>3, <2>1, <3>1 DEF NothingMissing, ReadGapless, Peers
  <2>3. WrittenGapless(wire', held, incomingMsgId, isReconnecting, sent)
    <3>1. ASSUME NEW q \in Peers, ~Dead(q, conn[q]) PROVE Stream(wire', held, q) = Stream(wire, held, q)
      BY <1>2, <1>3, <1>4, <3>1 DEF Stream, Other, Peers
    <3> QED
      BY <2>1, <3>1 DEF NothingMissing, WrittenGapless
  <2>4. FreshConnections(wire')
    BY <1>3, <2>1 DEF NothingMissing, FreshConnections, HandshakeAnswers
  <2>5. PausedInHandshake(wire', isReconnecting, isPaused)
    <3>1. <<>> # <<Plain("Control", 0)>>
      OBVIOUS
    <3> QED
      BY <1>3, <2>1, <3>1 DEF NothingMissing, PausedInHandshake
  <2> QED
    BY <2>2, <2>3, <2>4, <2>5
<1>6. \A q \in Peers : ~isPaused'[q] => held'[q] = <<>>
  BY <1>1, <1>2 DEF ConnInv
<1>7. lost' = 0 => /\ ReadGapless(wire', incomingMsgId')
                   /\ WrittenGapless(wire', held', incomingMsgId', isReconnecting', sent')
                   /\ FreshConnections(wire')
                   /\ PausedInHandshake(wire', isReconnecting', isPaused')
  BY <1>1, <1>5
<1>8. broken \subseteq broken'
  BY <1>1
<1> QED
  BY <1>1, <1>6, <1>7, <1>8, GapSame

\* So they do when the client gives up; and the connection is dead then.
LEMMA DisposeGap ==
  ASSUME GapInv, IInv', DisposeProtocol
  PROVE  GapInv'
<1> USE DEF writer, history
<1> DEFINE cc == conn["client"]
<1>1. /\ UNCHANGED <<conn, okSent, attached, held, isPaused, lost, isReconnecting, sent, incomingMsgId>>
      /\ broken' = broken \cup {cc} /\ wire' = [wire EXCEPT ![cc]["client"] = <<>>]
  BY DEF DisposeProtocol
<1>2. /\ NetType /\ cc \in Conns /\ conn["server"] \in Conns /\ "client" \in Peers /\ "server" \in Peers
      /\ incomingMsgId["client"] \in Nat /\ <<>> \in Seq(Messages) /\ ConnInv
  BY GapTypes DEF GapInv, NetType, Peers
<1>3. /\ wire'[cc]["client"] = <<>>
      /\ \A d \in Conns : wire'[d]["server"] = wire[d]["server"]
      /\ \A d \in Conns : d # cc => wire'[d]["client"] = wire[d]["client"]
  BY <1>1, <1>2 DEF NetType
<1>4. ConnInv'
  BY <1>1, <1>2 DEF ConnInv
<1>5. ASSUME lost = 0 PROVE NothingMissing'
  <2>1. NothingMissing
    BY <1>5 DEF GapInv
  <2>2. ReadGapless(wire, incomingMsgId)'
    <3>1. Gapless(<<>>, incomingMsgId["client"])
      BY <1>2, NothingWritten, NoRegularGapless
    <3> QED
      BY <1>1, <1>2, <1>3, <2>1, <3>1 DEF NothingMissing, ReadGapless, Peers
  <2>3. WrittenGapless(wire, held, incomingMsgId, isReconnecting, sent)'
    <3>1. ASSUME NEW q \in Peers, ~Dead(q, conn[q])'
          PROVE  ~Dead(q, conn[q]) /\ Stream(wire, held, q)' = Stream(wire, held, q)
      <4>1. ~Dead(q, conn[q]) /\ conn[q] # cc /\ conn[q] \in Conns
        BY <1>1, <1>2, <3>1 DEF Dead, Left, Peers
      <4> QED
        BY <1>1, <1>3, <4>1 DEF Stream, Other, Peers
    <3> QED
      BY <1>1, <2>1, <3>1 DEF NothingMissing, WrittenGapless
  <2>4. FreshConnections(wire)'
    BY <1>1, <1>3, <2>1 DEF NothingMissing, FreshConnections, HandshakeAnswers
  <2>5. PausedInHandshake(wire, isReconnecting, isPaused)'
    <3>1. <<>> # <<Plain("Control", 0)>>
      OBVIOUS
    <3> QED
      BY <1>1, <1>3, <2>1, <3>1 DEF NothingMissing, PausedInHandshake, Plain
  <2> QED
    BY <2>2, <2>3, <2>4, <2>5 DEF NothingMissing
<1> QED
  BY <1>1, <1>4, <1>5 DEF GapInv

\* The client starts on a connection that nobody has used.
LEMMA ReconnectGap ==
  ASSUME GapInv, IInv', Reconnect
  PROVE  GapInv'
<1> USE DEF protocol, writer, network, loop, trouble, history
<1> DEFINE cc == conn["client"]
           c1 == conn["client"] + 1
<1>1. /\ UNCHANGED <<okSent, attached, broken, lost, sent, incomingMsgId>>
      /\ cc < MaxConns /\ wire' = [wire EXCEPT ![cc]["client"] = <<>>]
      /\ conn' = [conn EXCEPT !["client"] = c1] /\ held' = [held EXCEPT !["client"] = <<>>]
      /\ isReconnecting' = [isReconnecting EXCEPT !["client"] = TRUE]
      /\ isPaused' = [isPaused EXCEPT !["client"] = FALSE]
  BY DEF Reconnect
<1>2. /\ NetType /\ cc \in Conns /\ conn["server"] \in Conns /\ "client" \in Peers /\ "server" \in Peers
      /\ incomingMsgId["client"] \in Nat /\ incomingMsgId["server"] \in Nat
      /\ <<>> \in Seq(Messages) /\ ConnInv
      /\ isReconnecting \in [Peers -> BOOLEAN] /\ isPaused \in [Peers -> BOOLEAN]
  BY GapTypes DEF GapInv, NetType, Peers
<1>3. /\ cc \in Nat /\ c1 \in Conns /\ c1 # cc /\ c1 > cc /\ c1 \notin okSent /\ c1 \notin attached
      /\ conn["server"] < c1 /\ \A c \in okSent : c <= c1
  <2>1. cc \in Nat /\ c1 \in Conns /\ c1 # cc /\ c1 > cc
    BY <1>1, <1>2, ProtocolBounds DEF Conns
  <2>2. okSent \subseteq Conns /\ \A c \in okSent : c \in Nat /\ c <= cc
    <3>1. okSent \subseteq Conns
      BY Zenon DEF GapInv, IInv, FlagType
    <3>2. \A c \in Conns : c \in Nat
      BY DEF Conns
    <3> QED
      BY <1>2, <3>1, <3>2 DEF ConnInv
  <2> QED
    BY <1>2, <2>1, <2>2 DEF ConnInv
<1>4. /\ wire'[cc]["client"] = <<>>
      /\ \A d \in Conns : wire'[d]["server"] = wire[d]["server"]
      /\ \A d \in Conns : d # cc => wire'[d]["client"] = wire[d]["client"]
  BY <1>1, <1>2 DEF NetType
<1>5. /\ conn'["client"] = c1 /\ conn'["server"] = conn["server"]
      /\ held'["client"] = <<>> /\ held'["server"] = held["server"]
      /\ isReconnecting'["client"] = TRUE /\ isPaused'["server"] = isPaused["server"]
  BY <1>1, <1>2 DEF NetType
<1> HIDE DEF c1
<1>6. ConnInv'
  BY <1>1, <1>2, <1>3, <1>5 DEF ConnInv, Peers
<1>7. ASSUME lost = 0 PROVE NothingMissing'
  <2>1. NothingMissing
    BY <1>7 DEF GapInv
  <2>2. wire'[c1]["client"] = <<>> /\ NoRegular(wire'[c1]["server"]) /\ wire'[c1]["server"] \in Seq(Messages)
    BY <1>2, <1>3, <1>4, <2>1 DEF NothingMissing, FreshConnections, NetType
  <2>3. ReadGapless(wire, incomingMsgId)'
    <3>1. Gapless(<<>>, incomingMsgId["client"])
      BY <1>2, NothingWritten, NoRegularGapless
    <3>2. Gapless(wire[conn["server"]]["server"], incomingMsgId["server"])
      BY <1>2, <2>1 DEF NothingMissing, ReadGapless
    <3> QED
      BY <1>1, <1>2, <1>4, <1>5, <2>2, <3>1, <3>2 DEF ReadGapless, Peers
  <2>4. WrittenGapless(wire, held, incomingMsgId, isReconnecting, sent)'
    <3>1. Dead("server", conn["server"])'
      BY <1>3, <1>5 DEF Dead, Left, Other
    <3>2. Stream(wire, held, "client")' = wire'[c1]["server"]
      BY <1>5, <2>2, ConcatEmpty DEF Stream, Other
    <3>3. Gapless(wire'[c1]["server"], incomingMsgId["server"])
      BY <1>2, <2>2, NoRegularGapless
    <3>4. Other("client") = "server" /\ incomingMsgId' = incomingMsgId
      BY <1>1 DEF Other
    <3>5. Gapless(Stream(wire, held, "client")', incomingMsgId'[Other("client")])
      BY <3>2, <3>3, <3>4
    <3> QED
      BY <1>5, <3>1, <3>5 DEF WrittenGapless, Peers
  <2>5. FreshConnections(wire)'
    BY <1>1, <1>4, <2>1 DEF NothingMissing, FreshConnections, HandshakeAnswers
  <2>6. PausedInHandshake(wire, isReconnecting, isPaused)'
    <3>1. <<>> # <<Plain("Control", 0)>>
      OBVIOUS
    <3> QED
      BY <1>5, <2>2, <3>1 DEF PausedInHandshake, Plain
  <2> QED
    BY <2>3, <2>4, <2>5, <2>6 DEF NothingMissing
<1> QED
  BY <1>1, <1>6, <1>7 DEF GapInv

LEMMA AnswerGap ==
  ASSUME GapInv, IInv', NEW c \in Conns, AnswerHandshake(c)
  PROVE  GapInv'
<1> USE DEF protocol, writer, network, loop, trouble, history
<1> DEFINE ans == <<Plain("Pause", 0), Plain("Control", 0)>>
<1>1. /\ UNCHANGED <<conn, attached, broken, held, isPaused, lost, isReconnecting, sent, incomingMsgId>>
      /\ c <= conn["client"] /\ c \notin okSent /\ okSent' = okSent \cup {c}
      /\ wire' = ToClient(wire, c, ans)
  BY DEF AnswerHandshake
<1>2. /\ NetType /\ ConnInv /\ "client" \in Peers /\ "server" \in Peers /\ incomingMsgId \in [Peers -> Nat]
      /\ wire[c]["client"] \in Seq(Messages) /\ conn["client"] \in Conns /\ conn["server"] \in Conns
  BY GapTypes DEF GapInv, NetType, Peers
<1>3. ans \in HandshakeAnswers /\ ans \in Seq(Messages) /\ NoRegular(ans) /\ ans # <<Plain("Control", 0)>>
  <2>1. ans \in HandshakeAnswers
    BY DEF HandshakeAnswers
  <2>2. ans # <<Plain("Control", 0)>>
    <3>1. Len(ans) = 2 /\ Len(<<Plain("Control", 0)>>) = 1
      OBVIOUS
    <3> QED
      BY <3>1
  <2> QED
    BY <2>1, <2>2, AnswersNoRegular
<1> HIDE DEF ans
<1>4. c \notin attached /\ c # conn["server"] /\ ConnInv'
  BY <1>1, <1>2 DEF ConnInv
<1>5. /\ \A d \in Conns : wire'[d]["server"] = wire[d]["server"]
      /\ \A d \in Conns : d # c => wire'[d]["client"] = wire[d]["client"]
      /\ wire'[c]["client"] \in {wire[c]["client"], wire[c]["client"] \o ans}
  <2>1. CASE Dead("server", c)
    BY <1>1, <2>1 DEF ToClient
  <2>2. CASE ~Dead("server", c)
    <3>1. wire[c]["client"] \o ans \in Seq(Messages)
      BY <1>2, <1>3, ConcatType
    <3>2. wire' = [wire EXCEPT ![c]["client"] = wire[c]["client"] \o ans]
      BY <1>1, <1>2, <2>2 DEF ToClient, NetType
    <3> QED
      BY <1>2, <3>1, <3>2, ConnFacts DEF NetType
  <2> QED
    BY <2>1, <2>2
<1>6. ASSUME lost = 0 PROVE NothingMissing'
  <2>1. NothingMissing
    BY <1>6 DEF GapInv
  <2>2. wire[c]["client"] = <<>>
    BY <1>1, <1>4, <2>1 DEF NothingMissing, FreshConnections
  <2>3. wire'[c]["client"] \in {<<>>, ans}
    <3>1. <<>> \o ans = ans
      BY <1>3, ConcatEmpty
    <3> QED
      BY <1>5, <2>2, <3>1
  <2>4. ReadGapless(wire, incomingMsgId)'
    <3>1. \A n \in Nat : Gapless(wire'[c]["client"], n)
      BY <1>3, <2>3, NothingWritten, NoRegularGapless
    <3>2. ASSUME NEW q \in Peers PROVE Gapless(wire'[conn[q]][q], incomingMsgId[q])
      <4>1. CASE q = "client" /\ conn["client"] = c
        BY <1>2, <3>1, <4>1
      <4>2. CASE ~(q = "client" /\ conn["client"] = c)
        <5>1. wire'[conn[q]][q] = wire[conn[q]][q]
          BY <1>2, <1>5, <4>2 DEF Peers
        <5> QED
          BY <2>1, <5>1 DEF NothingMissing, ReadGapless
      <4> QED
        BY <4>1, <4>2
    <3> QED
      BY <1>1, <3>2 DEF ReadGapless
  <2>5. WrittenGapless(wire, held, incomingMsgId, isReconnecting, sent)'
    <3>1. ASSUME NEW q \in Peers PROVE Stream(wire, held, q)' = Stream(wire, held, q)
      <4>1. wire'[conn[q]][Other(q)] = wire[conn[q]][Other(q)]
        BY <1>2, <1>4, <1>5 DEF Peers, Other
      <4> QED
        BY <1>1, <4>1 DEF Stream
    <3>2. ASSUME NEW q \in Peers, ~Dead(q, conn[q])' PROVE ~Dead(q, conn[q])
      BY <1>1, <3>2 DEF Dead, Left
    <3> QED
      BY <1>1, <2>1, <3>1, <3>2 DEF NothingMissing, WrittenGapless
  <2>6. FreshConnections(wire)'
    <3>1. wire'[c]["client"] \in HandshakeAnswers
      BY <1>3, <2>3 DEF HandshakeAnswers
    <3> QED
      BY <1>1, <1>5, <2>1, <3>1 DEF NothingMissing, FreshConnections
  <2>7. PausedInHandshake(wire, isReconnecting, isPaused)'
    <3>1. <<>> # <<Plain("Control", 0)>>
      OBVIOUS
    <3>2. wire'[c]["client"] # <<Plain("Control", 0)>>
      BY <1>3, <2>3, <3>1
    <3>3. wire'[conn["client"]]["client"] = <<Plain("Control", 0)>> =>
            wire[conn["client"]]["client"] = <<Plain("Control", 0)>>
      BY <1>2, <1>5, <3>2
    <3>4. conn["client"] \notin attached
            /\ (~isReconnecting["client"] \/ wire'[conn["client"]]["client"] = <<Plain("Control", 0)>>)
          => isPaused["client"]
      BY <2>1, <3>3, Zenon DEF NothingMissing, PausedInHandshake
    <3> QED
      BY <1>1, <3>4, Zenon DEF PausedInHandshake, Plain, ProtocolMessage
  <2> QED
    BY <2>4, <2>5, <2>6, <2>7 DEF NothingMissing
<1> QED
  BY <1>1, <1>4, <1>6 DEF GapInv

\* The server's protocol takes up a connection, on which nothing numbered has
\* been written; what was held back for it, and its own unacknowledged
\* messages, continue what was received.
LEMMA AcceptGap ==
  ASSUME GapInv, IInv', NEW c \in Conns, NEW n \in 0..Len(wire[c]["server"]), AcceptReconnection(c, n)
  PROVE  GapInv'
<1> USE DEF protocol, writer, network, loop, trouble, history
<1> DEFINE unread == wire[c]["server"]
           rest   == SubSeq(unread, n + 1, Len(unread))
           gone   == [wire EXCEPT ![conn["server"]]["server"] = <<>>]
           left   == [gone EXCEPT ![c]["server"] = rest]
           ok     == IF ExtHost THEN <<>> ELSE <<Plain("Control", 0)>>
           resume == IF ExtHost THEN <<Plain("Resume", 0)>> ELSE <<>>
           again  == WrittenAfterReconnection("server")
           new    == ok \o again \o resume
           k      == incomingMsgId["client"]
<1>0. /\ NetType /\ IInv /\ ConnInv /\ "client" \in Peers /\ "server" \in Peers
      /\ incomingMsgId \in [Peers -> Nat] /\ sent \in [Peers -> Nat] /\ k \in Nat
      /\ isReconnecting \in [Peers -> BOOLEAN] /\ isPaused \in [Peers -> BOOLEAN]
      /\ Other("server") = "client" /\ Other("client") = "server"
  BY GapTypes DEF GapInv, Peers, Other
<1>1. /\ again \in Seq(Messages) /\ Encoded(again) = again
      /\ Gapless(again, k) /\ Reaches(again, k, sent["server"])
  BY <1>0, AgainGapless
<1>2. /\ UNCHANGED <<broken, lost, isReconnecting, sent, incomingMsgId>>
      /\ c <= conn["client"] /\ c \notin attached
      /\ okSent' = okSent \cup {c} /\ attached' = attached \cup {c}
      /\ conn' = [conn EXCEPT !["server"] = c]
      /\ wire' = ToClient(left, c, ok \o Encoded(again) \o resume)
      /\ isPaused' = [isPaused EXCEPT !["server"] = FALSE]
      /\ held' = [held EXCEPT !["server"] = <<>>]
  BY DEF AcceptReconnection
<1>3. wire' = ToClient(left, c, new)
  BY <1>1, <1>2
<1>4. /\ unread \in Seq(Messages) /\ wire[c]["client"] \in Seq(Messages)
      /\ conn["client"] \in Conns /\ conn["server"] \in Conns /\ held["client"] \in Seq(Messages)
  BY <1>0 DEF NetType
<1>5. /\ rest \in Seq(Messages) /\ Len(rest) = Len(unread) - n
      /\ \A i \in 1..(Len(unread) - n) : rest[i] = unread[n + i]
  BY <1>4, DropType
<1>6. new \in Seq(Messages) /\ Gapless(new, k) /\ Reaches(new, k, sent["server"])
  <2>1. ok \in Seq(Messages) /\ NoRegular(ok) /\ resume \in Seq(Messages) /\ NoRegular(resume)
    <3>1. CASE ExtHost
      BY <3>1, AnswerFacts, NothingWritten DEF NoRegular
    <3>2. CASE ~ExtHost
      BY <3>2, AnswerFacts, NothingWritten DEF NoRegular
    <3> QED
      BY <3>1, <3>2
  <2> HIDE DEF ok, resume, again, k
  <2>2. Gapless(ok, k) /\ Gapless(resume, k)
    BY <1>0, <2>1, NoRegularGapless
  <2>3. sent["server"] \in Nat
    BY <1>0
  <2>4. ok \o again \in Seq(Messages)
    BY <1>1, <2>1, ConcatType
  <2>5. Gapless(ok \o again, k)
    BY <1>0, <1>1, <2>1, <2>2, GaplessConcat
  <2>6. Reaches(ok \o again, k, sent["server"])
    BY <1>0, <1>1, <2>1, <2>3, ReachesConcat
  <2>7. (ok \o again) \o resume \in Seq(Messages)
    BY <2>1, <2>4, ConcatType
  <2>8. Gapless((ok \o again) \o resume, k)
    BY <1>0, <2>1, <2>2, <2>4, <2>5, GaplessConcat
  <2>9. Reaches((ok \o again) \o resume, k, sent["server"])
    BY <1>0, <2>1, <2>3, <2>4, <2>6, ReachesConcat
  <2> QED
    BY <2>7, <2>8, <2>9
<1>7. /\ left \in [Conns -> [Peers -> Seq(Messages)]]
      /\ left[c]["server"] = rest
      /\ \A d \in Conns : left[d]["client"] = wire[d]["client"]
      /\ \A d \in Conns : d # c /\ d # conn["server"] => left[d]["server"] = wire[d]["server"]
  <2>1. /\ gone \in [Conns -> [Peers -> Seq(Messages)]]
        /\ \A d \in Conns, q \in Peers : d # conn["server"] \/ q # "server" => gone[d][q] = wire[d][q]
    BY <1>0, <1>4, NothingWritten, ConnFacts DEF NetType
  <2> HIDE DEF gone, rest
  <2>2. /\ left \in [Conns -> [Peers -> Seq(Messages)]]
        /\ left[c]["server"] = rest
        /\ \A d \in Conns, q \in Peers : d # c \/ q # "server" => left[d][q] = gone[d][q]
    <3>1. conn \in [Peers -> Conns] /\ "server" \in Peers /\ rest \in Seq(Messages)
      BY <1>0, <1>5 DEF NetType
    <3> QED
      BY <2>1, <3>1, ConnFacts
  <2> QED
    BY <1>0, <2>1, <2>2
<1> HIDE DEF left, rest, new, k, again, ok, resume
<1>8. /\ wire'[c]["server"] = rest
      /\ \A d \in Conns : d # c => wire'[d]["client"] = wire[d]["client"]
      /\ \A d \in Conns : d # c /\ d # conn["server"] => wire'[d]["server"] = wire[d]["server"]
      /\ Dead("server", c) => wire'[c]["client"] = wire[c]["client"]
      /\ ~Dead("server", c) => wire'[c]["client"] = wire[c]["client"] \o new
  <2>1. CASE Dead("server", c)
    BY <1>3, <1>7, <2>1 DEF ToClient
  <2>2. CASE ~Dead("server", c)
    <3>1. wire[c]["client"] \o new \in Seq(Messages)
      BY <1>4, <1>6, ConcatType
    <3>2. wire' = [left EXCEPT ![c]["client"] = wire[c]["client"] \o new]
      BY <1>0, <1>3, <1>7, <2>2 DEF ToClient
    <3>3. /\ wire'[c]["client"] = wire[c]["client"] \o new
          /\ \A d \in Conns, q \in Peers : d # c \/ q # "client" => wire'[d][q] = left[d][q]
      BY <1>0, <1>7, <3>1, <3>2, ConnFacts DEF NetType
    <3> QED
      BY <1>0, <1>7, <2>2, <3>3
  <2> QED
    BY <2>1, <2>2
<1>9. /\ conn'["server"] = c /\ conn'["client"] = conn["client"]
      /\ held'["server"] = <<>> /\ held'["client"] = held["client"]
      /\ isPaused'["client"] = isPaused["client"]
  BY <1>0, <1>2 DEF NetType
<1>10. ConnInv'
  BY <1>0, <1>2, <1>9 DEF ConnInv, Peers
<1>11. ASSUME lost = 0 PROVE NothingMissing'
  <2>1. NothingMissing
    BY <1>11 DEF GapInv
  <2>2. NoRegular(unread) /\ wire[c]["client"] \in HandshakeAnswers
    BY <1>2, <2>1 DEF NothingMissing, FreshConnections
  <2>3. NoRegular(rest)
    <3>1. n \in Nat /\ Len(unread) \in Nat /\ Len(rest) = Len(unread) - n
      BY <1>4, <1>5
    <3>2. ASSUME NEW i \in 1..Len(rest) PROVE rest[i].type # "Regular"
      <4>1. i \in 1..(Len(unread) - n) /\ n + i \in 1..Len(unread)
        BY <3>1
      <4> QED
        BY <1>5, <2>2, <4>1 DEF NoRegular
    <3> QED
      BY <3>2 DEF NoRegular
  <2>4. Gapless(wire[c]["client"], k)
    BY <1>0, <1>4, <2>2, AnswersNoRegular, NoRegularGapless
  <2>5. ~Dead("server", c) => /\ wire'[c]["client"] \in Seq(Messages)
                              /\ Gapless(wire'[c]["client"], k) /\ Reaches(wire'[c]["client"], k, sent["server"])
    <3>1. SUFFICES ASSUME ~Dead("server", c)
                   PROVE  /\ wire'[c]["client"] \in Seq(Messages)
                          /\ Gapless(wire'[c]["client"], k) /\ Reaches(wire'[c]["client"], k, sent["server"])
      OBVIOUS
    <3>2. wire'[c]["client"] = wire[c]["client"] \o new /\ sent["server"] \in Nat
      BY <1>0, <1>8, <3>1
    <3>3. wire[c]["client"] \o new \in Seq(Messages)
      BY <1>4, <1>6, ConcatType
    <3>4. Gapless(wire[c]["client"] \o new, k)
      BY <1>0, <1>4, <1>6, <2>4, GaplessConcat
    <3>5. Reaches(wire[c]["client"] \o new, k, sent["server"])
      BY <1>0, <1>4, <1>6, <3>2, ReachesConcat
    <3> QED
      BY <3>2, <3>3, <3>4, <3>5
  <2>6. ReadGapless(wire, incomingMsgId)'
    <3>1. Gapless(wire'[conn["client"]]["client"], incomingMsgId["client"])
      <4>1. CASE conn["client"] = c
        BY <1>8, <2>4, <2>5, <4>1 DEF k
      <4>2. CASE conn["client"] # c
        BY <1>0, <1>4, <1>8, <2>1, <4>2 DEF NothingMissing, ReadGapless
      <4> QED
        BY <4>1, <4>2
    <3>2. Gapless(wire'[c]["server"], incomingMsgId["server"])
      BY <1>0, <1>5, <1>8, <2>3, NoRegularGapless
    <3> QED
      BY <1>2, <1>9, <3>1, <3>2 DEF ReadGapless, Peers
  <2>7. ASSUME ~Dead("client", conn["client"])'
        PROVE  /\ Gapless(Stream(wire, held, "client")', incomingMsgId["server"])
               /\ ~isReconnecting["client"] =>
                     Reaches(Stream(wire, held, "client")', incomingMsgId["server"], sent["client"])
    <3>1. conn["client"] \notin broken /\ (conn["client"] \notin attached \/ conn["client"] = c)
      BY <1>0, <1>2, <1>9, <2>7 DEF Dead, Left
    <3>2. ~Dead("client", conn["client"])
      BY <1>0, <1>2, <3>1 DEF Dead, Left
    <3>3. /\ Gapless(wire[conn["client"]]["server"] \o held["client"], incomingMsgId["server"])
          /\ ~isReconnecting["client"] =>
                Reaches(wire[conn["client"]]["server"] \o held["client"], incomingMsgId["server"], sent["client"])
      BY <1>0, <2>1, <3>2 DEF NothingMissing, WrittenGapless, Stream
    <3>4. Stream(wire, held, "client")' = wire'[conn["client"]]["server"] \o held["client"]
      BY <1>0, <1>9 DEF Stream
    <3>5. CASE conn["client"] # c
      <4>1. conn["client"] # conn["server"]
        BY <1>0, <3>1, <3>5 DEF ConnInv
      <4>2. wire'[conn["client"]]["server"] = wire[conn["client"]]["server"]
        BY <1>4, <1>8, <3>5, <4>1
      <4> QED
        BY <3>3, <3>4, <4>2
    <3>6. CASE conn["client"] = c
      <4>1. Stream(wire, held, "client")' = rest \o held["client"]
        BY <1>8, <3>4, <3>6
      <4>2. incomingMsgId["server"] \in Nat /\ sent["client"] \in Nat
        BY <1>0
      <4>3. /\ Gapless(unread \o held["client"], incomingMsgId["server"])
            /\ ~isReconnecting["client"] =>
                  Reaches(unread \o held["client"], incomingMsgId["server"], sent["client"])
        BY <3>3, <3>6
      <4> HIDE DEF unread
      <4>4. /\ Gapless(held["client"], incomingMsgId["server"])
            /\ ~isReconnecting["client"] => Reaches(held["client"], incomingMsgId["server"], sent["client"])
        BY <1>4, <2>2, <4>2, <4>3, GaplessSuffix
      <4>5. Gapless(rest, incomingMsgId["server"])
        BY <1>5, <2>3, <4>2, NoRegularGapless
      <4>6. Gapless(rest \o held["client"], incomingMsgId["server"])
        BY <1>4, <1>5, <4>2, <4>4, <4>5, GaplessConcat
      <4>7. ASSUME ~isReconnecting["client"]
            PROVE  Reaches(rest \o held["client"], incomingMsgId["server"], sent["client"])
        BY <1>4, <1>5, <4>2, <4>4, <4>7, ReachesConcat
      <4> QED
        BY <4>1, <4>6, <4>7
    <3> QED
      BY <3>5, <3>6
  <2>8. ASSUME ~Dead("server", conn["server"])'
        PROVE  Gapless(Stream(wire, held, "server")', k) /\ Reaches(Stream(wire, held, "server")', k, sent["server"])
    <3>1. ~Dead("server", c)
      BY <1>0, <1>2, <1>9, <2>8 DEF Dead, Left
    <3>2. Stream(wire, held, "server")' = wire'[c]["client"] \o <<>>
      BY <1>0, <1>9 DEF Stream
    <3>3. Stream(wire, held, "server")' = wire'[c]["client"]
      BY <2>5, <3>1, <3>2, ConcatEmpty
    <3> QED
      BY <2>5, <3>1, <3>3
  <2>9. WrittenGapless(wire, held, incomingMsgId, isReconnecting, sent)'
    BY <1>0, <1>2, <2>7, <2>8 DEF WrittenGapless, Peers, k
  <2>10. ASSUME NEW d \in Conns, d \notin attached'
         PROVE  /\ d \notin attached
                /\ wire'[d]["server"] = wire[d]["server"] /\ wire'[d]["client"] = wire[d]["client"]
    <3>1. d # c /\ d \notin attached
      BY <1>2, <2>10
    <3>2. d # conn["server"]
      BY <1>0, <3>1 DEF ConnInv
    <3> QED
      BY <1>8, <3>1, <3>2
  <2>11. FreshConnections(wire)'
    BY <1>2, <2>1, <2>10 DEF NothingMissing, FreshConnections
  <2>12. PausedInHandshake(wire, isReconnecting, isPaused)'
    <3>1. SUFFICES ASSUME conn["client"] \notin attached',
                          ~isReconnecting["client"] \/ wire'[conn["client"]]["client"] = <<Plain("Control", 0)>>
                   PROVE  isPaused["client"]
      BY <1>2, <1>9, Zenon DEF PausedInHandshake, Plain, ProtocolMessage
    <3>2. conn["client"] \notin attached /\ wire'[conn["client"]]["client"] = wire[conn["client"]]["client"]
      BY <1>4, <2>10, <3>1
    <3> QED
      BY <2>1, <3>1, <3>2, Zenon DEF NothingMissing, PausedInHandshake
  <2> QED
    BY <2>6, <2>9, <2>11, <2>12 DEF NothingMissing
<1> QED
  BY <1>2, <1>10, <1>11 DEF GapInv

LEMMA GapStep == GapInv /\ [Next]_vars => GapInv'
<1> SUFFICES ASSUME GapInv, [Next]_vars PROVE GapInv'
  OBVIOUS
<1>0. IInv /\ IInv' /\ NetType
  BY StepIInv, GapTypes DEF GapInv
<1> USE DEF protocol, writer, network, loop, trouble, history
<1>1. ASSUME NEW p \in Peers, SendKeepAlive(p) PROVE GapInv'
  <2>1. /\ UNCHANGED <<conn, okSent, attached, broken, isPaused, lost, isReconnecting, sent, incomingMsgId>>
        /\ Write(wire, p, <<Plain("KeepAlive", incomingMsgId[p])>>)
    BY <1>1 DEF SendKeepAlive
  <2>2. /\ <<Plain("KeepAlive", incomingMsgId[p])>> \in Seq(Messages)
        /\ Encoded(<<Plain("KeepAlive", incomingMsgId[p])>>) = <<Plain("KeepAlive", incomingMsgId[p])>>
        /\ NoRegular(<<Plain("KeepAlive", incomingMsgId[p])>>)
    BY <1>0, PlainWritten
  <2>3. lost = 0 => /\ ReadGapless(wire, incomingMsgId')
                    /\ WrittenGapless(wire, held, incomingMsgId', isReconnecting, sent)
                    /\ FreshConnections(wire) /\ PausedInHandshake(wire, isReconnecting, isPaused)
    BY <2>1 DEF GapInv, NothingMissing
  <2>4. wire \in [Conns -> [Peers -> Seq(Messages)]]
    BY <1>0 DEF NetType
  <2> QED
    BY <1>0, <2>1, <2>2, <2>3, <2>4, GapQuiet
<1>2. ASSUME NEW p \in Peers, IncomingAckTimeout(p) PROVE GapInv'
  <2>1. /\ UNCHANGED <<conn, okSent, attached, broken, isPaused, lost, isReconnecting, sent, incomingMsgId>>
        /\ UNCHANGED <<wire, held>> \/ Write(wire, p, <<Plain("Ack", incomingMsgId[p])>>)
    BY <1>2 DEF IncomingAckTimeout
  <2>2. /\ <<Plain("Ack", incomingMsgId[p])>> \in Seq(Messages)
        /\ Encoded(<<Plain("Ack", incomingMsgId[p])>>) = <<Plain("Ack", incomingMsgId[p])>>
        /\ NoRegular(<<Plain("Ack", incomingMsgId[p])>>)
    BY <1>0, PlainWritten
  <2>3. lost = 0 => /\ ReadGapless(wire, incomingMsgId')
                    /\ WrittenGapless(wire, held, incomingMsgId', isReconnecting, sent)
                    /\ FreshConnections(wire) /\ PausedInHandshake(wire, isReconnecting, isPaused)
    BY <2>1 DEF GapInv, NothingMissing
  <2>4. wire \in [Conns -> [Peers -> Seq(Messages)]]
    BY <1>0 DEF NetType
  <2>5. CASE UNCHANGED <<wire, held>>
    BY <1>0, <2>1, <2>5, IdleGap
  <2>6. CASE Write(wire, p, <<Plain("Ack", incomingMsgId[p])>>)
    BY <1>0, <2>1, <2>2, <2>3, <2>4, <2>6, GapQuiet
  <2> QED
    BY <2>1, <2>5, <2>6
<1>3. ASSUME NEW p \in Peers, OutgoingAckTimeout(p) \/ ReplayTimePasses(p) PROVE GapInv'
  <2>1. UNCHANGED <<wire, held, conn, okSent, attached, broken, isPaused, lost, incomingMsgId, isReconnecting, sent>>
    BY <1>3 DEF OutgoingAckTimeout, ReplayTimePasses
  <2> QED
    BY <1>0, <2>1, IdleGap
<1>4. ASSUME HandshakeTimeout \/ LoopEnds \/ UNCHANGED vars PROVE GapInv'
  <2>1. UNCHANGED <<wire, held, conn, okSent, attached, broken, isPaused, lost, incomingMsgId, isReconnecting, sent>>
    BY <1>4 DEF HandshakeTimeout, LoopEnds, vars
  <2> QED
    BY <1>0, <2>1, IdleGap
<1>5. ASSUME NEW c \in Conns, Break(c) PROVE GapInv'
  <2>1. /\ UNCHANGED <<wire, held, conn, okSent, attached, isPaused, lost, incomingMsgId, isReconnecting, sent>>
        /\ broken \subseteq broken'
    BY <1>5 DEF Break
  <2> QED
    BY <1>0, <2>1, IdleGap
<1>6. ASSUME NEW c \in Conns, NEW p \in Peers, NEW i \in 1..Len(wire[c][p]), Lose(c, p, i) PROVE GapInv'
  <2>1. UNCHANGED <<held, conn, okSent, attached, isPaused>> /\ lost' # 0
    <3>1. lost \in Nat /\ lost' = lost + 1
      <4>1. lost \in 0..MaxLosses /\ lost' = lost + 1
        BY <1>0, <1>6, Zenon DEF GapInv, Lose, IInv, FlagType
      <4> QED
        BY <4>1, ProtocolBounds
    <3>2. lost' # 0
      BY <3>1
    <3>3. UNCHANGED <<held, conn, okSent, attached, isPaused>>
      BY <1>6 DEF Lose
    <3> QED
      BY <3>2, <3>3
  <2>2. ConnInv'
    BY <2>1 DEF GapInv, ConnInv
  <2> QED
    BY <1>0, <2>1, <2>2 DEF GapInv
<1> QED
  BY <1>0, <1>1, <1>2, <1>3, <1>4, <1>5, <1>6, SendGap, RegularGap, BareGap, ReplayGap, PauseGap,
     ResumeGap, ControlGap, CloseGap, DisposeGap, ReconnectGap, AnswerGap, AcceptGap, Zenon
     DEF Next, GiveUp, PermanentFailure

LEMMA GapAlways == Spec => []GapInv
<1>1. Init => GapInv
  <2> SUFFICES ASSUME Init PROVE GapInv
    OBVIOUS
  <2>1. IInv
    BY InitIInv
  <2>2. /\ attached = {1} /\ okSent = {1} /\ conn = [p \in Peers |-> 1] /\ held = [p \in Peers |-> <<>>]
        /\ wire = [c \in Conns |-> [p \in Peers |-> <<>>]] /\ isPaused = [p \in Peers |-> FALSE]
        /\ sent = [p \in Peers |-> 0] /\ incomingMsgId = [p \in Peers |-> 0]
        /\ isReconnecting = [p \in Peers |-> FALSE]
    BY DEF Init
  <2>3. 1 \in Conns /\ \A p \in Peers : Other(p) \in Peers
    BY OtherFacts, ProtocolBounds DEF Conns
  <2>4. ConnInv
    BY <2>2 DEF ConnInv, Peers
  <2>5. \A c \in Conns, p \in Peers : wire[c][p] = <<>>
    BY <2>2
  <2>6. Gapless(<<>>, 0) /\ Reaches(<<>>, 0, 0) /\ <<>> \o <<>> = <<>>
    <3>1. Gapless(<<>>, 0)
      BY NothingWritten, NoRegularGapless
    <3>2. <<>> \o <<>> = <<>>
      BY NothingWritten, ConcatEmpty
    <3> QED
      BY <3>1, <3>2 DEF Reaches
  <2>7. ReadGapless(wire, incomingMsgId)
    BY <2>2, <2>3, <2>5, <2>6 DEF ReadGapless
  <2>8. WrittenGapless(wire, held, incomingMsgId, isReconnecting, sent)
    <3>1. ASSUME NEW p \in Peers
          PROVE  Stream(wire, held, p) = <<>> /\ incomingMsgId[Other(p)] = 0 /\ sent[p] = 0
      <4>1. wire[conn[p]][Other(p)] = <<>> /\ held[p] = <<>>
        BY <2>2, <2>3, <2>5
      <4> QED
        BY <2>2, <2>3, <2>6, <4>1 DEF Stream
    <3> QED
      BY <2>6, <3>1 DEF WrittenGapless
  <2>9. FreshConnections(wire)
    BY <2>5, NothingWritten DEF FreshConnections, HandshakeAnswers, Peers
  <2>10. PausedInHandshake(wire, isReconnecting, isPaused)
    BY <2>2 DEF PausedInHandshake, Peers
  <2> QED
    BY <2>1, <2>4, <2>7, <2>8, <2>9, <2>10 DEF GapInv, NothingMissing
<1> QED
  BY <1>1, GapStep, PTL DEF Spec

\* While the transport drops nothing, no end ever meets a gap, whatever
\* connections break, are replaced or are handed to another process: what
\* endAcceptReconnection writes, and what a paused ProtocolWriter holds back,
\* leave out no message.
THEOREM NothingIsMissed == Spec => []NoGap
<1>1. GapInv => NoGap
  BY DEF GapInv, NothingMissing, ReadGapless, Gapless, NoGap, Incoming
<1> QED
  BY <1>1, GapAlways, PTL

=============================================================================
