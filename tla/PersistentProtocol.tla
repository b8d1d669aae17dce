------------------------- MODULE PersistentProtocol -------------------------
(***************************************************************************)
(* PersistentProtocol of base/parts/ipc/common/ipc.net.ts at both ends of  *)
(* a remote connection, with the reconnection handshake that the window    *)
(* (platform/remote/common/remoteAgentConnection.ts) and the server        *)
(* (server/node) run around it.                                            *)
(*                                                                         *)
(* Sockets come and go; connection c+1 is the one the client dials after   *)
(* connection c.  A connection carries messages in order until it breaks,  *)
(* and what is unread when an end disposes its socket is gone.  JavaScript *)
(* runs one callback at a time, so a callback is one action.  Time is      *)
(* abstract: a timer that is armed may expire whenever its guard holds.    *)
(***************************************************************************)
EXTENDS Naturals, Sequences

CONSTANTS
    MaxMsgs,    \* bound: messages one party sends
    IdSpace,    \* what fits the header's id and ack fields: 2^32 in the code
    MaxConns,   \* bound: sockets used, the first one included
    MaxFaults,  \* bound: connections that break, handshakes that are too slow
    MaxWire,    \* bound: messages in flight before a keep-alive is skipped
    ExtHost,    \* the server end is an extension host process (else the agent)
    MaxLosses,  \* bound: single messages the transport drops
    Mixed       \* bound: both kinds of trouble happen in one behaviour

ASSUME ProtocolBounds ==
    /\ MaxMsgs \in Nat /\ IdSpace \in Nat /\ MaxMsgs < IdSpace
    /\ MaxConns \in Nat \ {0}
    /\ MaxFaults \in Nat
    /\ MaxWire \in Nat
    /\ ExtHost \in BOOLEAN
    /\ MaxLosses \in Nat
    /\ Mixed \in BOOLEAN

Peers == {"client", "server"}
Other(p) == IF p = "client" THEN "server" ELSE "client"
Conns == 1..MaxConns

VARIABLES
    isReconnecting,     \* _isReconnecting
    outgoingUnackMsg,   \* _outgoingUnackMsg, a queue of Regular messages
    outgoingMsgId,      \* _outgoingMsgId
    outgoingAckId,      \* _outgoingAckId
    outgoingAckTimeout, \* whether _outgoingAckTimeout is armed
    incomingMsgId,      \* _incomingMsgId
    incomingAckId,      \* _incomingAckId
    incomingAckTimeout, \* whether _incomingAckTimeout is armed
    mayRequestReplay,   \* 10 s have passed since _lastReplayRequestTime
    isPaused,           \* ProtocolWriter._isPaused
    held,               \* ProtocolWriter._data that a paused writer keeps back
    conn,               \* the connection whose socket the protocol uses
    wire,               \* wire[c][p]: in flight on connection c towards p
    broken,             \* connections that carry nothing any more
    okSent,             \* connections whose handshake the server has answered
    attached,           \* connections that the server's protocol has used
    looping,            \* PersistentConnection._isReconnecting of the client
    awaitingOk,         \* the client waits for the handshake's last message
    faults,             \* faults so far
    lost,               \* history: messages the transport has dropped
    over,               \* whether the client's connection has been given up
    sent,               \* history: calls of send
    delivered           \* history: the payloads onMessage has reported

protocol == <<isReconnecting, outgoingUnackMsg, outgoingMsgId, outgoingAckId,
              outgoingAckTimeout, incomingMsgId, incomingAckId,
              incomingAckTimeout, mayRequestReplay>>
writer   == <<isPaused, held>>
network  == <<conn, wire, broken, okSent, attached>>
loop     == <<looping, awaitingOk>>
history  == <<sent, delivered>>
trouble  == <<faults, lost, over>>
vars     == <<protocol, writer, network, loop, trouble, history>>

-----------------------------------------------------------------------------
(* Messages *)

MessageTypes == {"Regular", "Control", "Ack", "ReplayRequest", "Pause", "Resume", "KeepAlive"}

ProtocolMessage(type, id, ack, data) == [type |-> type, id |-> id, ack |-> ack, data |-> data]

Messages == [type : MessageTypes, id : Nat, ack : Nat, data : Nat]

\* Messages without a payload; only Regular messages are numbered.
Plain(type, ack) == ProtocolMessage(type, 0, ack, 0)

\* The header of ProtocolWriter.write: writeUInt32BE keeps the low 32 bits.
Encode(m) == [m EXCEPT !.id = @ % IdSpace, !.ack = @ % IdSpace]

\* The first connection is up: both ends have just made their protocol.
Init ==
    /\ isReconnecting = [p \in Peers |-> FALSE]
    /\ outgoingUnackMsg = [p \in Peers |-> <<>>]
    /\ outgoingMsgId = [p \in Peers |-> 0]
    /\ outgoingAckId = [p \in Peers |-> 0]
    /\ outgoingAckTimeout = [p \in Peers |-> FALSE]
    /\ incomingMsgId = [p \in Peers |-> 0]
    /\ incomingAckId = [p \in Peers |-> 0]
    /\ incomingAckTimeout = [p \in Peers |-> FALSE]
    /\ mayRequestReplay = [p \in Peers |-> TRUE]
    /\ isPaused = [p \in Peers |-> FALSE]
    /\ held = [p \in Peers |-> <<>>]
    /\ conn = [p \in Peers |-> 1]
    /\ wire = [c \in Conns |-> [p \in Peers |-> <<>>]]
    /\ broken = {}
    /\ okSent = {1}
    /\ attached = {1}
    /\ looping = FALSE
    /\ awaitingOk = FALSE
    /\ faults = 0
    /\ lost = 0
    /\ over = "no"
    /\ sent = [p \in Peers |-> 0]
    /\ delivered = [p \in Peers |-> <<>>]

-----------------------------------------------------------------------------
(* Sockets and the ProtocolWriter *)

\* q has disposed its socket of connection c.
Left(q, c) == \/ q = "client" /\ c < conn["client"]
              \/ q = "server" /\ c \in attached /\ c # conn["server"]

\* Nothing p writes on connection c is read by the other end.
Dead(p, c) == c \in broken \/ Left(Other(p), c)

Encoded(msgs) == [i \in 1..Len(msgs) |-> Encode(msgs[i])]

\* Network w after p's socket has written msgs.
Put(w, p, msgs) ==
    IF Dead(p, conn[p]) THEN w ELSE [w EXCEPT ![conn[p]][Other(p)] = @ \o msgs]

\* ProtocolWriter.write, given the network w: a paused writer keeps the data.
\* (The setTimeout of _scheduleWriting only batches writes: dispose flushes.)
Write(w, p, msgs) ==
    IF isPaused[p]
    THEN held' = [held EXCEPT ![p] = @ \o Encoded(msgs)] /\ wire' = w
    ELSE held' = held /\ wire' = Put(w, p, Encoded(msgs))

\* The network once p has read the oldest message of its socket.
Incoming(p) == wire[conn[p]][p]
Popped(p) == [wire EXCEPT ![conn[p]][p] = Tail(@)]

-----------------------------------------------------------------------------
(* Sending *)

\* Mutant: the check looks at _isReconnecting before it is reset.
RecvAckCheckStale(p, pending, reconnecting) ==
    outgoingAckTimeout[p] \/ (pending /\ ~isReconnecting[p])

\* Whether the timer is armed after _recvAckCheck.  (A check that would fire
\* the socket timeout at once is a timer that expires at once.)
RecvAckCheck(p, pending, reconnecting) ==
    outgoingAckTimeout[p] \/ (pending /\ ~reconnecting)

\* send.
Send(p) ==
    /\ sent[p] < MaxMsgs
    /\ LET msg == ProtocolMessage("Regular", outgoingMsgId[p] + 1, incomingMsgId[p], sent[p] + 1)
       IN  /\ outgoingUnackMsg' = [outgoingUnackMsg EXCEPT ![p] = Append(@, msg)]
           /\ IF isReconnecting[p] THEN UNCHANGED <<wire, held>> ELSE Write(wire, p, <<msg>>)
    /\ outgoingMsgId' = [outgoingMsgId EXCEPT ![p] = @ + 1]
    /\ incomingAckId' = [incomingAckId EXCEPT ![p] = incomingMsgId[p]]
    /\ outgoingAckTimeout' = [outgoingAckTimeout EXCEPT ![p] = RecvAckCheck(p, TRUE, isReconnecting[p])]
    /\ sent' = [sent EXCEPT ![p] = @ + 1]
    /\ UNCHANGED <<isReconnecting, outgoingAckId, incomingMsgId, incomingAckTimeout, mayRequestReplay,
                   isPaused, conn, broken, okSent, attached, loop, trouble, delivered>>

\* _sendKeepAlive, every 5 s until dispose clears the interval.
SendKeepAlive(p) ==
    /\ p = "server" \/ over = "no"
    /\ Len(wire[conn[p]][Other(p)]) + Len(held[p]) < MaxWire
    /\ incomingAckId' = [incomingAckId EXCEPT ![p] = incomingMsgId[p]]
    /\ Write(wire, p, <<Plain("KeepAlive", incomingMsgId[p])>>)
    /\ UNCHANGED <<isReconnecting, outgoingUnackMsg, outgoingMsgId, outgoingAckId, outgoingAckTimeout,
                   incomingMsgId, incomingAckTimeout, mayRequestReplay,
                   isPaused, conn, broken, okSent, attached, loop, trouble, history>>

\* The timer of _sendAckCheck: 2 s without a newer message, and nothing sent
\* meanwhile has acknowledged the last one.  (If one has arrived since, the
\* timer is armed again.)
IncomingAckTimeout(p) ==
    /\ incomingAckTimeout[p]
    /\ incomingAckTimeout' = [incomingAckTimeout EXCEPT ![p] = FALSE]
    /\ incomingAckId' = [incomingAckId EXCEPT ![p] = incomingMsgId[p]]
    /\ IF incomingMsgId[p] <= incomingAckId[p]
       THEN UNCHANGED <<wire, held>>
       ELSE Write(wire, p, <<Plain("Ack", incomingMsgId[p])>>)
    /\ UNCHANGED <<isReconnecting, outgoingUnackMsg, outgoingMsgId, outgoingAckId, outgoingAckTimeout,
                   incomingMsgId, mayRequestReplay,
                   isPaused, conn, broken, okSent, attached, loop, trouble, history>>

\* The timer of _recvAckCheck: nothing to wait for any more, or 20 s without
\* an acknowledgement or any other data.  onSocketTimeout makes the client
\* start its reconnection loop, unless no more attempts are made; the server
\* has no listener for it.  (If the other end is heard of, the timer is armed
\* again.)
OutgoingAckTimeout(p) ==
    /\ outgoingAckTimeout[p]
    /\ outgoingAckTimeout' = [outgoingAckTimeout EXCEPT ![p] = FALSE]
    /\ \/ /\ outgoingMsgId[p] <= outgoingAckId[p] \/ isReconnecting[p]
          /\ UNCHANGED looping
       \/ /\ outgoingMsgId[p] > outgoingAckId[p] /\ ~isReconnecting[p]
          /\ Dead(p, conn[p]) /\ Len(Incoming(p)) = 0
          /\ looping' = (looping \/ (p = "client" /\ over # "failed"))
    /\ UNCHANGED <<isReconnecting, outgoingUnackMsg, outgoingMsgId, outgoingAckId, incomingMsgId,
                   incomingAckId, incomingAckTimeout, mayRequestReplay,
                   writer, network, awaitingOk, trouble, history>>

\* Mutant: the acknowledgement is not repeated.
WrittenAfterReconnectionNoAck(p) == outgoingUnackMsg[p]

\* Mutant: the unacknowledged messages are not sent again.
WrittenAfterReconnectionAckOnly(p) == <<Plain("Ack", incomingMsgId[p])>>

\* What endAcceptReconnection writes: which messages have been received, and
\* again all messages that are unacknowledged.
WrittenAfterReconnection(p) == <<Plain("Ack", incomingMsgId[p])>> \o outgoingUnackMsg[p]

-----------------------------------------------------------------------------
(* _receiveMessage *)

\* Mutant: the acknowledged message itself stays in the queue.
AcknowledgeOlder(queue, ack) ==
    LET popped == CHOOSE n \in 0..Len(queue) :
                    /\ \A i \in 1..n : queue[i].id < ack
                    /\ n < Len(queue) => queue[n + 1].id >= ack
    IN  SubSeq(queue, popped + 1, Len(queue))

\* The loop that pops the queue while its first message is acknowledged.
Acknowledge(queue, ack) ==
    LET popped == CHOOSE n \in 0..Len(queue) :
                    /\ \A i \in 1..n : queue[i].id <= ack
                    /\ n < Len(queue) => queue[n + 1].id > ack
    IN  SubSeq(queue, popped + 1, Len(queue))

\* The acknowledgement every message carries.
ReceiveAck(p, ack) ==
    IF ack > outgoingAckId[p]
    THEN /\ outgoingAckId' = [outgoingAckId EXCEPT ![p] = ack]
         /\ outgoingUnackMsg' = [outgoingUnackMsg EXCEPT ![p] = Acknowledge(@, ack)]
    ELSE UNCHANGED <<outgoingAckId, outgoingUnackMsg>>

\* Mutant: a message that is sent again is reported again.
AcceptRegularAgain(p, msg) ==
    /\ msg.id <= incomingMsgId[p] + 1
    /\ incomingMsgId' = [incomingMsgId EXCEPT ![p] = msg.id]
    /\ incomingAckTimeout' = [incomingAckTimeout EXCEPT ![p] = TRUE]
    /\ delivered' = [delivered EXCEPT ![p] = Append(@, msg.data)]
    /\ Write(Popped(p), p, <<>>)
    /\ UNCHANGED mayRequestReplay

\* The next message in turn: _sendAckCheck arms the timer (it is no longer
\* than just now that a message came), onMessage fires.
AcceptRegular(p, msg) ==
    /\ msg.id = incomingMsgId[p] + 1
    /\ incomingMsgId' = [incomingMsgId EXCEPT ![p] = msg.id]
    /\ incomingAckTimeout' = [incomingAckTimeout EXCEPT ![p] = TRUE]
    /\ delivered' = [delivered EXCEPT ![p] = Append(@, msg.data)]
    /\ Write(Popped(p), p, <<>>)
    /\ UNCHANGED mayRequestReplay

\* Mutant: the missing messages are not asked for.
RequestReplaySilent(p, msg) ==
    /\ msg.id > incomingMsgId[p] + 1
    /\ Write(Popped(p), p, <<>>)
    /\ mayRequestReplay' = [mayRequestReplay EXCEPT ![p] = FALSE]
    /\ UNCHANGED <<incomingMsgId, incomingAckTimeout, delivered>>

\* A gap: ask for everything again, at most once every 10 s.
RequestReplay(p, msg) ==
    /\ msg.id > incomingMsgId[p] + 1
    /\ Write(Popped(p), p, IF mayRequestReplay[p] THEN <<Plain("ReplayRequest", 0)>> ELSE <<>>)
    /\ mayRequestReplay' = [mayRequestReplay EXCEPT ![p] = FALSE]
    /\ UNCHANGED <<incomingMsgId, incomingAckTimeout, delivered>>

\* A message that was delivered before: sent again because its
\* acknowledgement was lost or had not arrived yet.
IgnoreRegular(p, msg) ==
    /\ msg.id <= incomingMsgId[p]
    /\ Write(Popped(p), p, <<>>)
    /\ UNCHANGED <<incomingMsgId, incomingAckTimeout, mayRequestReplay, delivered>>

ReceiveRegular(p) ==
    /\ Len(Incoming(p)) > 0
    /\ Head(Incoming(p)).type = "Regular"
    /\ ReceiveAck(p, Head(Incoming(p)).ack)
    /\ \/ AcceptRegular(p, Head(Incoming(p)))
       \/ RequestReplay(p, Head(Incoming(p)))
       \/ IgnoreRegular(p, Head(Incoming(p)))
    /\ UNCHANGED <<isReconnecting, outgoingMsgId, outgoingAckTimeout, incomingAckId,
                   isPaused, conn, broken, okSent, attached, loop, trouble, sent>>

\* Ack and KeepAlive only carry an acknowledgement.
ReceiveBare(p) ==
    /\ Len(Incoming(p)) > 0
    /\ Head(Incoming(p)).type \in {"Ack", "KeepAlive"}
    /\ ReceiveAck(p, Head(Incoming(p)).ack)
    /\ wire' = Popped(p)
    /\ UNCHANGED <<isReconnecting, outgoingMsgId, outgoingAckTimeout, incomingMsgId, incomingAckId,
                   incomingAckTimeout, mayRequestReplay,
                   writer, conn, broken, okSent, attached, loop, trouble, history>>

ReceiveReplayRequest(p) ==
    /\ Len(Incoming(p)) > 0
    /\ Head(Incoming(p)).type = "ReplayRequest"
    /\ Write(Popped(p), p, outgoingUnackMsg[p])
    /\ outgoingAckTimeout' = [outgoingAckTimeout EXCEPT ![p] =
            RecvAckCheck(p, outgoingMsgId[p] > outgoingAckId[p], isReconnecting[p])]
    /\ UNCHANGED <<isReconnecting, outgoingUnackMsg, outgoingMsgId, outgoingAckId, incomingMsgId,
                   incomingAckId, incomingAckTimeout, mayRequestReplay,
                   isPaused, conn, broken, okSent, attached, loop, trouble, history>>

ReceivePause(p) ==
    /\ Len(Incoming(p)) > 0
    /\ Head(Incoming(p)).type = "Pause"
    /\ isPaused' = [isPaused EXCEPT ![p] = TRUE]
    /\ wire' = Popped(p)
    /\ UNCHANGED <<protocol, held, conn, broken, okSent, attached, loop, trouble, history>>

\* Mutant: what the writer has held back is forgotten.
ReceiveResumeForgetful(p) ==
    /\ Len(Incoming(p)) > 0
    /\ Head(Incoming(p)).type = "Resume"
    /\ isPaused' = [isPaused EXCEPT ![p] = FALSE]
    /\ held' = [held EXCEPT ![p] = <<>>]
    /\ wire' = Popped(p)
    /\ UNCHANGED <<protocol, conn, broken, okSent, attached, loop, trouble, history>>

\* ProtocolWriter.resume writes what was held back.
ReceiveResume(p) ==
    /\ Len(Incoming(p)) > 0
    /\ Head(Incoming(p)).type = "Resume"
    /\ isPaused' = [isPaused EXCEPT ![p] = FALSE]
    /\ held' = [held EXCEPT ![p] = <<>>]
    /\ wire' = Put(Popped(p), p, held[p])
    /\ UNCHANGED <<protocol, conn, broken, okSent, attached, loop, trouble, history>>

\* The handshake's last message, "ok" or the debug port.  If the attempt it
\* belongs to is still awaited, the listener that
\* connectToRemoteExtensionHostAgentAndReadOneMessage has registered calls
\* endAcceptReconnection and the reconnection loop ends; if not, the message
\* stays in the BufferedEmitter that beginAcceptReconnection flushes.
ReceiveControl(p) ==
    /\ Len(Incoming(p)) > 0
    /\ Head(Incoming(p)).type = "Control"
    /\ IF awaitingOk
       THEN /\ isReconnecting' = [isReconnecting EXCEPT ![p] = FALSE]
            /\ incomingAckId' = [incomingAckId EXCEPT ![p] = incomingMsgId[p]]
            /\ Write(Popped(p), p, WrittenAfterReconnection(p))
            /\ outgoingAckTimeout' = [outgoingAckTimeout EXCEPT ![p] =
                    RecvAckCheck(p, outgoingMsgId[p] > outgoingAckId[p], FALSE)]
            /\ looping' = FALSE
            /\ awaitingOk' = FALSE
       ELSE /\ wire' = Popped(p)
            /\ UNCHANGED <<isReconnecting, incomingAckId, outgoingAckTimeout, held, loop>>
    /\ UNCHANGED <<outgoingUnackMsg, outgoingMsgId, outgoingAckId, incomingMsgId,
                   incomingAckTimeout, mayRequestReplay,
                   isPaused, conn, broken, okSent, attached, trouble, history>>

\* A fault, as far as the bounds allow another one.
Fault == /\ faults < MaxFaults /\ (Mixed \/ lost = 0)
         /\ faults' = faults + 1

-----------------------------------------------------------------------------
(* Reconnection: the client's PersistentConnection *)

\* The client's socket closes; what was unread may be gone.  Only one
\* reconnection loop runs at a time, and none once no more attempts are made.
\* A protocol that was disposed does not hear of it.
SocketClose ==
    /\ Dead("client", conn["client"])
    /\ over # "gave up"
    /\ looping' = (looping \/ over = "no")
    /\ wire' = [wire EXCEPT ![conn["client"]]["client"] = <<>>]
    /\ UNCHANGED <<protocol, writer, conn, broken, okSent, attached, awaitingOk, trouble, history>>

\* An attempt of _runReconnectingLoop has got a socket, and has passed it to
\* beginAcceptReconnection, which brings a protocol back to life that was
\* disposed meanwhile.  Its auth and connectionType requests are on their way.
Reconnect ==
    /\ looping /\ ~awaitingOk
    /\ conn["client"] < MaxConns
    /\ awaitingOk' = TRUE
    /\ isReconnecting' = [isReconnecting EXCEPT !["client"] = TRUE]
    /\ mayRequestReplay' = [mayRequestReplay EXCEPT !["client"] = TRUE]
    /\ isPaused' = [isPaused EXCEPT !["client"] = FALSE]
    /\ held' = [held EXCEPT !["client"] = <<>>]
    /\ conn' = [conn EXCEPT !["client"] = @ + 1]
    /\ wire' = [wire EXCEPT ![conn["client"]]["client"] = <<>>]
    /\ over' = IF over = "failed" THEN over ELSE "no"
    /\ UNCHANGED <<outgoingUnackMsg, outgoingMsgId, outgoingAckId, outgoingAckTimeout, incomingMsgId,
                   incomingAckId, incomingAckTimeout, broken, okSent, attached, looping, faults, lost, history>>

\* The client's handshake will not be answered any more.
NoAnswer ==
    \/ Dead("client", conn["client"])
    \/ /\ conn["client"] \in okSent
       /\ \A i \in 1..Len(Incoming("client")) : Incoming("client")[i].type # "Control"

\* The attempt runs into its time limit: its listener is disposed, the loop
\* goes on unless no more attempts are to be made, and the protocol stays on
\* the socket until the next attempt has got one.  If the answer would still
\* have come this is a fault.
HandshakeTimeout ==
    /\ awaitingOk
    /\ awaitingOk' = FALSE
    /\ looping' = (over # "failed")
    /\ IF NoAnswer
       THEN UNCHANGED faults
       ELSE Fault
    /\ UNCHANGED <<protocol, writer, network, lost, over, history>>

\* safeDisposeProtocolAndSocket, whose acceptDisconnect tells the protocol's
\* users: the timers are cleared, nothing is read or written on the socket any
\* more.  (What a paused writer holds back stays there until it is replaced.)
DisposeProtocol ==
    /\ outgoingAckTimeout' = [outgoingAckTimeout EXCEPT !["client"] = FALSE]
    /\ incomingAckTimeout' = [incomingAckTimeout EXCEPT !["client"] = FALSE]
    /\ broken' = broken \cup {conn["client"]}
    /\ wire' = [wire EXCEPT ![conn["client"]]["client"] = <<>>]
    /\ UNCHANGED <<isReconnecting, outgoingUnackMsg, outgoingMsgId, outgoingAckId, incomingMsgId,
                   incomingAckId, mayRequestReplay, writer, conn, okSent, attached, faults, lost, history>>

\* Mutant: the loop gives up and tells nobody.
GiveUpSilently ==
    /\ looping
    /\ looping' = FALSE
    /\ awaitingOk' = FALSE
    /\ UNCHANGED <<protocol, writer, network, trouble, history>>

\* The loop gives up: the server answers with an error, the attempts are used
\* up, or an attempt fails with an error that is not taken for a temporary one.
\* For the management connection this is final, for every connection of the
\* window; nothing remembers it for an extension host connection, where a
\* later socket timeout starts the loop again.
GiveUp ==
    /\ looping
    /\ looping' = FALSE
    /\ awaitingOk' = FALSE
    /\ over' = IF ExtHost /\ over # "failed" THEN "gave up" ELSE "failed"
    /\ DisposeProtocol

\* triggerPermanentFailure on behalf of another connection, or dispose: no
\* attempt is made after the one that is under way.
PermanentFailure ==
    /\ over # "failed"
    /\ over' = "failed"
    /\ DisposeProtocol
    /\ UNCHANGED loop

\* The loop finds that no more attempts are to be made: after its wait, or
\* after an attempt that did not get a socket.
LoopEnds ==
    /\ looping /\ ~awaitingOk /\ over = "failed"
    /\ looping' = FALSE
    /\ UNCHANGED <<protocol, writer, network, awaitingOk, trouble, history>>

-----------------------------------------------------------------------------
(* Reconnection: the server *)

\* What is written to the client on connection c while no protocol of this
\* model owns the server's end of it.
ToClient(w, c, msgs) ==
    IF Dead("server", c) THEN w ELSE [w EXCEPT ![c]["client"] = @ \o msgs]

\* Mutant: the client goes on writing while the socket changes hands.
AnswerHandshakeNoPause(c) ==
    /\ ExtHost
    /\ c <= conn["client"] /\ c \notin okSent
    /\ okSent' = okSent \cup {c}
    /\ wire' = ToClient(wire, c, <<Plain("Control", 0)>>)
    /\ UNCHANGED <<protocol, writer, conn, broken, attached, loop, trouble, history>>

\* _handleConnectionType for an extension host: pause the client's writer,
\* confirm, and pass the socket to the process.
AnswerHandshake(c) ==
    /\ ExtHost
    /\ c <= conn["client"] /\ c \notin okSent
    /\ okSent' = okSent \cup {c}
    /\ wire' = ToClient(wire, c, <<Plain("Pause", 0), Plain("Control", 0)>>)
    /\ UNCHANGED <<protocol, writer, conn, broken, attached, loop, trouble, history>>

\* beginAcceptReconnection and endAcceptReconnection in one go, on the socket
\* that was passed on (extension host, which then sends Resume) or right
\* after the handshake (management connection).  The first n messages went
\* to the protocol that did the handshake, or were lost with the socket's
\* listeners on the way to the process.  The connection may be one that the
\* client has given up meanwhile.
AcceptReconnection(c, n) ==
    /\ c <= conn["client"] /\ c \notin attached
    /\ ExtHost <=> c \in okSent
    /\ okSent' = okSent \cup {c}
    /\ attached' = attached \cup {c}
    /\ conn' = [conn EXCEPT !["server"] = c]
    /\ LET unread == wire[c]["server"]
           left   == [wire EXCEPT ![conn["server"]]["server"] = <<>>,
                                  ![c]["server"] = SubSeq(unread, n + 1, Len(unread))]
           ok     == IF ExtHost THEN <<>> ELSE <<Plain("Control", 0)>>
           resume == IF ExtHost THEN <<Plain("Resume", 0)>> ELSE <<>>
       IN  wire' = ToClient(left, c, ok \o Encoded(WrittenAfterReconnection("server")) \o resume)
    /\ isPaused' = [isPaused EXCEPT !["server"] = FALSE]
    /\ held' = [held EXCEPT !["server"] = <<>>]
    /\ mayRequestReplay' = [mayRequestReplay EXCEPT !["server"] = TRUE]
    /\ incomingAckId' = [incomingAckId EXCEPT !["server"] = incomingMsgId["server"]]
    /\ outgoingAckTimeout' = [outgoingAckTimeout EXCEPT !["server"] =
            RecvAckCheck("server", outgoingMsgId["server"] > outgoingAckId["server"], FALSE)]
    /\ UNCHANGED <<isReconnecting, outgoingUnackMsg, outgoingMsgId, outgoingAckId, incomingMsgId,
                   incomingAckTimeout, broken, loop, trouble, history>>

-----------------------------------------------------------------------------
(* The environment *)

\* A connection stops carrying data, with or without the ends noticing.
Break(c) ==
    /\ Fault
    /\ c <= conn["client"] /\ c \notin broken
    /\ broken' = broken \cup {c}
    /\ UNCHANGED <<protocol, writer, conn, wire, okSent, attached, loop, lost, over, history>>

\* The transport loses one message.
Lose(c, p, i) ==
    /\ lost < MaxLosses /\ (Mixed \/ faults = 0)
    /\ i \in 1..Len(wire[c][p])
    /\ lost' = lost + 1
    /\ wire' = [wire EXCEPT ![c][p] = SubSeq(@, 1, i - 1) \o SubSeq(@, i + 1, Len(@))]
    /\ UNCHANGED <<protocol, writer, conn, broken, okSent, attached, loop, faults, over, history>>

\* Ten seconds since the last replay request.
ReplayTimePasses(p) ==
    /\ ~mayRequestReplay[p]
    /\ mayRequestReplay' = [mayRequestReplay EXCEPT ![p] = TRUE]
    /\ UNCHANGED <<isReconnecting, outgoingUnackMsg, outgoingMsgId, outgoingAckId, outgoingAckTimeout,
                   incomingMsgId, incomingAckId, incomingAckTimeout,
                   writer, network, loop, trouble, history>>

-----------------------------------------------------------------------------

Receive(p) == \/ ReceiveRegular(p) \/ ReceiveBare(p) \/ ReceiveReplayRequest(p)
              \/ ReceivePause(p) \/ ReceiveResume(p) \/ ReceiveControl(p)

Next ==
    \/ \E p \in Peers : \/ Send(p) \/ SendKeepAlive(p)
                        \/ IncomingAckTimeout(p) \/ OutgoingAckTimeout(p)
                        \/ ReceiveRegular(p) \/ ReceiveBare(p) \/ ReceiveReplayRequest(p)
                        \/ ReceivePause(p) \/ ReceiveResume(p) \/ ReceiveControl(p)
                        \/ ReplayTimePasses(p)
    \/ SocketClose \/ Reconnect \/ HandshakeTimeout
    \/ GiveUp \/ PermanentFailure \/ LoopEnds
    \/ \E c \in Conns : AnswerHandshake(c)
    \/ \E c \in Conns : \E n \in 0..Len(wire[c]["server"]) : AcceptReconnection(c, n)
    \/ \E c \in Conns : Break(c)
    \/ \E c \in Conns, p \in Peers : \E i \in 1..Len(wire[c][p]) : Lose(c, p, i)

\* The event loops read their sockets and run their timers; a socket that is
\* dead is reported in the end (the keep-alives see to that); the loop of the
\* client tries again; the server answers every handshake it gets.
Fairness ==
    /\ \A p \in Peers : /\ WF_vars(Receive(p))
                        /\ WF_vars(IncomingAckTimeout(p))
                        /\ WF_vars(OutgoingAckTimeout(p))
    /\ WF_vars(SocketClose /\ ~looping)
    /\ WF_vars(Reconnect)
    /\ WF_vars(HandshakeTimeout /\ NoAnswer)
    /\ \A c \in Conns : WF_vars(AnswerHandshake(c)) /\ WF_vars(\E n \in 0..Len(wire[c]["server"]) : AcceptReconnection(c, n))

Spec == Init /\ [][Next]_vars /\ Fairness

-----------------------------------------------------------------------------
(* Properties *)

TypeOK ==
    /\ isReconnecting \in [Peers -> BOOLEAN]
    /\ outgoingUnackMsg \in [Peers -> Seq(Messages)]
    /\ outgoingMsgId \in [Peers -> 0..MaxMsgs]
    /\ outgoingAckId \in [Peers -> 0..MaxMsgs]
    /\ outgoingAckTimeout \in [Peers -> BOOLEAN]
    /\ incomingMsgId \in [Peers -> 0..MaxMsgs]
    /\ incomingAckId \in [Peers -> 0..MaxMsgs]
    /\ incomingAckTimeout \in [Peers -> BOOLEAN]
    /\ mayRequestReplay \in [Peers -> BOOLEAN]
    /\ isPaused \in [Peers -> BOOLEAN]
    /\ held \in [Peers -> Seq(Messages)]
    /\ conn \in [Peers -> Conns]
    /\ wire \in [Conns -> [Peers -> Seq(Messages)]]
    /\ broken \in SUBSET Conns
    /\ okSent \in SUBSET Conns
    /\ attached \in SUBSET Conns
    /\ looping \in BOOLEAN
    /\ awaitingOk \in BOOLEAN
    /\ faults \in 0..MaxFaults
    /\ lost \in 0..MaxLosses
    /\ over \in {"no", "gave up", "failed"}
    /\ sent \in [Peers -> 0..MaxMsgs]
    /\ delivered \in [Peers -> Seq(Nat)]

\* onMessage reports the other party's messages in the order they were sent,
\* each one once, across any number of reconnections, replays and duplicates.
ExactlyOnceInOrder ==
    \A p \in Peers :
        /\ Len(delivered[p]) <= sent[Other(p)]
        /\ \A i \in 1..Len(delivered[p]) : delivered[p][i] = i

\* A message leaves the queue of unacknowledged messages only when the other
\* party has reported it: until then it can be sent again.
UnackedUntilDelivered ==
    \A p \in Peers :
        /\ outgoingAckId[p] <= Len(delivered[Other(p)])
        /\ Len(outgoingUnackMsg[p]) = sent[p] - outgoingAckId[p]
        /\ \A i \in 1..Len(outgoingUnackMsg[p]) : outgoingUnackMsg[p][i].data = outgoingAckId[p] + i

\* While messages of the client are unacknowledged and it is not reconnecting,
\* a timer is armed that will notice a dead socket, or the loop that replaces
\* the socket has started, unless the connection has been given up.
SocketIsWatched ==
    Len(outgoingUnackMsg["client"]) > 0 /\ ~isReconnecting["client"] /\ over = "no"
        => outgoingAckTimeout["client"] \/ looping

\* The client's protocol leaves its reconnecting state, in which send writes
\* nothing, once the connections stop failing, or else the connection is given
\* up and the protocol's users are told: none of the ways out of the
\* reconnection loop leaves it waiting silently.
ReconnectingIsTemporary ==
    isReconnecting["client"] ~> (~isReconnecting["client"] \/ over # "no")

\* While the transport has dropped nothing, no message is ever missed: a
\* replay request is not needed, reconnections and the handing over of the
\* socket to the extension host process included.
NoGap ==
    lost = 0 => \A p \in Peers : \A i \in 1..Len(Incoming(p)) :
        Incoming(p)[i].type = "Regular" =>
            \/ Incoming(p)[i].id <= incomingMsgId[p] + 1
            \/ \E j \in 1..(i - 1) : /\ Incoming(p)[j].type = "Regular"
                                     /\ Incoming(p)[j].id = Incoming(p)[i].id - 1

\* The message at the head of the socket shows that earlier ones are missing,
\* and a replay may be asked for.
GapShows(p, n) ==
    /\ Len(Incoming(p)) > 0
    /\ Head(Incoming(p)).id = n /\ n > incomingMsgId[p] + 1
    /\ mayRequestReplay[p]

\* A gap that shows when 10 s have passed since the last replay request is
\* filled, up to the message that showed it, unless the transport drops yet
\* another message or the connection is given up.  Nothing is promised of a gap
\* that shows within the 10 s: no request is sent for it, and if nothing is
\* sent later it stays until the next reconnection.
MissedIsReplayed ==
    \A p \in Peers, n \in 2..MaxMsgs, k \in 1..MaxLosses :
        (GapShows(p, n) /\ lost = k) ~> (Len(delivered[p]) >= n \/ lost > k \/ over # "no")

\* Once the connections stop failing, the acknowledgements get through too:
\* the queue of unacknowledged messages empties again and again, unless the
\* connection is given up.
QueueDrains ==
    \A p \in Peers : []<>(Len(outgoingUnackMsg[p]) = 0 \/ over # "no")

KeepsProgress ==
    \A p \in Peers : incomingMsgId'[p] >= incomingMsgId[p] /\ outgoingAckId'[p] >= outgoingAckId[p]

\* What was reported or acknowledged is never taken back.
ProgressIsKept == [][KeepsProgress]_vars

Channel == INSTANCE ReliableChannel

\* The two protocols implement the abstract channel: every step is a Send, a
\* Deliver or invisible.
ImplementsChannel == Channel!Safety

\* Once the connections stop failing, everything that was sent is reported,
\* unless the connection is given up: the liveness of the abstract channel, on
\* a transport that drops nothing.
EverythingArrives == [](over = "no") => Channel!Fairness

\* The same where the transport may drop a message: then all may be waiting for
\* ever, for if it was the last one nothing shows that it is missing.
ArrivesUnlessLost ==
    \A p \in Peers : []<>(lost > 0 \/ over # "no" \/ Len(delivered[p]) = sent[Other(p)])

=============================================================================
