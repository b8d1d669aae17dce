--------------------------- MODULE ProtocolStream ---------------------------
(***************************************************************************)
(* One direction of a socket: the ProtocolWriter that frames messages and  *)
(* buffers them, the bytes in flight, and the ProtocolReader that puts     *)
(* messages together again from chunks of any size (ipc.net.ts), through   *)
(* the moment when the server's handshake code takes what its reader has   *)
(* not read yet and passes it, with the socket, to the next protocol.      *)
(*                                                                         *)
(* A byte is a number.  All fields of a header before its DATA_LENGTH are  *)
(* abstracted to the message's id, and every field to bytes that hold all  *)
(* of it, so a reader that has lost its place decodes nonsense as the code *)
(* would.  PersistentProtocol builds on what is checked here: that a       *)
(* socket carries whole messages.                                          *)
(***************************************************************************)
EXTENDS Naturals, SequencesExt

CONSTANTS
    HeaderLength,   \* ProtocolConstants.HeaderLength: 13 in the code
    MaxBody,        \* bound: bytes in a message's data
    MaxMessages     \* bound: messages written

ASSUME StreamBounds ==
    /\ HeaderLength \in Nat /\ HeaderLength >= 2
    /\ MaxBody \in Nat
    /\ MaxMessages \in Nat \ {0}

VARIABLES
    data,           \* ProtocolWriter._data, concatenated
    writeTimeout,   \* whether _writeNowTimeout is armed
    isPaused,       \* ProtocolWriter._isPaused
    socket,         \* bytes in flight
    chunks,         \* ChunkStream._chunks of the reader's _incomingData
    totalLength,    \* ChunkStream._totalLength
    state,          \* ProtocolReader._state
    running,        \* which loop of the reader is on the stack: see Loops
    byteCount,      \* ChunkStream._read: bytes still to read
    result,         \* ChunkStream._read: bytes read so far
    handedOver,     \* the socket has gone to the protocol that will keep it
    sent,           \* history: messages written
    received        \* history: messages onMessage has reported

vars == <<data, writeTimeout, isPaused, socket, chunks, totalLength, state,
          running, byteCount, result, handedOver, sent, received>>

writer == <<data, writeTimeout, isPaused>>
reader == <<chunks, totalLength, state, running, byteCount, result>>

\* None, the one of acceptChunk, and within it or within readEntireBuffer the
\* one of ChunkStream._read.
Loops == {"none", "accept", "read", "readEntire"}

-----------------------------------------------------------------------------
(* Messages and their bytes *)

\* The n-th message with size bytes of data, no two bytes of all data alike.
Message(n, size) == [id |-> n, data |-> [i \in 1..size |-> n * (MaxBody + 1) + i]]

Header(m) == [i \in 1..HeaderLength |-> IF i < HeaderLength THEN m.id ELSE Len(m.data)]

Bytes(m) == Header(m) \o m.data

HeaderState == [readHead |-> TRUE, readLen |-> HeaderLength, id |-> 0]

Init ==
    /\ data = <<>>
    /\ writeTimeout = FALSE
    /\ isPaused = FALSE
    /\ socket = <<>>
    /\ chunks = <<>>
    /\ totalLength = 0
    /\ state = HeaderState
    /\ running = "none"
    /\ byteCount = 0
    /\ result = <<>>
    /\ handedOver = FALSE
    /\ sent = <<>>
    /\ received = <<>>

-----------------------------------------------------------------------------
(* ProtocolWriter *)

\* write, with _writeSoon, _bufferAdd and _scheduleWriting.  The first message
\* stands for the handshake's last request.  Until the server has confirmed,
\* the client writes at most keep-alives, which are empty.
Write(size) ==
    /\ Len(sent) < MaxMessages
    /\ (size = 0 \/ sent = <<>> \/ handedOver)
    /\ LET m == Message(Len(sent) + 1, size)
       IN  /\ data' = data \o Bytes(m)
           /\ sent' = Append(sent, m)
    /\ writeTimeout' = (writeTimeout \/ data = <<>>)
    /\ UNCHANGED <<isPaused, socket, reader, handedOver, received>>

\* The timer of _scheduleWriting runs _writeNow.
WriteNow ==
    /\ writeTimeout
    /\ writeTimeout' = FALSE
    /\ IF isPaused
       THEN UNCHANGED <<data, socket>>
       ELSE data' = <<>> /\ socket' = socket \o data
    /\ UNCHANGED <<isPaused, reader, handedOver, sent, received>>

\* flush and drain run _writeNow at once, and leave the timer as it is.
Flush ==
    /\ ~isPaused /\ data # <<>>
    /\ data' = <<>>
    /\ socket' = socket \o data
    /\ UNCHANGED <<writeTimeout, isPaused, reader, handedOver, sent, received>>

\* A Pause message has arrived.
Pause ==
    /\ ~isPaused
    /\ isPaused' = TRUE
    /\ UNCHANGED <<data, writeTimeout, socket, reader, handedOver, sent, received>>

\* Mutant: resuming waits for the next write to arm the timer.
ResumeSilently ==
    /\ isPaused
    /\ isPaused' = FALSE
    /\ UNCHANGED <<data, writeTimeout, socket, reader, handedOver, sent, received>>

\* A Resume message has arrived.
Resume ==
    /\ isPaused
    /\ isPaused' = FALSE
    /\ writeTimeout' = TRUE
    /\ UNCHANGED <<data, socket, reader, handedOver, sent, received>>

-----------------------------------------------------------------------------
(* ChunkStream *)

\* read: the loop that will take n bytes starts, on behalf of caller.
StartRead(caller, n) ==
    /\ running' = caller
    /\ byteCount' = n
    /\ result' = <<>>

\* Mutant: a read across chunks does not cut what it took off the last one.
ReadPartUncut ==
    /\ Len(Head(chunks)) > byteCount
    /\ result' = result \o SubSeq(Head(chunks), 1, byteCount)
    /\ chunks' = chunks
    /\ totalLength' = totalLength - byteCount
    /\ byteCount' = 0

\* This chunk will survive.
ReadPart ==
    /\ Len(Head(chunks)) > byteCount
    /\ result' = result \o SubSeq(Head(chunks), 1, byteCount)
    /\ chunks' = <<SubSeq(Head(chunks), byteCount + 1, Len(Head(chunks)))>> \o Tail(chunks)
    /\ totalLength' = totalLength - byteCount
    /\ byteCount' = 0

\* This chunk will be entirely read.
ReadWhole ==
    /\ Len(Head(chunks)) <= byteCount
    /\ result' = result \o Head(chunks)
    /\ chunks' = Tail(chunks)
    /\ totalLength' = totalLength - Len(Head(chunks))
    /\ byteCount' = byteCount - Len(Head(chunks))

\* One turn of the loop of _read, advancing.  (Its fast paths do what the loop
\* does in one turn.)
ReadChunk ==
    /\ running \in {"read", "readEntire"}
    /\ byteCount > 0 /\ chunks # <<>>
    /\ ReadPart \/ ReadWhole
    /\ UNCHANGED <<writer, socket, state, running, handedOver, sent, received>>

-----------------------------------------------------------------------------
(* ProtocolReader *)

\* The socket's onData: acceptChunk puts the chunk into the stream and starts
\* its loop.
AcceptChunk(n) ==
    /\ running = "none"
    /\ chunks' = Append(chunks, SubSeq(socket, 1, n))
    /\ totalLength' = totalLength + n
    /\ socket' = SubSeq(socket, n + 1, Len(socket))
    /\ running' = "accept"
    /\ UNCHANGED <<writer, state, byteCount, result, handedOver, sent, received>>

\* The loop goes on: there are bytes enough.
ReadNext ==
    /\ running = "accept"
    /\ totalLength >= state.readLen
    /\ StartRead("read", state.readLen)
    /\ UNCHANGED <<writer, socket, chunks, totalLength, state, handedOver, sent, received>>

\* They were a header.
ReadHeader ==
    /\ running = "read" /\ byteCount = 0
    /\ state.readHead
    /\ running' = "accept"
    /\ state' = [readHead |-> FALSE, readLen |-> result[HeaderLength], id |-> result[1]]
    /\ UNCHANGED <<writer, socket, chunks, totalLength, byteCount, result, handedOver, sent, received>>

\* They were a body: onMessage fires.
ReadBody ==
    /\ running = "read" /\ byteCount = 0
    /\ ~state.readHead
    /\ running' = "accept"
    /\ state' = HeaderState
    /\ received' = Append(received, [id |-> state.id, data |-> result])
    /\ UNCHANGED <<writer, socket, chunks, totalLength, byteCount, result, handedOver, sent>>

\* The loop is over: more bytes are needed.
ReadLoopEnds ==
    /\ running = "accept"
    /\ totalLength < state.readLen
    /\ running' = "none"
    /\ UNCHANGED <<writer, socket, chunks, totalLength, state, byteCount, result, handedOver, sent, received>>

\* _handleConnectionType, some time after the request was reported or in that
\* very call of onMessage (then disposal ends the loop): readEntireBuffer ...
\* (A chunk accepted just before could as well have been accepted afterwards.)
HandOver ==
    /\ ~handedOver
    /\ Len(received) > 0
    /\ running = "none" \/ (running = "accept" /\ state.readHead)
    /\ handedOver' = TRUE
    /\ StartRead("readEntire", totalLength)
    /\ UNCHANGED <<writer, socket, chunks, totalLength, state, sent, received>>

\* Mutant: the next protocol is not given what was read from the socket.
TakeOverWithoutChunk ==
    /\ running = "readEntire" /\ byteCount = 0
    /\ chunks' = <<>>
    /\ totalLength' = 0
    /\ running' = "none"
    /\ state' = HeaderState
    /\ UNCHANGED <<writer, socket, byteCount, result, handedOver, sent, received>>

\* ... dispose, and the new protocol's reader accepts the bytes as first chunk.
TakeOver ==
    /\ running = "readEntire" /\ byteCount = 0
    /\ chunks' = IF result = <<>> THEN <<>> ELSE <<result>>
    /\ totalLength' = Len(result)
    /\ running' = IF result = <<>> THEN "none" ELSE "accept"
    /\ state' = HeaderState
    /\ UNCHANGED <<writer, socket, byteCount, result, handedOver, sent, received>>

-----------------------------------------------------------------------------

Next ==
    \/ \E size \in 0..MaxBody : Write(size)
    \/ WriteNow \/ Flush \/ Pause \/ Resume
    \/ \E n \in 1..Len(socket) : AcceptChunk(n)
    \/ ReadNext \/ ReadChunk \/ ReadHeader \/ ReadBody \/ ReadLoopEnds
    \/ HandOver \/ TakeOver

Spec == Init /\ [][Next]_vars

-----------------------------------------------------------------------------
(* Properties *)

TypeOK ==
    /\ data \in Seq(Nat)
    /\ socket \in Seq(Nat)
    /\ chunks \in Seq(Seq(Nat) \ {<<>>})
    /\ totalLength = Len(FlattenSeq(chunks))
    /\ state \in [readHead : BOOLEAN, readLen : 0..(HeaderLength + MaxBody), id : 0..MaxMessages]
    /\ writeTimeout \in BOOLEAN /\ isPaused \in BOOLEAN
    /\ running \in Loops /\ byteCount \in Nat /\ result \in Seq(Nat) /\ handedOver \in BOOLEAN
    /\ Len(sent) <= MaxMessages /\ Len(received) <= MaxMessages

\* Whatever pieces the socket cuts the bytes into, whenever the writer was
\* paused and whenever the socket is handed over, onMessage reports the
\* messages that were written, unchanged and in order.
FramesIntact == IsPrefix(received, sent)

\* No complete message is left behind: when neither a timer nor a loop is
\* active and no byte is in flight, every message has been reported, except
\* those that a paused writer keeps back.
NothingStranded ==
    ~writeTimeout /\ running = "none" /\ socket = <<>> /\ ~isPaused => received = sent

\* Between the ends no byte is lost or invented: what the reader holds, what
\* is in flight and what the writer buffers are the bytes of the messages not
\* yet reported, but for a header that was already read.
BytesConserved ==
    LET unread  == SubSeq(sent, Len(received) + 1, Len(sent))
        stream  == FlattenSeq([i \in 1..Len(unread) |-> Bytes(unread[i])])
        decoded == IF state.readHead THEN 0 ELSE HeaderLength
        taken   == IF running \in {"read", "readEntire"} THEN result ELSE <<>>
    IN  taken \o FlattenSeq(chunks) \o socket \o data = SubSeq(stream, decoded + 1, Len(stream))

=============================================================================
