------------------------------ MODULE Framing ------------------------------
(***************************************************************************)
(* One direction of one connection, byte by byte: send_message writes the  *)
(* length of a message and then the message in chunks, each with a send of *)
(* its own; receive_message reads whatever recv returns until it has the   *)
(* length, and then the message (Server/Server.cpp, Client/Client.cpp,     *)
(* which have the same two functions).                                     *)
(*                                                                         *)
(* From the server to a client, several threads send: broadcasts hold      *)
(* connections_mutex; the handler that owns the connection sends the user  *)
(* ID, bulk messages and errors on it without.  From a client to the       *)
(* server there is one thread, its main thread.                            *)
(***************************************************************************)
EXTENDS Integers, Sequences, FiniteSets

CONSTANTS Threads,        \* those that send
          Owner,          \* the one among them that may do so without mutex
          Messages,
          Size,           \* [Messages -> bytes]
          PrefixSize,     \* sizeof(messageLength)
          BUFFER_SIZE,    \* the longest chunk
          Capacity,       \* how much fits into the socket's buffers
          MaxSent,        \* a bound: messages sent
          MaxGarbage      \* a bound: lengths read where there is none

NoThread == "no thread"
NotSent  == "not sent"

ASSUME OwnerAssumption == Owner \in Threads /\ NoThread \notin Threads
ASSUME SizeAssumption == Size \in [Messages -> Nat \ {0}] /\ NotSent \notin Messages
ASSUME BufferAssumption ==
    /\ PrefixSize \in Nat \ {0}
    /\ BUFFER_SIZE \in Nat \ {0}
    /\ Capacity \in Nat /\ PrefixSize <= Capacity /\ BUFFER_SIZE <= Capacity
ASSUME BoundsAssumption == MaxSent \in Nat /\ MaxGarbage \in Nat

VARIABLES
    \* the sending process
    connections_mutex,    \* its holder, or NoThread
    pc,                   \* per thread: "idle", "own" or "broadcast"
    message,              \* per thread: what it sends
    frame,                \* per thread: the number of its frame, 0 before the length
    bytesSent,            \* per thread
    killed,               \* by SIGPIPE
    \* the connection
    socket,               \* "open", "closed" (by the sender), "left", "reset"
    stream,               \* bytes under way
    \* the receiver
    reader,               \* "length", "body" or, after a disconnection, "ended"
    messageLength, body,
    received,             \* the strings receive_message returned
    \* history
    sent,                 \* the frames in the order in which they were begun
    torn                  \* one was begun in the middle of another, without mutex

senderVars == <<connections_mutex, pc, message, frame, bytesSent>>
readerVars == <<reader, messageLength, body, received>>
vars == <<senderVars, killed, socket, stream, readerVars, sent, torn>>

\* A byte is named by its frame and its place in it.
Byte(n, at) == [frame |-> n, at |-> at]
Bytes(n, before, count) == [k \in 1..count |-> Byte(n, before + k)]

FrameSize(n) == PrefixSize + Size[sent[n].message]
Body(n)      == Bytes(n, PrefixSize, Size[sent[n].message])

\* Where the next frame starts, counted in bytes.
EndOfSent == IF sent = <<>> THEN 0 ELSE sent[Len(sent)].start + FrameSize(Len(sent))

Init ==
    /\ connections_mutex = NoThread
    /\ pc = [t \in Threads |-> "idle"]
    /\ message \in [Threads -> Messages]
    /\ frame = [t \in Threads |-> 0]
    /\ bytesSent = [t \in Threads |-> 0]
    /\ killed = FALSE
    /\ socket = "open"
    /\ stream = <<>>
    /\ reader = "length"
    /\ messageLength = 0
    /\ body = <<>>
    /\ received = <<>>
    /\ sent = <<>>
    /\ torn = FALSE

-----------------------------------------------------------------------------
(* The sending process.                                                    *)

\* The send system call: it blocks while the buffers are full; it fails
\* unnoticed on a closed descriptor; what is sent to a peer that left is
\* answered by a reset, after which it fails too and SIGPIPE, which the
\* program neither handles nor ignores, may end the process.
Write(bytes) ==
    \/ /\ socket = "open"
       /\ Len(stream) + Len(bytes) <= Capacity
       /\ stream' = stream \o bytes
       /\ UNCHANGED <<socket, killed>>
    \/ socket = "closed" /\ UNCHANGED <<stream, socket, killed>>
    \/ socket = "left" /\ socket' \in {"left", "reset"} /\ UNCHANGED <<stream, killed>>
    \/ socket = "reset" /\ killed' \in BOOLEAN /\ UNCHANGED <<stream, socket>>

\* A bound on the frames, those about to be begun included.
MayBegin ==
    Len(sent) + Cardinality({t \in Threads : pc[t] # "idle" /\ frame[t] = 0}) < MaxSent

Begin(t, how) ==
    /\ ~ killed
    /\ MayBegin
    /\ pc[t] = "idle"
    /\ pc' = [pc EXCEPT ![t] = how]
    /\ \E m \in Messages : message' = [message EXCEPT ![t] = m]
    /\ UNCHANGED <<frame, bytesSent, killed, socket, stream, readerVars, sent, torn>>

\* Mutant of BeginBroadcast: it does not wait for the mutex.
BeginBroadcastUnlocked(t) == Begin(t, "broadcast") /\ connections_mutex' = t

\* broadcast_message, and what else sends under connections_mutex.
BeginBroadcast(t) ==
    /\ connections_mutex = NoThread
    /\ connections_mutex' = t
    /\ Begin(t, "broadcast")

\* client_handler and check_client on their own connection.
BeginOwn(t) ==
    /\ t = Owner
    /\ Begin(t, "own")
    /\ UNCHANGED connections_mutex

\* The length goes out in one send.
SendLength(t) ==
    LET n == Len(sent) + 1
    IN  /\ ~ killed
        /\ pc[t] # "idle" /\ frame[t] = 0
        /\ Write(Bytes(n, 0, PrefixSize))
        /\ frame' = [frame EXCEPT ![t] = n]
        /\ IF socket = "open"
           THEN /\ sent' = Append(sent, [message |-> message[t], start |-> EndOfSent])
                /\ torn' = (torn \/ \E u \in Threads \ {t} :
                                       frame[u] # 0 /\ "own" \in {pc[t], pc[u]})
           ELSE UNCHANGED <<sent, torn>>
        /\ UNCHANGED <<connections_mutex, pc, message, bytesSent, readerVars>>

\* After the last chunk the thread is done, and a broadcast unlocks.
Finish(t) ==
    /\ pc' = [pc EXCEPT ![t] = "idle"]
    /\ frame' = [frame EXCEPT ![t] = 0]
    /\ bytesSent' = [bytesSent EXCEPT ![t] = 0]
    /\ connections_mutex' = IF pc[t] = "broadcast" THEN NoThread ELSE connections_mutex

ChunkSize(t) ==
    LET remainingBytes == Size[message[t]] - bytesSent[t]
    IN  IF remainingBytes < BUFFER_SIZE THEN remainingBytes ELSE BUFFER_SIZE

\* Mutant of SendChunk: the mutex is kept after the last chunk.
SendChunkKeepsLock(t) ==
    /\ ~ killed
    /\ frame[t] # 0
    /\ Write(Bytes(frame[t], PrefixSize + bytesSent[t], ChunkSize(t)))
    /\ IF bytesSent[t] + ChunkSize(t) = Size[message[t]]
       THEN /\ pc' = [pc EXCEPT ![t] = "idle"]
            /\ frame' = [frame EXCEPT ![t] = 0]
            /\ bytesSent' = [bytesSent EXCEPT ![t] = 0]
            /\ UNCHANGED connections_mutex
       ELSE /\ bytesSent' = [bytesSent EXCEPT ![t] = @ + ChunkSize(t)]
            /\ UNCHANGED <<pc, frame, connections_mutex>>
    /\ UNCHANGED <<message, readerVars, sent, torn>>

SendChunk(t) ==
    /\ ~ killed
    /\ frame[t] # 0
    /\ Write(Bytes(frame[t], PrefixSize + bytesSent[t], ChunkSize(t)))
    /\ IF bytesSent[t] + ChunkSize(t) = Size[message[t]]
       THEN Finish(t)
       ELSE /\ bytesSent' = [bytesSent EXCEPT ![t] = @ + ChunkSize(t)]
            /\ UNCHANGED <<pc, frame, connections_mutex>>
    /\ UNCHANGED <<message, readerVars, sent, torn>>

\* disconnect_user: the handler itself closes the socket, under the mutex.  When
\* it has unread bytes of the client's, what is under way is discarded.
Close ==
    /\ ~ killed
    /\ socket # "closed"
    /\ connections_mutex = NoThread
    /\ pc[Owner] = "idle"
    /\ socket' = "closed"
    /\ stream' \in {stream, <<>>}
    /\ UNCHANGED <<senderVars, killed, readerVars, sent, torn>>

-----------------------------------------------------------------------------
(* The receiver.                                                           *)

\* recv: some bytes, at most those asked for and those there are.
Recv(asked, k) ==
    /\ reader # "ended"
    /\ k \in 1..Len(stream) /\ k <= asked
    /\ stream' = SubSeq(stream, k + 1, Len(stream))
    /\ UNCHANGED <<senderVars, killed, socket, sent, torn>>

\* The number the first bytes make: the length of a message if they are one's.
Lengths ==
    LET of == {n \in DOMAIN sent : SubSeq(stream, 1, PrefixSize) = Bytes(n, 0, PrefixSize)}
    IN  IF of = {} THEN 0..MaxGarbage ELSE {Size[sent[n].message] : n \in of}

\* Fewer bytes than the length has are taken for a disconnection.
RecvLength ==
    /\ reader = "length"
    /\ \E k \in 1..Len(stream) :
          /\ Recv(PrefixSize, k)
          /\ IF k < PrefixSize
             THEN reader' = "ended" /\ UNCHANGED <<messageLength, received>>
             ELSE /\ messageLength' \in Lengths
                  /\ IF messageLength' = 0
                     THEN received' = Append(received, <<>>) /\ UNCHANGED reader
                     ELSE reader' = "body" /\ UNCHANGED received
    /\ UNCHANGED body

\* Mutant of RecvBody: each recv asks for a whole buffer.
RecvBodyTooMuch ==
    /\ reader = "body"
    /\ \E k \in 1..Len(stream) :
          /\ Recv(BUFFER_SIZE, k)
          /\ LET read == body \o SubSeq(stream, 1, k)
             IN  IF Len(read) < messageLength
                 THEN body' = read /\ UNCHANGED <<reader, received>>
                 ELSE /\ received' = Append(received, read)
                      /\ body' = <<>> /\ reader' = "length"
    /\ UNCHANGED messageLength

\* Mutant of RecvBody: the loop runs once more when all is there.
RecvBodyLate ==
    /\ reader = "body"
    /\ \E k \in 1..Len(stream) :
          /\ k <= BUFFER_SIZE
          /\ Recv(messageLength + 1 - Len(body), k)
          /\ LET read == body \o SubSeq(stream, 1, k)
             IN  IF Len(read) <= messageLength
                 THEN body' = read /\ UNCHANGED <<reader, received>>
                 ELSE /\ received' = Append(received, read)
                      /\ body' = <<>> /\ reader' = "length"
    /\ UNCHANGED messageLength

\* A chunk is appended; when all is there, receive_message returns.
RecvBody ==
    /\ reader = "body"
    /\ \E k \in 1..Len(stream) :
          /\ k <= BUFFER_SIZE
          /\ Recv(messageLength - Len(body), k)
          /\ LET read == body \o SubSeq(stream, 1, k)
             IN  IF Len(read) < messageLength
                 THEN body' = read /\ UNCHANGED <<reader, received>>
                 ELSE /\ received' = Append(received, read)
                      /\ body' = <<>> /\ reader' = "length"
    /\ UNCHANGED messageLength

\* recv returns 0: receive_message returns "Disconnect".
RecvEnd ==
    /\ reader # "ended"
    /\ socket = "closed" /\ stream = <<>>
    /\ reader' = "ended"
    /\ UNCHANGED <<senderVars, killed, socket, stream, messageLength, body, received, sent, torn>>

\* The receiving process closes its end, or ends; it always does after a
\* disconnection, and may at any time.
Leave ==
    /\ socket = "open"
    /\ socket' = "left"
    /\ stream' = <<>>
    /\ reader' = "ended"
    /\ UNCHANGED <<senderVars, killed, messageLength, body, received, sent, torn>>

-----------------------------------------------------------------------------
Thread(t) == SendLength(t) \/ SendChunk(t)

Reader == RecvLength \/ RecvBody \/ RecvEnd

Next ==
    \/ \E t \in Threads : BeginBroadcast(t) \/ BeginOwn(t) \/ Thread(t)
    \/ Close \/ Reader \/ Leave

Spec == Init /\ [][Next]_vars

\* A thread that sends goes on, the reader reads, and a receiver that was told
\* of a disconnection closes its end.  Nobody must begin to send.
Fairness ==
    /\ \A t \in Threads : WF_vars(Thread(t))
    /\ WF_vars(Reader)
    /\ WF_vars(Leave /\ reader = "ended")

FairSpec == Spec /\ Fairness

-----------------------------------------------------------------------------
(* Properties.                                                             *)

FrameBytes == [frame : Nat \ {0}, at : Nat \ {0}]
Frames     == [message : Messages, start : Nat]

TypeOK ==
    /\ connections_mutex \in Threads \cup {NoThread}
    /\ pc \in [Threads -> {"idle", "own", "broadcast"}]
    /\ message \in [Threads -> Messages]
    /\ frame \in [Threads -> Nat]
    /\ bytesSent \in [Threads -> Nat]
    /\ \A t \in Threads : bytesSent[t] < Size[message[t]]
    /\ killed \in BOOLEAN
    /\ socket \in {"open", "closed", "left", "reset"}
    /\ stream \in Seq(FrameBytes)
    /\ reader \in {"length", "body", "ended"}
    /\ messageLength \in Nat
    /\ body \in Seq(FrameBytes)
    /\ reader = "body" => Len(body) < messageLength
    /\ received \in Seq(Seq(FrameBytes))
    /\ sent \in Seq(Frames)
    /\ torn \in BOOLEAN

\* What the receiver got, message by message: a string made of other bytes than
\* those of the message that is due is none of the messages.
Delivered ==
    [i \in DOMAIN received |->
        IF i <= Len(sent) /\ received[i] = Body(i) THEN sent[i].message ELSE NotSent]
UnderWay == [i \in 1 .. Len(sent) - Len(received) |-> sent[Len(received) + i].message]

CH == INSTANCE Channel WITH
        queue <- UnderWay, delivered <- Delivered, over <- (reader = "ended")

\* Whatever the sizes of the messages, and wherever send and recv cut them,
\* receive_message returns the strings given to send_message, complete, once
\* and in order, until it returns "Disconnect": send_message and
\* receive_message, and broadcast_message's mutex, make a channel of messages
\* of a stream of bytes.  This is so until the handler sends on its own
\* connection, without mutex, in the middle of a broadcast or the reverse.
ImplementsChannel ==
    /\ CH!Init
    /\ [][torn' \/ CH!Next]_(CH!vars)

\* A message that was begun is received, unless the connection or the sending
\* process ends or a message was torn: no byte is left waiting for another.
EveryMessageArrives ==
    \A n \in 1..MaxSent :
        Len(sent) >= n ~> Len(received) >= n \/ reader = "ended" \/ torn \/ killed

\* broadcast_message holds connections_mutex while it sends, and everything
\* else that needs the mutex waits for it; as long as clients read or leave,
\* it does let it go, unless SIGPIPE ends the server.
BroadcastEnds ==
    connections_mutex # NoThread ~> connections_mutex = NoThread \/ killed
=============================================================================
