--------------------------- MODULE FramingProofs ---------------------------
(***************************************************************************)
(* Framing is type-correct and, for all sizes of messages, prefixes and    *)
(* buffers, implements a channel of messages until a message is torn.  The *)
(* invariant behind the second counts bytes: those read and those under    *)
(* way are, in this order, the first ones of the frames begun.             *)
(***************************************************************************)
EXTENDS Framing, TLAPS

\* Who sends holds the mutex or owns the connection; what is not being sent
\* has sent nothing; what is not being read has no body.
Sending ==
    /\ \A t \in Threads :
          /\ pc[t] = "idle" => frame[t] = 0
          /\ frame[t] = 0 => bytesSent[t] = 0
          /\ pc[t] = "broadcast" <=> connections_mutex = t
          /\ pc[t] = "own" => t = Owner
    /\ reader = "length" => body = <<>>

-----------------------------------------------------------------------------
(* Sequences of bytes.                                                     *)

\* Bytes(n, before, count) has the bytes its name says, in order.
LEMMA BytesElements ==
    ASSUME NEW n \in Nat \ {0}, NEW before \in Nat, NEW count \in Nat
    PROVE  /\ Bytes(n, before, count) \in Seq(FrameBytes)
           /\ Len(Bytes(n, before, count)) = count
           /\ \A k \in 1..count : Bytes(n, before, count)[k] = Byte(n, before + k)
<1>1. Bytes(n, before, count) = [k \in 1..count |-> Byte(n, before + k)]
  BY DEF Bytes
<1>2. \A k \in 1..count : Byte(n, before + k) \in FrameBytes
  BY DEF Byte, FrameBytes
<1>3. Bytes(n, before, count) \in Seq(FrameBytes)
  BY <1>1, <1>2
<1>4. Len(Bytes(n, before, count)) = count
  BY <1>1
<1> QED
  BY <1>1, <1>3, <1>4

\* What recv leaves of the stream, and what it takes.
LEMMA Rest ==
    ASSUME NEW S, NEW s \in Seq(S), NEW k \in 1..Len(s)
    PROVE  /\ SubSeq(s, k + 1, Len(s)) \in Seq(S)
           /\ Len(SubSeq(s, k + 1, Len(s))) = Len(s) - k
           /\ \A i \in 1 .. Len(s) - k : SubSeq(s, k + 1, Len(s))[i] = s[k + i]
           /\ SubSeq(s, 1, k) \in Seq(S)
           /\ Len(SubSeq(s, 1, k)) = k
           /\ \A i \in 1..k : SubSeq(s, 1, k)[i] = s[i]
  OBVIOUS

LEMMA TailElements ==
    ASSUME NEW S, NEW s \in Seq(S), s # <<>>
    PROVE  Tail(s) = [i \in 1 .. Len(s) - 1 |-> s[i + 1]]
<1> DEFINE t == [i \in 1 .. Len(s) - 1 |-> s[i + 1]]
<1>1. t \in Seq(S) /\ Len(t) = Len(s) - 1 /\ \A i \in 1 .. Len(s) - 1 : t[i] = s[i + 1]
  OBVIOUS
<1> HIDE DEF t
<1>2. Tail(s) \in Seq(S) /\ Len(Tail(s)) = Len(s) - 1
      /\ \A i \in 1 .. Len(s) - 1 : Tail(s)[i] = s[i + 1]
  OBVIOUS
<1>3. Tail(s) = t
  BY <1>1, <1>2
<1> QED
  BY <1>3 DEF t

LEMMA Joined ==
    ASSUME NEW S, NEW s \in Seq(S), NEW r \in Seq(S)
    PROVE  /\ s \o r \in Seq(S)
           /\ Len(s \o r) = Len(s) + Len(r)
           /\ \A i \in DOMAIN s : (s \o r)[i] = s[i]
           /\ \A i \in 1..Len(r) : (s \o r)[Len(s) + i] = r[i]
  OBVIOUS

-----------------------------------------------------------------------------
(* Types.                                                                  *)

LEMMA InitTypes == Init => TypeOK /\ Sending
<1> SUFFICES ASSUME Init PROVE TypeOK /\ Sending
  OBVIOUS
<1>1. \A t \in Threads : bytesSent[t] < Size[message[t]]
  BY SizeAssumption DEF Init
<1>2. stream \in Seq(FrameBytes) /\ body \in Seq(FrameBytes) /\ sent \in Seq(Frames)
      /\ received \in Seq(Seq(FrameBytes))
  <2> DEFINE Strings == Seq(FrameBytes)
  <2> HIDE DEF Strings
  <2>1. received \in Seq(Strings)
    BY DEF Init
  <2> QED
    BY <2>1 DEF Init, Strings
<1>3. TypeOK
  BY <1>1, <1>2 DEF Init, TypeOK
<1>4. Sending
  BY OwnerAssumption DEF Init, Sending
<1> QED
  BY <1>3, <1>4

LEMMA BeginTypes ==
    ASSUME TypeOK, Sending, NEW t \in Threads, BeginBroadcast(t) \/ BeginOwn(t)
    PROVE  TypeOK' /\ Sending'
<1>1. PICK how \in {"own", "broadcast"} :
        /\ Begin(t, how)
        /\ how = "broadcast" => connections_mutex = NoThread /\ connections_mutex' = t
        /\ how = "own" => t = Owner /\ UNCHANGED connections_mutex
  BY DEF BeginBroadcast, BeginOwn
<1>2. PICK m \in Messages : message' = [message EXCEPT ![t] = m]
  BY <1>1 DEF Begin
<1>3. bytesSent[t] = 0 /\ bytesSent' = bytesSent
  BY <1>1 DEF Begin, Sending
<1>4. \A u \in Threads : bytesSent'[u] < Size[message'[u]]
  BY <1>2, <1>3, SizeAssumption DEF TypeOK
<1>5. TypeOK'
  BY <1>1, <1>2, <1>4 DEF TypeOK, Begin, readerVars
<1>6. Sending'
  BY <1>1, OwnerAssumption DEF TypeOK, Sending, Begin, readerVars
<1> QED
  BY <1>5, <1>6

\* Every send leaves a stream of bytes and one of the four sockets.
LEMMA WriteTypes ==
    ASSUME TypeOK, NEW bytes \in Seq(FrameBytes), Write(bytes)
    PROVE  /\ stream' \in Seq(FrameBytes)
           /\ socket' \in {"open", "closed", "left", "reset"}
           /\ killed' \in BOOLEAN
<1>1. stream \in Seq(FrameBytes) /\ killed \in BOOLEAN
      /\ socket \in {"open", "closed", "left", "reset"}
  BY DEF TypeOK
<1>2. stream \o bytes \in Seq(FrameBytes)
  BY <1>1
<1> QED
  BY <1>1, <1>2 DEF Write

\* The frames begun have a message and a place in the stream each.
LEMMA SentTypes ==
    ASSUME TypeOK
    PROVE  \A n \in DOMAIN sent :
              /\ sent[n].start \in Nat /\ sent[n].message \in Messages
              /\ FrameSize(n) \in Nat /\ FrameSize(n) > PrefixSize
<1>1. \A n \in DOMAIN sent : sent[n].start \in Nat /\ sent[n].message \in Messages
  <2> SUFFICES ASSUME NEW n \in DOMAIN sent
               PROVE  sent[n].start \in Nat /\ sent[n].message \in Messages
    OBVIOUS
  <2>1. sent[n] \in Frames
    BY DEF TypeOK
  <2> QED
    BY <2>1 DEF Frames
<1>2. \A n \in DOMAIN sent : FrameSize(n) \in Nat /\ FrameSize(n) > PrefixSize
  BY <1>1, SizeAssumption, BufferAssumption DEF FrameSize
<1> QED
  BY <1>1, <1>2

LEMMA EndOfSentType == ASSUME TypeOK PROVE EndOfSent \in Nat
<1>1. sent # <<>> => Len(sent) \in DOMAIN sent
  BY DEF TypeOK
<1> QED
  BY SentTypes, <1>1 DEF EndOfSent

LEMMA SendLengthTypes ==
    ASSUME TypeOK, Sending, NEW t \in Threads, SendLength(t)
    PROVE  TypeOK' /\ Sending'
<1> DEFINE n == Len(sent) + 1
           bytes == Bytes(n, 0, PrefixSize)
<1>1. n \in Nat \ {0}
  BY DEF TypeOK
<1>2. bytes \in Seq(FrameBytes)
  BY <1>1, BytesElements, BufferAssumption
<1>3. Write(bytes) /\ frame' = [frame EXCEPT ![t] = n] /\ pc[t] # "idle"
  BY DEF SendLength
<1>4. sent' \in Seq(Frames) /\ torn' \in BOOLEAN
  <2>1. CASE socket = "open"
    <3>1. [message |-> message[t], start |-> EndOfSent] \in Frames
      BY EndOfSentType DEF TypeOK, Frames
    <3>2. sent' = Append(sent, [message |-> message[t], start |-> EndOfSent]) /\ torn' \in BOOLEAN
      BY <2>1 DEF SendLength, TypeOK
    <3> QED
      BY <3>1, <3>2 DEF TypeOK
  <2>2. CASE socket # "open"
    BY <2>2 DEF SendLength, TypeOK
  <2> QED
    BY <2>1, <2>2
<1>5. frame' \in [Threads -> Nat]
  BY <1>1, <1>3 DEF TypeOK
<1>6. UNCHANGED <<connections_mutex, pc, message, bytesSent, readerVars>>
  BY DEF SendLength
<1>7. TypeOK'
  BY <1>2, <1>3, <1>4, <1>5, <1>6, WriteTypes DEF TypeOK, readerVars
<1>8. Sending'
  BY <1>1, <1>3, <1>6 DEF Sending, TypeOK, readerVars
<1> QED
  BY <1>7, <1>8

\* A chunk is not empty, and is within the message.
LEMMA ChunkSizes ==
    ASSUME TypeOK, NEW t \in Threads
    PROVE  /\ ChunkSize(t) \in Nat \ {0}
           /\ bytesSent[t] + ChunkSize(t) <= Size[message[t]]
           /\ bytesSent[t] \in Nat /\ Size[message[t]] \in Nat \ {0}
<1>1. message[t] \in Messages /\ bytesSent[t] \in Nat /\ bytesSent[t] < Size[message[t]]
  BY DEF TypeOK
<1>2. Size[message[t]] \in Nat \ {0}
  BY <1>1, SizeAssumption
<1> QED
  BY <1>1, <1>2, BufferAssumption DEF ChunkSize

LEMMA SendChunkTypes ==
    ASSUME TypeOK, Sending, NEW t \in Threads, SendChunk(t)
    PROVE  TypeOK' /\ Sending'
<1> DEFINE before == PrefixSize + bytesSent[t]
           bytes == Bytes(frame[t], before, ChunkSize(t))
<1>1. frame[t] \in Nat \ {0}
  BY DEF SendChunk, TypeOK
<1>2. bytes \in Seq(FrameBytes)
  <2>1. /\ bytesSent[t] \in Nat /\ ChunkSize(t) \in Nat \ {0}
        /\ bytesSent[t] + ChunkSize(t) <= Size[message[t]]
    BY ChunkSizes
  <2>2. before \in Nat
    BY <2>1, BufferAssumption
  <2> HIDE DEF before
  <2> QED
    BY <1>1, <2>1, <2>2, BytesElements
<1>3. Write(bytes)
  BY DEF SendChunk
<1>4. UNCHANGED <<message, readerVars, sent, torn>>
  BY DEF SendChunk
<1>5. /\ \A u \in Threads : bytesSent[u] < Size[message[u]]
      /\ bytesSent \in [Threads -> Nat] /\ frame \in [Threads -> Nat]
      /\ pc \in [Threads -> {"idle", "own", "broadcast"}]
      /\ connections_mutex \in Threads \cup {NoThread}
      /\ 0 < Size[message[t]] /\ bytesSent[t] + ChunkSize(t) \in Nat
      /\ bytesSent[t] + ChunkSize(t) <= Size[message[t]] /\ Size[message[t]] \in Nat
  BY ChunkSizes DEF TypeOK
<1>6. /\ bytesSent' \in [Threads -> Nat]
      /\ \A u \in Threads : bytesSent'[u] < Size[message[u]]
      /\ frame' \in [Threads -> Nat]
      /\ pc' \in [Threads -> {"idle", "own", "broadcast"}]
      /\ connections_mutex' \in Threads \cup {NoThread}
  <2>1. CASE bytesSent[t] + ChunkSize(t) = Size[message[t]]
    BY <1>5, <2>1 DEF SendChunk, Finish
  <2>2. CASE bytesSent[t] + ChunkSize(t) # Size[message[t]]
    <3>1. /\ bytesSent' = [bytesSent EXCEPT ![t] = bytesSent[t] + ChunkSize(t)]
          /\ UNCHANGED <<pc, frame, connections_mutex>>
      BY <2>2 DEF SendChunk
    <3> QED
      BY <1>5, <2>2, <3>1
  <2> QED
    BY <2>1, <2>2
<1>7. TypeOK'
  BY <1>2, <1>3, <1>4, <1>6, WriteTypes DEF TypeOK, readerVars
<1>8. CASE bytesSent[t] + ChunkSize(t) = Size[message[t]]
  <2>1. /\ pc' = [pc EXCEPT ![t] = "idle"]
        /\ frame' = [frame EXCEPT ![t] = 0]
        /\ bytesSent' = [bytesSent EXCEPT ![t] = 0]
        /\ connections_mutex' = IF pc[t] = "broadcast" THEN NoThread ELSE connections_mutex
    BY <1>8 DEF SendChunk, Finish
  <2> QED
    BY <1>4, <1>7, <2>1, OwnerAssumption DEF Sending, TypeOK, readerVars
<1>9. CASE bytesSent[t] + ChunkSize(t) # Size[message[t]]
  <2>1. /\ bytesSent' = [bytesSent EXCEPT ![t] = @ + ChunkSize(t)]
        /\ UNCHANGED <<pc, frame, connections_mutex>>
    BY <1>9 DEF SendChunk
  <2> QED
    BY <1>1, <1>4, <1>7, <2>1 DEF Sending, TypeOK, readerVars
<1> QED
  BY <1>7, <1>8, <1>9

LEMMA RecvLengthTypes ==
    ASSUME TypeOK, Sending, RecvLength
    PROVE  TypeOK' /\ Sending'
<1>1. PICK k \in 1..Len(stream) :
        /\ Recv(PrefixSize, k)
        /\ IF k < PrefixSize
           THEN reader' = "ended" /\ UNCHANGED <<messageLength, received>>
           ELSE /\ messageLength' \in Lengths
                /\ IF messageLength' = 0
                   THEN received' = Append(received, <<>>) /\ UNCHANGED reader
                   ELSE reader' = "body" /\ UNCHANGED received
  BY DEF RecvLength
<1>2. stream' \in Seq(FrameBytes)
  BY <1>1, Rest DEF Recv, TypeOK
<1>3. Lengths \subseteq Nat
  <2>1. \A n \in DOMAIN sent : Size[sent[n].message] \in Nat
    BY SentTypes, SizeAssumption
  <2> QED
    BY <2>1, BoundsAssumption DEF Lengths
<1>4. body = <<>> /\ UNCHANGED body /\ reader = "length"
  BY DEF RecvLength, Sending
<1>5. <<>> \in Seq(FrameBytes)
  OBVIOUS
<1>6. received' \in Seq(Seq(FrameBytes))
  <2> DEFINE Strings == Seq(FrameBytes)
  <2>1. received \in Seq(Strings) /\ <<>> \in Strings
    BY DEF TypeOK
  <2>2. received' = Append(received, <<>>) \/ received' = received
    BY <1>1
  <2> HIDE DEF Strings
  <2>3. received' \in Seq(Strings)
    BY <2>1, <2>2
  <2> QED
    BY <2>3 DEF Strings
<1>7. messageLength' \in Nat /\ reader' \in {"length", "body", "ended"}
      /\ (reader' = "body" => messageLength' # 0)
  BY <1>1, <1>3, <1>4 DEF TypeOK
<1>8. UNCHANGED <<senderVars, killed, socket, sent, torn>>
  BY <1>1 DEF Recv
<1>9. TypeOK'
  BY <1>2, <1>4, <1>6, <1>7, <1>8 DEF TypeOK, senderVars
<1>10. Sending'
  BY <1>4, <1>8 DEF Sending, senderVars
<1> QED
  BY <1>9, <1>10

LEMMA RecvBodyTypes ==
    ASSUME TypeOK, Sending, RecvBody
    PROVE  TypeOK' /\ Sending'
<1>1. PICK k \in 1..Len(stream) :
        /\ Recv(messageLength - Len(body), k)
        /\ LET read == body \o SubSeq(stream, 1, k)
           IN  IF Len(read) < messageLength
               THEN body' = read /\ UNCHANGED <<reader, received>>
               ELSE /\ received' = Append(received, read)
                    /\ body' = <<>> /\ reader' = "length"
  BY DEF RecvBody
<1> DEFINE read == body \o SubSeq(stream, 1, k)
<1>2. stream' \in Seq(FrameBytes) /\ SubSeq(stream, 1, k) \in Seq(FrameBytes)
  BY <1>1, Rest DEF Recv, TypeOK
<1>3. read \in Seq(FrameBytes)
  BY <1>2 DEF TypeOK
<1> HIDE DEF read
<1>4. \/ Len(read) < messageLength /\ body' = read /\ UNCHANGED <<reader, received>>
      \/ received' = Append(received, read) /\ body' = <<>> /\ reader' = "length"
  BY <1>1 DEF read
<1>5. received' \in Seq(Seq(FrameBytes)) /\ body' \in Seq(FrameBytes)
  <2> DEFINE Strings == Seq(FrameBytes)
  <2>1. received \in Seq(Strings) /\ read \in Strings /\ <<>> \in Strings
    BY <1>3 DEF TypeOK
  <2> HIDE DEF Strings
  <2>2. received' \in Seq(Strings) /\ body' \in Strings
    BY <1>4, <2>1
  <2> QED
    BY <2>2 DEF Strings
<1>6. UNCHANGED <<senderVars, killed, socket, sent, torn, messageLength>> /\ reader = "body"
  BY <1>1 DEF Recv, RecvBody
<1>7. TypeOK'
  BY <1>2, <1>4, <1>5, <1>6 DEF TypeOK, senderVars
<1>8. Sending'
  BY <1>4, <1>6 DEF Sending, senderVars
<1> QED
  BY <1>7, <1>8

LEMMA OtherTypes ==
    ASSUME TypeOK, Sending, Close \/ RecvEnd \/ Leave \/ UNCHANGED vars
    PROVE  TypeOK' /\ Sending'
<1>1. UNCHANGED <<senderVars, sent, torn, messageLength, body, received>>
  BY DEF Close, RecvEnd, Leave, vars, senderVars, readerVars
<1>2. reader' \in {reader, "ended"} /\ stream' \in {stream, <<>>}
      /\ socket' \in {socket, "closed", "left"} /\ killed' = killed
  BY DEF Close, RecvEnd, Leave, vars, senderVars, readerVars
<1>3. TypeOK'
  <2>1. stream \in Seq(FrameBytes) /\ <<>> \in Seq(FrameBytes)
    BY DEF TypeOK
  <2>2. stream' \in Seq(FrameBytes)
    BY <1>2, <2>1
  <2>3. reader' \in {"length", "body", "ended"} /\ (reader' = "body" => reader = "body")
    BY <1>2 DEF TypeOK
  <2>4. socket' \in {"open", "closed", "left", "reset"}
    BY <1>2 DEF TypeOK
  <2> QED
    BY <1>1, <1>2, <2>2, <2>3, <2>4 DEF TypeOK, senderVars
<1>4. Sending'
  BY <1>1, <1>2 DEF Sending, senderVars
<1> QED
  BY <1>3, <1>4

-----------------------------------------------------------------------------
(* Where the bytes are.  The frames lie one behind the other, counted in   *)
(* bytes since the beginning of the connection.                            *)

Starts(n) == IF n \in DOMAIN sent THEN sent[n].start ELSE EndOfSent

Adjacent == \A n \in DOMAIN sent : sent[n].start + FrameSize(n) = Starts(n + 1)
Apart ==
    \A n, m \in DOMAIN sent : n < m => sent[n].start + FrameSize(n) <= sent[m].start

\* The bytes read: the messages received, and what was read of the next one.
Taken == Starts(Len(received) + 1) + (IF reader = "body" THEN PrefixSize + Len(body) ELSE 0)

\* Those under way come behind them, in the order of their places.
InPlace(b, place) ==
    /\ b.frame \in DOMAIN sent
    /\ b.at \in 1..FrameSize(b.frame)
    /\ sent[b.frame].start + b.at = place
StreamInPlace == \A k \in DOMAIN stream : InPlace(stream[k], Taken + k)

\* What is written is all that was begun, but for the rest of one frame.
Written ==
    /\ \A t \in Threads : frame[t] # 0 =>
          /\ frame[t] = Len(sent) /\ frame[t] \in DOMAIN sent
          /\ message[t] = sent[Len(sent)].message
          /\ Taken + Len(stream) = sent[Len(sent)].start + PrefixSize + bytesSent[t]
    /\ (\A t \in Threads : frame[t] = 0) => Taken + Len(stream) = EndOfSent

OneFrame == \A t, u \in Threads : frame[t] # 0 /\ frame[u] # 0 => t = u

\* The body being read is the one that is due.
Due ==
    reader = "body" =>
        /\ Len(received) + 1 \in DOMAIN sent
        /\ messageLength = Size[sent[Len(received) + 1].message]
        /\ \A k \in DOMAIN body : body[k] = Byte(Len(received) + 1, PrefixSize + k)

Order ==
    /\ Adjacent /\ Apart
    /\ ~ torn =>
          /\ Len(received) <= Len(sent)
          /\ socket = "open" => OneFrame
          /\ reader # "ended" => StreamInPlace /\ Due
          /\ socket = "open" /\ reader # "ended" => Written

IInv == TypeOK /\ Sending /\ Order

-----------------------------------------------------------------------------
(* Frames.                                                                 *)

\* As long as no frame is begun, all stay where they are.
LEMMA SameFrames ==
    ASSUME UNCHANGED sent
    PROVE  /\ EndOfSent' = EndOfSent
           /\ \A n : Starts(n)' = Starts(n) /\ FrameSize(n)' = FrameSize(n)
           /\ Adjacent => Adjacent'
           /\ Apart => Apart'
<1>1. EndOfSent' = EndOfSent /\ \A n : FrameSize(n)' = FrameSize(n)
  BY DEF EndOfSent, FrameSize
<1>2. \A n : Starts(n)' = Starts(n)
  BY <1>1 DEF Starts
<1> QED
  BY <1>1, <1>2 DEF Adjacent, Apart

LEMMA StartsType == ASSUME TypeOK PROVE \A n : Starts(n) \in Nat
  BY SentTypes, EndOfSentType DEF Starts

\* No frame reaches beyond the last one's end.
LEMMA EndIsLast ==
    ASSUME TypeOK, Apart, NEW n \in DOMAIN sent
    PROVE  sent[n].start + FrameSize(n) <= EndOfSent
<1>1. n \in 1..Len(sent) /\ Len(sent) \in DOMAIN sent /\ Len(sent) \in Nat /\ sent # <<>>
  BY DEF TypeOK
<1>2. EndOfSent = sent[Len(sent)].start + FrameSize(Len(sent))
  BY <1>1 DEF EndOfSent
<1>3. CASE n = Len(sent)
  BY <1>2, <1>3, SentTypes
<1>4. CASE n < Len(sent)
  <2>1. sent[n].start + FrameSize(n) <= sent[Len(sent)].start
    BY <1>1, <1>4 DEF Apart
  <2> QED
    BY <1>1, <1>2, <2>1, SentTypes
<1> QED
  BY <1>1, <1>3, <1>4

\* A frame that is begun lies behind all others.
LEMMA AddFrame ==
    ASSUME TypeOK, TypeOK', Adjacent, Apart,
           NEW f \in Frames, f.start = EndOfSent, sent' = Append(sent, f),
           NEW l \in Nat, l = Len(sent) + 1
    PROVE  /\ Adjacent' /\ Apart'
           /\ DOMAIN sent' = 1..l /\ Len(sent') = l
           /\ \A n \in DOMAIN sent : sent'[n] = sent[n] /\ FrameSize(n)' = FrameSize(n)
           /\ sent'[l] = f
           /\ \A n \in 1..l : Starts(n)' = Starts(n)
           /\ EndOfSent' = EndOfSent + FrameSize(l)'
<1>1. /\ sent \in Seq(Frames) /\ Len(sent) \in Nat /\ DOMAIN sent = 1..Len(sent)
      /\ DOMAIN sent' = 1..l /\ Len(sent') = l
      /\ \A n \in DOMAIN sent : sent'[n] = sent[n]
      /\ sent'[l] = f /\ sent' # <<>>
      /\ f.start \in Nat /\ l \in DOMAIN sent' /\ l \notin DOMAIN sent
      /\ DOMAIN sent' = DOMAIN sent \cup {l}
      /\ \A n \in DOMAIN sent : n \in DOMAIN sent'
  <2>1. sent \in Seq(Frames)
    BY DEF TypeOK
  <2>2. Len(sent) \in Nat /\ DOMAIN sent = 1..Len(sent)
    BY <2>1
  <2>3. Len(sent') = l /\ DOMAIN sent' = 1..l /\ sent'[l] = f
        /\ \A n \in 1..Len(sent) : sent'[n] = sent[n]
    BY <2>1
  <2>4. sent' # <<>>
    BY <2>3
  <2>5. f.start \in Nat
    BY DEF Frames
  <2>6. 1..l = 1..Len(sent) \cup {l} /\ l \in 1..l /\ l \notin 1..Len(sent)
    BY <2>2
  <2> QED
    BY <2>1, <2>2, <2>3, <2>4, <2>5, <2>6
<1>2. \A n \in DOMAIN sent : FrameSize(n)' = FrameSize(n)
  BY <1>1 DEF FrameSize
<1>3. EndOfSent' = EndOfSent + FrameSize(l)'
  <2>1. EndOfSent' = sent'[Len(sent')].start + (FrameSize(Len(sent)))'
    BY <1>1 DEF EndOfSent
  <2>2. (FrameSize(Len(sent)))' = FrameSize(l)'
    BY <1>1 DEF FrameSize
  <2> QED
    BY <1>1, <2>1, <2>2
<1>4. \A n \in 1..l : Starts(n)' = Starts(n)
  <2>1. \A n \in DOMAIN sent : Starts(n)' = Starts(n)
    BY <1>1 DEF Starts
  <2>2. Starts(l)' = f.start /\ Starts(l) = EndOfSent
    BY <1>1 DEF Starts
  <2> QED
    BY <1>1, <2>1, <2>2
<1>5. Adjacent'
  <2> SUFFICES ASSUME NEW n \in 1..l
               PROVE  sent'[n].start + FrameSize(n)' = Starts(n + 1)'
    BY <1>1 DEF Adjacent
  <2>1. CASE n \in DOMAIN sent
    <3>1. sent[n].start + FrameSize(n) = Starts(n + 1) /\ n + 1 \in 1..l
      BY <1>1, <2>1 DEF Adjacent
    <3> QED
      BY <1>1, <1>2, <1>4, <2>1, <3>1
  <2>2. CASE n = l
    <3>1. l + 1 \notin DOMAIN sent'
      BY <1>1
    <3>2. Starts(n + 1)' = EndOfSent'
      BY <2>2, <3>1 DEF Starts
    <3>3. sent'[n].start = EndOfSent /\ FrameSize(n)' = FrameSize(l)'
      BY <1>1, <2>2
    <3> QED
      BY <1>3, <3>2, <3>3
  <2> QED
    BY <1>1, <2>1, <2>2
<1>6. Apart'
  <2> SUFFICES ASSUME NEW n \in 1..l, NEW m \in 1..l, n < m
               PROVE  sent'[n].start + FrameSize(n)' <= sent'[m].start
    BY <1>1 DEF Apart
  <2>1. n \in DOMAIN sent
    BY <1>1
  <2>2. CASE m \in DOMAIN sent
    BY <1>1, <1>2, <2>1, <2>2 DEF Apart
  <2>3. CASE m = l
    BY <1>1, <1>2, <2>1, <2>3, EndIsLast
  <2> QED
    BY <1>1, <2>2, <2>3
<1> QED
  BY <1>1, <1>2, <1>3, <1>4, <1>5, <1>6

\* The byte at a place within a frame is this frame's.
LEMMA Locate ==
    ASSUME TypeOK, Apart, NEW n \in DOMAIN sent, NEW b \in FrameBytes, NEW place \in Nat,
           InPlace(b, place),
           sent[n].start < place, place <= sent[n].start + FrameSize(n)
    PROVE  b = Byte(n, place - sent[n].start)
<1>1. /\ b.frame \in DOMAIN sent /\ b.at \in 1..FrameSize(b.frame)
      /\ sent[b.frame].start + b.at = place
  BY DEF InPlace
<1>2. /\ n \in Nat /\ b.frame \in Nat
      /\ sent[n].start \in Nat /\ FrameSize(n) \in Nat
      /\ sent[b.frame].start \in Nat /\ FrameSize(b.frame) \in Nat
  <2>1. sent \in Seq(Frames)
    BY DEF TypeOK
  <2>2. \A m \in DOMAIN sent : m \in Nat
    BY <2>1
  <2> QED
    BY <1>1, <2>2, SentTypes
<1>3. ~ (n < b.frame)
  <2> SUFFICES ASSUME n < b.frame PROVE FALSE
    OBVIOUS
  <2>1. sent[n].start + FrameSize(n) <= sent[b.frame].start
    BY <1>1 DEF Apart
  <2> QED
    BY <1>1, <1>2, <2>1
<1>4. ~ (b.frame < n)
  <2> SUFFICES ASSUME b.frame < n PROVE FALSE
    OBVIOUS
  <2>1. sent[b.frame].start + FrameSize(b.frame) <= sent[n].start
    BY <1>1 DEF Apart
  <2> QED
    BY <1>1, <1>2, <2>1
<1>5. b.frame = n /\ b.at = place - sent[n].start
  BY <1>1, <1>2, <1>3, <1>4
<1> QED
  BY <1>5 DEF FrameBytes, Byte

-----------------------------------------------------------------------------
(* The receiver reads what is due.                                         *)

LEMMA TakenType == ASSUME TypeOK PROVE Taken \in Nat
  BY StartsType, BufferAssumption DEF Taken, TypeOK

\* The next length is that of the next message.
LEMMA LengthRead ==
    ASSUME IInv, ~ torn, reader = "length", Len(stream) >= PrefixSize
    PROVE  /\ Len(received) + 1 \in DOMAIN sent
           /\ Lengths = {Size[sent[Len(received) + 1].message]}
<1> DEFINE n == Len(received) + 1
<1> USE DEF IInv
<1>1. /\ Adjacent /\ Apart /\ StreamInPlace /\ TypeOK
      /\ stream \in Seq(FrameBytes) /\ DOMAIN sent = 1..Len(sent)
      /\ PrefixSize \in Nat \ {0} /\ Len(stream) \in Nat
      /\ n \in Nat \ {0} /\ (n \notin DOMAIN sent => n = Len(sent) + 1)
      /\ Taken = Starts(n) /\ Taken \in Nat
  <2>1. Adjacent /\ Apart /\ StreamInPlace /\ TypeOK /\ Len(received) <= Len(sent)
    BY DEF Order
  <2>2. /\ stream \in Seq(FrameBytes) /\ DOMAIN sent = 1..Len(sent)
        /\ Len(received) \in Nat /\ Len(sent) \in Nat /\ Len(stream) \in Nat
    BY <2>1 DEF TypeOK
  <2>3. n \in Nat \ {0} /\ (n \notin DOMAIN sent => n = Len(sent) + 1)
    BY <2>1, <2>2
  <2>4. Taken = Starts(n) + 0 /\ Starts(n) \in Nat
    BY <2>1, StartsType DEF Taken
  <2> QED
    BY <2>1, <2>2, <2>3, <2>4, BufferAssumption
<1> HIDE DEF n
<1>2. n \in DOMAIN sent
  <2> SUFFICES ASSUME n \notin DOMAIN sent PROVE FALSE
    OBVIOUS
  <2>1. Taken = EndOfSent
    BY <1>1 DEF Starts
  <2>2. 1 \in DOMAIN stream
    BY <1>1
  <2>3. InPlace(stream[1], Taken + 1)
    BY <1>1, <2>2 DEF StreamInPlace
  <2>4. /\ stream[1].frame \in DOMAIN sent
        /\ stream[1].at \in 1..FrameSize(stream[1].frame)
        /\ sent[stream[1].frame].start + stream[1].at = Taken + 1
    BY <2>3 DEF InPlace
  <2>5. sent[stream[1].frame].start + FrameSize(stream[1].frame) <= EndOfSent
    BY <1>1, <2>4, EndIsLast
  <2>6. sent[stream[1].frame].start \in Nat /\ FrameSize(stream[1].frame) \in Nat
    BY <2>4, SentTypes
  <2> QED
    BY <1>1, <2>1, <2>4, <2>5, <2>6, EndOfSentType
<1>3. Taken = sent[n].start
  BY <1>1, <1>2 DEF Starts
<1>4. \A k \in 1..PrefixSize : stream[k] = Byte(n, k)
  <2> SUFFICES ASSUME NEW k \in 1..PrefixSize PROVE stream[k] = Byte(n, k)
    OBVIOUS
  <2> DEFINE place == Taken + k
  <2>1. k \in DOMAIN stream /\ stream[k] \in FrameBytes /\ k \in Nat
    BY <1>1
  <2>2. InPlace(stream[k], place)
    BY <1>1, <2>1 DEF StreamInPlace
  <2>3. place <= sent[n].start + FrameSize(n)
    BY <1>1, <1>2, <1>3, SentTypes
  <2>4. place \in Nat /\ sent[n].start < place /\ place - sent[n].start = k
    BY <1>1, <1>3, <2>1
  <2> HIDE DEF place
  <2>5. stream[k] = Byte(n, place - sent[n].start)
    BY <1>1, <1>2, <2>1, <2>2, <2>3, <2>4, Locate
  <2> QED
    BY <2>4, <2>5
<1>5. \A m \in DOMAIN sent :
         SubSeq(stream, 1, PrefixSize) = Bytes(m, 0, PrefixSize) <=> m = n
  <2> SUFFICES ASSUME NEW m \in DOMAIN sent
               PROVE  SubSeq(stream, 1, PrefixSize) = Bytes(m, 0, PrefixSize) <=> m = n
    OBVIOUS
  <2>1. /\ PrefixSize \in 1..Len(stream)
        /\ m \in Nat \ {0} /\ PrefixSize \in Nat
    BY <1>1
  <2>2. /\ SubSeq(stream, 1, PrefixSize) \in Seq(FrameBytes)
        /\ Len(SubSeq(stream, 1, PrefixSize)) = PrefixSize
        /\ \A k \in 1..PrefixSize : SubSeq(stream, 1, PrefixSize)[k] = stream[k]
    BY <1>1, <2>1, Rest
  <2>3. /\ Bytes(m, 0, PrefixSize) \in Seq(FrameBytes)
        /\ Len(Bytes(m, 0, PrefixSize)) = PrefixSize
        /\ \A k \in 1..PrefixSize : Bytes(m, 0, PrefixSize)[k] = Byte(m, 0 + k)
    BY <2>1, BytesElements
  <2>4. \A k \in 1..PrefixSize : Bytes(m, 0, PrefixSize)[k] = Byte(m, k)
    BY <1>1, <2>3
  <2>5. ASSUME m = n PROVE SubSeq(stream, 1, PrefixSize) = Bytes(m, 0, PrefixSize)
    <3> DEFINE s == SubSeq(stream, 1, PrefixSize)
               r == Bytes(m, 0, PrefixSize)
    <3>1. s \in Seq(FrameBytes) /\ r \in Seq(FrameBytes) /\ Len(s) = Len(r)
          /\ \A k \in 1..Len(s) : s[k] = r[k]
      BY <1>4, <2>2, <2>3, <2>4, <2>5
    <3> HIDE DEF s, r
    <3>2. s = r
      BY <3>1
    <3> QED
      BY <3>2 DEF s, r
  <2>6. ASSUME SubSeq(stream, 1, PrefixSize) = Bytes(m, 0, PrefixSize) PROVE m = n
    <3>1. 1 \in 1..PrefixSize
      BY <1>1
    <3>2. Byte(m, 1) = Byte(n, 1)
      BY <1>4, <2>2, <2>4, <2>6, <3>1
    <3> QED
      BY <3>2 DEF Byte
  <2> QED
    BY <2>5, <2>6
<1>6. {m \in DOMAIN sent : SubSeq(stream, 1, PrefixSize) = Bytes(m, 0, PrefixSize)} = {n}
  BY <1>2, <1>5
<1> QED
  BY <1>2, <1>6 DEF Lengths, n

\* What is read of a body continues the body of the message that is due.
LEMMA BodyRead ==
    ASSUME IInv, ~ torn, reader = "body",
           NEW k \in 1..Len(stream), k <= messageLength - Len(body)
    PROVE  LET read == body \o SubSeq(stream, 1, k)
               n    == Len(received) + 1
           IN  /\ n \in DOMAIN sent
               /\ read \in Seq(FrameBytes) /\ Len(read) = Len(body) + k
               /\ \A i \in DOMAIN read : read[i] = Byte(n, PrefixSize + i)
               /\ Len(read) <= Size[sent[n].message]
               /\ Len(read) = messageLength => read = Body(n)
<1> DEFINE read == body \o SubSeq(stream, 1, k)
           n    == Len(received) + 1
<1> USE DEF IInv
<1>1. /\ Apart /\ StreamInPlace /\ TypeOK /\ n \in DOMAIN sent
      /\ \A i \in DOMAIN body : body[i] = Byte(n, PrefixSize + i)
      /\ stream \in Seq(FrameBytes) /\ body \in Seq(FrameBytes)
  BY DEF Order, Due, TypeOK
<1>2. /\ messageLength = Size[sent[n].message] /\ messageLength \in Nat
      /\ PrefixSize \in Nat /\ k \in Nat /\ k > 0 /\ Len(body) \in Nat
      /\ Len(body) + k <= messageLength
      /\ sent[n].start \in Nat /\ n \in Nat \ {0}
  BY <1>1, BufferAssumption, SentTypes DEF Order, Due, TypeOK
<1>3. FrameSize(n) = PrefixSize + messageLength
  BY <1>2 DEF FrameSize
<1>4. Taken = sent[n].start + PrefixSize + Len(body)
  <2>1. Starts(n) = sent[n].start
    BY <1>1 DEF Starts
  <2>2. Taken = Starts(n) + (PrefixSize + Len(body))
    BY DEF Taken
  <2> QED
    BY <1>2, <2>1, <2>2
<1> HIDE DEF n
<1>5. \A i \in 1..k : stream[i] = Byte(n, PrefixSize + Len(body) + i)
  <2> SUFFICES ASSUME NEW i \in 1..k PROVE stream[i] = Byte(n, PrefixSize + Len(body) + i)
    OBVIOUS
  <2> DEFINE place == Taken + i
  <2>1. i \in DOMAIN stream /\ stream[i] \in FrameBytes
    BY <1>1
  <2>2. InPlace(stream[i], place)
    BY <1>1, <2>1 DEF StreamInPlace
  <2>3. /\ place \in Nat /\ sent[n].start < place
        /\ place <= sent[n].start + FrameSize(n)
        /\ place - sent[n].start = PrefixSize + Len(body) + i
    <3>1. PICK start \in Nat, l \in Nat, size \in Nat :
            start = sent[n].start /\ l = Len(body) /\ size = messageLength
      BY <1>2
    <3>2. FrameSize(n) = PrefixSize + size /\ place = start + PrefixSize + l + i
      BY <1>3, <1>4, <3>1
    <3>3. l + k <= size /\ PrefixSize \in Nat /\ k \in Nat
      BY <1>2, <3>1
    <3> HIDE DEF place
    <3>4. /\ place \in Nat /\ start < place /\ place <= start + (PrefixSize + size)
          /\ place - start = PrefixSize + l + i
      BY <3>2, <3>3
    <3> QED
      BY <3>1, <3>2, <3>4
  <2> HIDE DEF place
  <2>4. stream[i] = Byte(n, place - sent[n].start)
    BY <1>1, <2>1, <2>2, <2>3, Locate
  <2> QED
    BY <2>3, <2>4
<1>6. /\ read \in Seq(FrameBytes) /\ Len(read) = Len(body) + k
      /\ \A i \in DOMAIN body : read[i] = body[i]
      /\ \A i \in 1..k : read[Len(body) + i] = stream[i]
  <2> DEFINE s == SubSeq(stream, 1, k)
  <2>1. s \in Seq(FrameBytes) /\ Len(s) = k /\ \A i \in 1..k : s[i] = stream[i]
    BY <1>1, Rest
  <2> HIDE DEF s
  <2>2. /\ body \o s \in Seq(FrameBytes) /\ Len(body \o s) = Len(body) + k
        /\ \A i \in DOMAIN body : (body \o s)[i] = body[i]
        /\ \A i \in 1..k : (body \o s)[Len(body) + i] = s[i]
    <3>1. body \in Seq(FrameBytes) /\ s \in Seq(FrameBytes) /\ k = Len(s)
      BY <1>1, <2>1
    <3>2. /\ body \o s \in Seq(FrameBytes)
          /\ Len(body \o s) = Len(body) + Len(s)
          /\ \A i \in DOMAIN body : (body \o s)[i] = body[i]
          /\ \A i \in 1..Len(s) : (body \o s)[Len(body) + i] = s[i]
      BY <3>1, Joined
    <3>3. Len(body \o s) = Len(body) + k
      BY <3>1, <3>2
    <3>4. \A i \in 1..k : (body \o s)[Len(body) + i] = s[i]
      BY <3>1, <3>2, Zenon
    <3> QED
      BY <3>2, <3>3, <3>4
  <2> QED
    BY <2>1, <2>2 DEF s
<1> HIDE DEF read
<1>7. \A i \in DOMAIN read : read[i] = Byte(n, PrefixSize + i)
  <2> SUFFICES ASSUME NEW i \in DOMAIN read PROVE read[i] = Byte(n, PrefixSize + i)
    OBVIOUS
  <2>1. i \in 1 .. Len(body) + k /\ DOMAIN body = 1..Len(body)
    BY <1>1, <1>6
  <2>2. CASE i \in DOMAIN body
    BY <1>1, <1>6, <2>2
  <2>3. CASE i \notin DOMAIN body
    <3>1. PICK h \in 1..k : i = Len(body) + h
      <4>1. Len(body) \in Nat /\ k \in Nat
        BY <1>2
      <4>2. i \in Len(body) + 1 .. Len(body) + k
        BY <2>1, <2>3, <4>1
      <4>3. i - Len(body) \in 1..k /\ i = Len(body) + (i - Len(body))
        BY <4>1, <4>2
      <4> QED
        BY <4>3
    <3>2. read[i] = Byte(n, PrefixSize + Len(body) + h)
      BY <1>5, <1>6, <3>1
    <3>3. PrefixSize + Len(body) + h = PrefixSize + i
      BY <1>2, <3>1
    <3> QED
      BY <3>2, <3>3
  <2> QED
    BY <2>2, <2>3
<1>8. Len(read) <= Size[sent[n].message]
  BY <1>2, <1>6
<1>9. ASSUME Len(read) = messageLength PROVE read = Body(n)
  <2>1. /\ Body(n) \in Seq(FrameBytes) /\ Len(Body(n)) = messageLength
        /\ \A i \in 1..messageLength : Body(n)[i] = Byte(n, PrefixSize + i)
    <3>1. n \in Nat \ {0} /\ PrefixSize \in Nat /\ messageLength \in Nat
      BY <1>2
    <3>2. LET b == Bytes(n, PrefixSize, messageLength)
          IN  /\ b \in Seq(FrameBytes) /\ Len(b) = messageLength
              /\ \A i \in 1..messageLength : b[i] = Byte(n, PrefixSize + i)
      BY <3>1, BytesElements, ZenonT(30)
    <3>3. Body(n) = Bytes(n, PrefixSize, messageLength)
      BY <1>2 DEF Body
    <3> QED
      BY <3>2, <3>3
  <2>2. \A i \in 1..messageLength : Body(n)[i] = read[i]
    <3> SUFFICES ASSUME NEW i \in 1..messageLength PROVE Body(n)[i] = read[i]
      OBVIOUS
    <3>1. Body(n)[i] = Byte(n, PrefixSize + i)
      BY <2>1
    <3>2. i \in DOMAIN read
      BY <1>6, <1>9
    <3> QED
      BY <1>7, <3>1, <3>2
  <2> QED
    BY <1>6, <1>9, <2>1, <2>2
<1> QED
  BY <1>1, <1>6, <1>7, <1>8, <1>9 DEF read, n
-----------------------------------------------------------------------------
(* Every step keeps the order.                                             *)

LEMMA InitOrder == Init => Order
<1> SUFFICES ASSUME Init PROVE Order
  OBVIOUS
<1>1. DOMAIN sent = {} /\ DOMAIN stream = {} /\ Len(stream) = 0 /\ Len(received) = 0
      /\ Len(sent) = 0 /\ EndOfSent = 0 /\ reader = "length"
  BY DEF Init, EndOfSent
<1>2. Taken = 0
  <2>1. Starts(Len(received) + 1) = 0
    BY <1>1 DEF Starts
  <2> QED
    BY <1>1, <2>1 DEF Taken
<1>3. Written
  BY <1>1, <1>2 DEF Written, Init
<1>4. OneFrame
  BY DEF OneFrame, Init
<1> QED
  BY <1>1, <1>3, <1>4 DEF Order, Adjacent, Apart, StreamInPlace, Due

\* Bytes under way stay in place as long as the frames do.
LEMMA StayInPlace ==
    ASSUME \A n \in DOMAIN sent :
              n \in DOMAIN sent' /\ sent'[n] = sent[n] /\ FrameSize(n)' = FrameSize(n),
           NEW b, NEW place, InPlace(b, place)
    PROVE  InPlace(b, place)'
<1>1. b.frame \in DOMAIN sent /\ b.at \in 1..FrameSize(b.frame)
      /\ sent[b.frame].start + b.at = place
  BY DEF InPlace
<1>2. \A n : n = b.frame => FrameSize(n)' = FrameSize(b.frame)
  BY <1>1
<1> QED
  BY <1>1, <1>2 DEF InPlace

\* What does not send on an open connection and reads nothing.
LEMMA StillInOrder ==
    ASSUME IInv, UNCHANGED <<sent, torn, messageLength, body, received>>,
           reader' \in {reader, "ended"},
           reader' = "ended" \/ stream' \in {stream, <<>>},
           socket' = "open" =>
              /\ socket = "open" /\ UNCHANGED <<frame, bytesSent>>
              /\ reader' # "ended" => stream' = stream
              /\ \A t \in Threads : frame[t] # 0 => message'[t] = message[t]
    PROVE  Order'
<1> USE DEF IInv
<1>1. /\ Adjacent' /\ Apart' /\ EndOfSent' = EndOfSent
      /\ \A n : Starts(n)' = Starts(n) /\ FrameSize(n)' = FrameSize(n)
  BY SameFrames DEF Order
<1> SUFFICES ASSUME ~ torn
             PROVE  /\ Len(received) <= Len(sent)
                    /\ socket' = "open" => OneFrame'
                    /\ reader' # "ended" => StreamInPlace' /\ Due'
                    /\ socket' = "open" /\ reader' # "ended" => Written'
  BY <1>1 DEF Order
<1>2. Len(received) <= Len(sent) /\ (socket' = "open" => OneFrame')
  BY DEF Order, OneFrame
<1>3. ASSUME reader' # "ended" PROVE Taken' = Taken /\ StreamInPlace' /\ Due'
  <2>1. reader' = reader /\ StreamInPlace /\ Due
    BY <1>3 DEF Order
  <2>2. Taken' = Taken
    BY <1>1, <2>1 DEF Taken
  <2>3. \A b, place : InPlace(b, place) => InPlace(b, place)'
    BY <1>1, StayInPlace
  <2>4. StreamInPlace'
    <3>1. CASE stream' = stream
      BY <2>1, <2>2, <2>3, <3>1 DEF StreamInPlace
    <3>2. CASE stream' = <<>>
      BY <3>2 DEF StreamInPlace
    <3> QED
      BY <1>3, <3>1, <3>2
  <2> QED
    BY <2>1, <2>2, <2>4 DEF Due
<1>4. ASSUME socket' = "open", reader' # "ended" PROVE Written'
  <2>1. Written /\ Taken' = Taken
    BY <1>3, <1>4 DEF Order
  <2> QED
    BY <1>1, <1>4, <2>1 DEF Written
<1> QED
  BY <1>2, <1>3, <1>4

\* What is written comes behind what is under way.
LEMMA WrittenInPlace ==
    ASSUME stream \in Seq(FrameBytes), NEW bytes \in Seq(FrameBytes),
           stream' = stream \o bytes, Taken' = Taken, Taken \in Nat, StreamInPlace,
           \A b, place : InPlace(b, place) => InPlace(b, place)',
           \A k \in DOMAIN bytes : \A b, place :
              b = bytes[k] /\ place = Taken + Len(stream) + k => InPlace(b, place)'
    PROVE  StreamInPlace'
<1>1. /\ stream' \in Seq(FrameBytes) /\ Len(stream') = Len(stream) + Len(bytes)
      /\ \A k \in DOMAIN stream : stream'[k] = stream[k]
      /\ \A k \in 1..Len(bytes) : stream'[Len(stream) + k] = bytes[k]
      /\ Len(stream) \in Nat /\ Len(bytes) \in Nat
      /\ DOMAIN stream = 1..Len(stream) /\ DOMAIN stream' = 1..Len(stream')
      /\ DOMAIN bytes = 1..Len(bytes)
  BY Joined
<1> SUFFICES ASSUME NEW k \in DOMAIN stream',
                    NEW b, b = stream'[k], NEW place, place = Taken + k
             PROVE  InPlace(b, place)'
  BY DEF StreamInPlace
<1>2. CASE k \in DOMAIN stream
  BY <1>1, <1>2 DEF StreamInPlace
<1>3. CASE k \notin DOMAIN stream
  <2>1. PICK h \in 1..Len(bytes) : k = Len(stream) + h
    BY <1>1, <1>3
  <2>2. b = bytes[h] /\ place = Taken + Len(stream) + h
    BY <1>1, <2>1
  <2> QED
    BY <1>1, <2>2
<1> QED
  BY <1>2, <1>3

LEMMA SendLengthOrder ==
    ASSUME IInv, TypeOK', NEW t \in Threads, SendLength(t)
    PROVE  Order'
<1> USE DEF IInv
<1>1. CASE socket # "open"
  <2>1. socket' # "open" /\ stream' = stream
        /\ UNCHANGED <<sent, torn, messageLength, body, received, reader>>
    BY <1>1 DEF SendLength, Write, readerVars
  <2> QED
    BY <2>1, StillInOrder
<1>2. CASE socket = "open"
  <2>0. PICK l \in Nat \ {0} : l = Len(sent) + 1
    BY DEF TypeOK
  <2> DEFINE bytes == Bytes(l, 0, PrefixSize)
             f == [message |-> message[t], start |-> EndOfSent]
  <2>1. /\ pc[t] # "idle" /\ frame[t] = 0 /\ frame' = [frame EXCEPT ![t] = l]
        /\ socket' = "open" /\ stream' = stream \o bytes
        /\ sent' = Append(sent, f)
        /\ torn' = (torn \/ \E u \in Threads \ {t} :
                              frame[u] # 0 /\ "own" \in {pc[t], pc[u]})
        /\ UNCHANGED <<message, bytesSent, reader, messageLength, body, received>>
    BY <1>2, <2>0 DEF SendLength, Write, readerVars
  <2>2. f \in Frames /\ f.start = EndOfSent /\ f.message = message[t]
    BY EndOfSentType DEF Frames, TypeOK
  <2> HIDE DEF f
  <2>3. /\ Adjacent' /\ Apart' /\ DOMAIN sent' = 1..l /\ Len(sent') = l
        /\ \A n \in DOMAIN sent : sent'[n] = sent[n] /\ FrameSize(n)' = FrameSize(n)
        /\ sent'[l] = f
        /\ \A n \in 1..l : Starts(n)' = Starts(n)
    BY <2>0, <2>1, <2>2, AddFrame DEF Order
  <2>4. FrameSize(l)' \in Nat /\ FrameSize(l)' > PrefixSize
    <3>1. FrameSize(l)' = PrefixSize + Size[message[t]]
      BY <2>2, <2>3 DEF FrameSize
    <3>2. Size[message[t]] \in Nat \ {0}
      BY SizeAssumption DEF TypeOK
    <3> QED
      BY <3>1, <3>2, BufferAssumption
  <2> SUFFICES ASSUME ~ torn'
               PROVE  /\ Len(received') <= Len(sent')
                      /\ OneFrame'
                      /\ reader' # "ended" => StreamInPlace' /\ Due' /\ Written'
    BY <2>3 DEF Order
  <2>5. ~ torn /\ \A u \in Threads : frame[u] = 0
    <3>1. ~ torn /\ \A u \in Threads \ {t} : ~ (frame[u] # 0 /\ "own" \in {pc[t], pc[u]})
      BY <2>1
    <3>2. ASSUME NEW u \in Threads \ {t}, frame[u] # 0 PROVE FALSE
      <4>1. pc[t] = "broadcast" /\ pc[u] = "broadcast"
        BY <2>1, <3>1, <3>2 DEF Sending, TypeOK
      <4> QED
        BY <4>1 DEF Sending
    <3> QED
      BY <2>1, <3>1, <3>2
  <2>6. OneFrame'
    BY <2>1, <2>5 DEF OneFrame, TypeOK
  <2>7. Len(received') <= Len(sent') /\ Len(received) <= Len(sent)
        /\ Len(received) \in Nat /\ Len(sent) \in Nat
    BY <2>0, <2>1, <2>3, <2>5 DEF Order, TypeOK
  <2>8. ASSUME reader' # "ended" PROVE StreamInPlace' /\ Due' /\ Written'
    <3>1. StreamInPlace /\ Due /\ Written /\ reader # "ended"
      BY <1>2, <2>1, <2>5, <2>8 DEF Order
    <3>2. Taken' = Taken /\ Taken \in Nat
      <4>1. PICK r \in 1..l : r = Len(received) + 1
        BY <2>0, <2>7
      <4>2. Starts(r)' = Starts(r)
        BY <2>3, <4>1
      <4> QED
        BY <2>1, <4>1, <4>2, TakenType DEF Taken
    <3>3. Taken + Len(stream) = EndOfSent
      BY <2>5, <3>1 DEF Written
    <3>4. /\ stream \in Seq(FrameBytes) /\ bytes \in Seq(FrameBytes) /\ Len(bytes) = PrefixSize
          /\ \A k \in 1..PrefixSize : bytes[k] = Byte(l, 0 + k)
          /\ PrefixSize \in Nat /\ EndOfSent \in Nat /\ Len(stream) \in Nat
      <4>1. PrefixSize \in Nat /\ EndOfSent \in Nat
        BY BufferAssumption, EndOfSentType
      <4>2. stream \in Seq(FrameBytes) /\ Len(stream) \in Nat
        BY DEF TypeOK
      <4>3. /\ bytes \in Seq(FrameBytes) /\ Len(bytes) = PrefixSize
            /\ \A k \in 1..PrefixSize : bytes[k] = Byte(l, 0 + k)
        BY <4>1, BytesElements
      <4> QED
        BY <4>1, <4>2, <4>3
    <3> HIDE DEF bytes
    <3>5. ASSUME NEW k \in DOMAIN bytes, NEW b, NEW place,
                 b = bytes[k], place = Taken + Len(stream) + k
          PROVE  InPlace(b, place)'
      <4>1. k \in 1..PrefixSize /\ b.frame = l /\ b.at = k
        BY <3>4, <3>5 DEF Byte
      <4>2. l \in DOMAIN sent' /\ k \in 1..FrameSize(l)'
        BY <2>3, <2>4, <3>4, <4>1
      <4>3. sent'[l].start + k = place
        BY <2>2, <2>3, <3>3, <3>5
      <4>4. \A n : n = l => n = b.frame /\ FrameSize(n)' = FrameSize(l)'
        BY <4>1
      <4> QED
        BY <4>1, <4>2, <4>3, <4>4 DEF InPlace
    <3>6. \A b, place : InPlace(b, place) => InPlace(b, place)'
      <4>1. \A n \in DOMAIN sent :
               n \in DOMAIN sent' /\ sent'[n] = sent[n] /\ FrameSize(n)' = FrameSize(n)
        <5>1. DOMAIN sent = 1..Len(sent) /\ Len(sent) \in Nat
          BY DEF TypeOK
        <5>2. \A n \in DOMAIN sent : n \in DOMAIN sent'
          BY <2>0, <2>3, <5>1
        <5> QED
          BY <2>3, <5>2
      <4> QED
        BY <4>1, StayInPlace
    <3>7. StreamInPlace'
      BY <2>1, <3>1, <3>2, <3>4, <3>5, <3>6, WrittenInPlace
    <3>8. Due'
      BY <2>0, <2>1, <2>3, <3>1, SMTT(60) DEF Due, TypeOK
    <3>9. Len(stream') = Len(stream) + PrefixSize
      <4>1. Len(stream \o bytes) = Len(stream) + Len(bytes)
        BY <3>4, Joined
      <4> QED
        BY <2>1, <3>4, <4>1
    <3>10. Written'
      <4>1. ASSUME NEW u \in Threads, frame'[u] # 0
            PROVE  /\ frame'[u] = Len(sent') /\ frame'[u] \in DOMAIN sent'
                   /\ message'[u] = sent'[Len(sent')].message
                   /\ Taken' + Len(stream') = sent'[Len(sent')].start + PrefixSize + bytesSent'[u]
        <5>1. u = t /\ frame'[u] = l
          BY <2>1, <2>5, <4>1 DEF TypeOK
        <5>2. bytesSent'[u] = 0
          BY <2>1, <5>1 DEF Sending
        <5>3. sent'[Len(sent')] = f
          BY <2>3
        <5>4. Taken' + Len(stream') = EndOfSent + PrefixSize + 0
          BY <3>2, <3>3, <3>4, <3>9
        <5> QED
          BY <2>1, <2>2, <2>3, <5>1, <5>2, <5>3, <5>4
      <4>2. frame'[t] # 0
        BY <2>1 DEF TypeOK
      <4> QED
        BY <4>1, <4>2 DEF Written
    <3> QED
      BY <3>7, <3>8, <3>10
  <2> QED
    BY <2>6, <2>7, <2>8
<1> QED
  BY <1>1, <1>2

LEMMA SendChunkOrder ==
    ASSUME IInv, TypeOK', NEW t \in Threads, SendChunk(t)
    PROVE  Order'
<1> USE DEF IInv
<1>1. CASE socket # "open"
  <2>1. socket' # "open" /\ stream' = stream
        /\ UNCHANGED <<sent, torn, messageLength, body, received, reader>>
    BY <1>1 DEF SendChunk, Write, readerVars
  <2> QED
    BY <2>1, StillInOrder
<1>2. CASE socket = "open"
  <2> DEFINE before == PrefixSize + bytesSent[t]
             bytes == Bytes(frame[t], before, ChunkSize(t))
  <2>1. /\ frame[t] # 0 /\ socket' = "open" /\ stream' = stream \o bytes
        /\ UNCHANGED <<message, reader, messageLength, body, received, sent, torn>>
    BY <1>2 DEF SendChunk, Write, readerVars
  <2>2. \/ /\ bytesSent[t] + ChunkSize(t) = Size[message[t]]
           /\ frame' = [frame EXCEPT ![t] = 0]
        \/ /\ frame' = frame
           /\ bytesSent' = [bytesSent EXCEPT ![t] = bytesSent[t] + ChunkSize(t)]
    BY DEF SendChunk, Finish
  <2>3. /\ Adjacent' /\ Apart' /\ EndOfSent' = EndOfSent
        /\ \A n : Starts(n)' = Starts(n) /\ FrameSize(n)' = FrameSize(n)
    BY <2>1, SameFrames DEF Order
  <2> SUFFICES ASSUME ~ torn
               PROVE  /\ Len(received) <= Len(sent) /\ OneFrame'
                      /\ reader # "ended" => StreamInPlace' /\ Due' /\ Written'
    BY <2>1, <2>3 DEF Order
  <2>4. Len(received) <= Len(sent) /\ OneFrame
    BY <1>2 DEF Order
  <2>5. \A u \in Threads : u # t => frame[u] = 0
    BY <2>1, <2>4 DEF OneFrame
  <2>6. OneFrame'
    BY <2>2, <2>5 DEF OneFrame, TypeOK
  <2>7. ASSUME reader # "ended" PROVE StreamInPlace' /\ Due' /\ Written'
    <3>1. StreamInPlace /\ Due /\ Written
      BY <1>2, <2>7 DEF Order
    <3>2. Taken' = Taken /\ Taken \in Nat /\ Len(stream) \in Nat /\ stream \in Seq(FrameBytes)
      BY <2>1, <2>3, TakenType, SMTT(60) DEF Taken, TypeOK
    <3>3. PICK n \in DOMAIN sent : /\ n = frame[t] /\ n = Len(sent) /\ n \in Nat \ {0}
                                   /\ message[t] = sent[n].message
                                   /\ Taken + Len(stream) = sent[n].start + PrefixSize + bytesSent[t]
      BY <2>1, <3>1 DEF Written, TypeOK
    <3>4. PICK c \in Nat \ {0}, s \in Nat, z \in Nat, start \in Nat :
            /\ c = ChunkSize(t) /\ s = bytesSent[t] /\ z = Size[message[t]] /\ s + c <= z
            /\ start = sent[n].start
      BY ChunkSizes, SentTypes
    <3>5. before = PrefixSize + s /\ before \in Nat /\ PrefixSize \in Nat /\ s + c <= z
      BY <3>4, BufferAssumption
    <3> HIDE DEF before
    <3>6. FrameSize(n) = PrefixSize + z
      BY <3>3, <3>4 DEF FrameSize
    <3>7. Taken + Len(stream) = start + before
      <4>1. Taken + Len(stream) = start + PrefixSize + s
        BY <3>3, <3>4
      <4> QED
        BY <3>5, <4>1
    <3>8. /\ bytes \in Seq(FrameBytes) /\ Len(bytes) = c
          /\ \A k \in 1..c : bytes[k] = Byte(n, before + k)
      <4>1. bytes = Bytes(n, before, c)
        BY <3>3, <3>4
      <4>2. n \in Nat \ {0} /\ c \in Nat
        BY <3>3
      <4>3. /\ Bytes(n, before, c) \in Seq(FrameBytes) /\ Len(Bytes(n, before, c)) = c
            /\ \A k \in 1..c : Bytes(n, before, c)[k] = Byte(n, before + k)
        <5>1. before \in Nat
          BY <3>5
        <5> HIDE DEF bytes
        <5> QED
          BY <4>2, <5>1, BytesElements, ZenonT(30)
      <4> HIDE DEF bytes
      <4> QED
        BY <4>1, <4>3
    <3> HIDE DEF bytes
    <3>9. ASSUME NEW k \in DOMAIN bytes, NEW b, NEW place,
                 b = bytes[k], place = Taken + Len(stream) + k
          PROVE  InPlace(b, place)'
      <4>1. k \in 1..c /\ b.frame = n /\ b.at = before + k
        BY <3>8, <3>9 DEF Byte
      <4>2. k \in Nat /\ 1 <= k /\ k <= c
        BY <4>1
      <4>3. before + k \in 1..(PrefixSize + z)
        BY <3>5, <4>2
      <4>4. place = start + (before + k)
        <5>1. place = (start + before) + k
          BY <3>7, <3>9
        <5> QED
          BY <3>5, <4>2, <5>1
      <4>5. InPlace(b, place)
        BY <3>4, <3>6, <4>1, <4>3, <4>4 DEF InPlace
      <4> QED
        BY <2>1, <2>3, <4>5, StayInPlace
    <3>10. \A b, place : InPlace(b, place) => InPlace(b, place)'
      BY <2>1, <2>3, StayInPlace
    <3>11. StreamInPlace'
      BY <2>1, <3>1, <3>2, <3>8, <3>9, <3>10, WrittenInPlace
    <3>12. Due'
      BY <2>1, <3>1 DEF Due
    <3>13. Taken' + Len(stream') = start + PrefixSize + (s + c)
      <4>1. Len(stream \o bytes) = Len(stream) + Len(bytes)
        BY <3>2, <3>8, Joined
      <4>2. Taken' + Len(stream') = (Taken + Len(stream)) + c
        BY <2>1, <3>2, <3>8, <4>1
      <4>3. (start + before) + c = start + PrefixSize + (s + c)
        BY <3>5
      <4> QED
        BY <3>7, <4>2, <4>3
    <3>14. Written'
      <4>1. CASE bytesSent[t] + ChunkSize(t) = Size[message[t]] /\ frame' = [frame EXCEPT ![t] = 0]
        <5>1. \A u \in Threads : frame'[u] = 0
          BY <2>5, <4>1 DEF TypeOK
        <5>2. EndOfSent = start + FrameSize(n)
          BY <3>3, <3>4 DEF EndOfSent
        <5>3. Taken' + Len(stream') = EndOfSent
          BY <3>4, <3>5, <3>6, <3>13, <4>1, <5>2
        <5> QED
          BY <2>3, <5>1, <5>3 DEF Written
      <4>2. CASE frame' = frame /\ bytesSent' = [bytesSent EXCEPT ![t] = bytesSent[t] + ChunkSize(t)]
        <5>1. bytesSent'[t] = s + c
          BY <3>4, <4>2 DEF TypeOK
        <5>2. ASSUME NEW u \in Threads, frame'[u] # 0
              PROVE  /\ frame'[u] = Len(sent') /\ frame'[u] \in DOMAIN sent'
                     /\ message'[u] = sent'[Len(sent')].message
                     /\ Taken' + Len(stream') = sent'[Len(sent')].start + PrefixSize + bytesSent'[u]
          <6>1. u = t
            BY <2>5, <4>2, <5>2
          <6> QED
            BY <2>1, <3>3, <3>4, <3>13, <4>2, <5>1, <6>1
        <5>3. frame'[t] # 0
          BY <2>1, <4>2
        <5> QED
          BY <5>2, <5>3 DEF Written
      <4> QED
        BY <2>2, <4>1, <4>2
    <3> QED
      BY <3>11, <3>12, <3>14
  <2> QED
    BY <2>4, <2>6, <2>7
<1> QED
  BY <1>1, <1>2
\* What is read was the first of what is under way; the rest stays in place.
LEMMA RestInPlace ==
    ASSUME stream \in Seq(FrameBytes), NEW k \in 1..Len(stream),
           stream' = SubSeq(stream, k + 1, Len(stream)),
           Taken \in Nat, Taken' = Taken + k,
           UNCHANGED <<sent, frame, bytesSent, message>>
    PROVE  /\ StreamInPlace => StreamInPlace'
           /\ Written => Written'
<1>1. PICK l \in Nat, a \in Nat : l = Len(stream) /\ a = Taken
  OBVIOUS
<1>2. /\ k \in Nat /\ k <= l
      /\ Len(stream') = l - k /\ DOMAIN stream' = 1 .. l - k
      /\ \A i \in 1 .. l - k : stream'[i] = stream[k + i]
  <2>1. /\ SubSeq(stream, k + 1, Len(stream)) \in Seq(FrameBytes)
        /\ Len(SubSeq(stream, k + 1, Len(stream))) = Len(stream) - k
        /\ \A i \in 1 .. Len(stream) - k :
              SubSeq(stream, k + 1, Len(stream))[i] = stream[k + i]
    BY Rest
  <2> QED
    BY <1>1, <2>1, SMTT(60)
<1>3. EndOfSent' = EndOfSent /\ \A n : FrameSize(n)' = FrameSize(n)
  BY SameFrames
<1>4. ASSUME StreamInPlace PROVE StreamInPlace'
  <2> SUFFICES ASSUME NEW i \in DOMAIN stream',
                      NEW b, b = stream'[i], NEW place, place = Taken' + i
               PROVE  InPlace(b, place)'
    BY DEF StreamInPlace
  <2>1. k + i \in DOMAIN stream /\ b = stream[k + i] /\ place = Taken + (k + i)
    <3>1. i \in 1 .. l - k
      BY <1>2
    <3>2. k + i \in 1..l /\ (a + k) + i = a + (k + i)
      BY <1>1, <1>2, <3>1
    <3>3. DOMAIN stream = 1..l
      BY <1>1
    <3>4. place = (a + k) + i
      BY <1>1
    <3> QED
      BY <1>1, <1>2, <3>1, <3>2, <3>3, <3>4
  <2>2. InPlace(b, place)
    BY <1>4, <2>1 DEF StreamInPlace
  <2> QED
    BY <1>3, <2>2, StayInPlace
<1>5. ASSUME Written PROVE Written'
  <2>1. (a + k) + (l - k) = a + l
    BY <1>1, <1>2
  <2>2. Taken' + Len(stream') = Taken + Len(stream)
    BY <1>1, <1>2, <2>1
  <2> QED
    BY <1>3, <1>5, <2>2 DEF Written
<1> QED
  BY <1>4, <1>5

LEMMA RecvLengthOrder ==
    ASSUME IInv, TypeOK', RecvLength
    PROVE  Order'
<1> USE DEF IInv
<1>1. PICK k \in 1..Len(stream) :
        /\ Recv(PrefixSize, k)
        /\ IF k < PrefixSize
           THEN reader' = "ended" /\ UNCHANGED <<messageLength, received>>
           ELSE /\ messageLength' \in Lengths
                /\ IF messageLength' = 0
                   THEN received' = Append(received, <<>>) /\ UNCHANGED reader
                   ELSE reader' = "body" /\ UNCHANGED received
  BY DEF RecvLength
<1>2. /\ UNCHANGED <<senderVars, killed, socket, sent, torn, body>>
      /\ k <= PrefixSize /\ stream' = SubSeq(stream, k + 1, Len(stream))
      /\ reader = "length" /\ body = <<>>
  BY <1>1 DEF Recv, RecvLength, Sending
<1>3. CASE k < PrefixSize
  <2>1. reader' = "ended" /\ UNCHANGED <<messageLength, received>>
    BY <1>1, <1>3
  <2> QED
    BY <1>2, <2>1, StillInOrder DEF senderVars
<1>4. CASE k = PrefixSize
  <2>1. /\ Adjacent' /\ Apart' /\ \A n : Starts(n)' = Starts(n)
    BY <1>2, SameFrames DEF Order
  <2> SUFFICES ASSUME ~ torn
               PROVE  /\ Len(received') <= Len(sent)
                      /\ socket = "open" => OneFrame'
                      /\ reader' # "ended" => StreamInPlace' /\ Due'
                      /\ socket = "open" /\ reader' # "ended" => Written'
    BY <1>2, <2>1 DEF Order
  <2>2. Len(stream) >= PrefixSize
    BY <1>4, BufferAssumption DEF TypeOK
  <2>3. /\ Len(received) + 1 \in DOMAIN sent
        /\ Lengths = {Size[sent[Len(received) + 1].message]}
    BY <1>2, <2>2, LengthRead
  <2>4. messageLength' = Size[sent[Len(received) + 1].message] /\ messageLength' # 0
    <3>1. messageLength' \in Lengths
      BY <1>1, <1>4, BufferAssumption
    <3>2. Size[sent[Len(received) + 1].message] # 0
      BY <2>3, SentTypes, SizeAssumption
    <3> QED
      BY <2>3, <3>1, <3>2
  <2>5. reader' = "body" /\ received' = received
    BY <1>1, <1>4, <2>4, BufferAssumption
  <2>6. /\ Len(received) <= Len(sent) /\ StreamInPlace
        /\ socket = "open" => OneFrame /\ Written
    BY <1>2 DEF Order
  <2>7. Taken' = Taken + k /\ Taken \in Nat /\ stream \in Seq(FrameBytes)
    <3>1. PICK r : r = Len(received) + 1
      OBVIOUS
    <3>2. Starts(r)' = Starts(r) /\ Starts(r) \in Nat
      BY <2>1, StartsType
    <3>3. Taken = Starts(r) + 0
      BY <1>2, <3>1 DEF Taken
    <3>4. Taken' = Starts(r) + (PrefixSize + 0)
      BY <1>2, <2>5, <3>1, <3>2 DEF Taken
    <3> QED
      BY <1>4, <3>2, <3>3, <3>4, BufferAssumption DEF TypeOK
  <2>8. StreamInPlace' /\ (Written => Written')
    BY <1>2, <2>6, <2>7, RestInPlace DEF senderVars
  <2>9. Due'
    BY <1>2, <2>3, <2>4, <2>5 DEF Due
  <2>10. OneFrame => OneFrame'
    BY <1>2 DEF OneFrame, senderVars
  <2> QED
    BY <2>5, <2>6, <2>8, <2>9, <2>10
<1> QED
  BY <1>2, <1>3, <1>4, BufferAssumption

LEMMA RecvBodyOrder ==
    ASSUME IInv, TypeOK', RecvBody
    PROVE  Order'
<1> USE DEF IInv
<1>1. PICK k \in 1..Len(stream) :
        /\ Recv(messageLength - Len(body), k)
        /\ LET read == body \o SubSeq(stream, 1, k)
           IN  IF Len(read) < messageLength
               THEN body' = read /\ UNCHANGED <<reader, received>>
               ELSE /\ received' = Append(received, read)
                    /\ body' = <<>> /\ reader' = "length"
  BY DEF RecvBody
<1> DEFINE read == body \o SubSeq(stream, 1, k)
           n    == Len(received) + 1
<1>2. \/ Len(read) < messageLength /\ body' = read /\ UNCHANGED <<reader, received>>
      \/ /\ ~ (Len(read) < messageLength) /\ received' = Append(received, read)
         /\ body' = <<>> /\ reader' = "length"
  BY <1>1
<1>3. /\ UNCHANGED <<senderVars, killed, socket, sent, torn, messageLength>>
      /\ k <= messageLength - Len(body) /\ stream' = SubSeq(stream, k + 1, Len(stream))
      /\ reader = "body"
  BY <1>1 DEF Recv, RecvBody
<1>4. /\ Adjacent' /\ Apart' /\ \A i : Starts(i)' = Starts(i)
  BY <1>3, SameFrames DEF Order
<1> HIDE DEF read
<1> SUFFICES ASSUME ~ torn
             PROVE  /\ Len(received') <= Len(sent)
                    /\ socket = "open" => OneFrame'
                    /\ StreamInPlace' /\ Due'
                    /\ socket = "open" => Written'
  BY <1>3, <1>4 DEF Order
<1>5. /\ n \in DOMAIN sent
      /\ read \in Seq(FrameBytes) /\ Len(read) = Len(body) + k
      /\ \A i \in DOMAIN read : read[i] = Byte(n, PrefixSize + i)
      /\ Len(read) <= Size[sent[n].message]
  BY <1>3, BodyRead DEF read
<1>6. /\ Len(received) <= Len(sent) /\ StreamInPlace
      /\ socket = "open" => OneFrame /\ Written
      /\ messageLength = Size[sent[n].message]
  BY <1>3 DEF Order, Due
<1>7. /\ stream \in Seq(FrameBytes) /\ Len(body) \in Nat /\ k \in Nat
      /\ received \in Seq(Seq(FrameBytes)) /\ Len(received) \in Nat
      /\ DOMAIN sent = 1..Len(sent) /\ messageLength \in Nat
      /\ PrefixSize \in Nat /\ Taken \in Nat
  <2>1. /\ stream \in Seq(FrameBytes) /\ received \in Seq(Seq(FrameBytes))
        /\ sent \in Seq(Frames) /\ body \in Seq(FrameBytes) /\ messageLength \in Nat
    BY DEF TypeOK
  <2>2. Taken \in Nat /\ PrefixSize \in Nat
    BY TakenType, BufferAssumption
  <2>3. Len(body) \in Nat /\ Len(received) \in Nat /\ DOMAIN sent = 1..Len(sent)
    BY <2>1
  <2>4. k \in Nat
    BY <2>1
  <2> QED
    BY <2>1, <2>2, <2>3, <2>4
<1>8. Taken = Starts(n) + (PrefixSize + Len(body)) /\ Starts(n) \in Nat
  BY <1>3, StartsType DEF Taken
<1>9. OneFrame => OneFrame'
  BY <1>3 DEF OneFrame, senderVars
<1>10. CASE Len(read) < messageLength /\ body' = read /\ UNCHANGED <<reader, received>>
  <2>1. Taken' = Taken + k
    <3>1. PICK r : r = n
      OBVIOUS
    <3>2. Taken' = Starts(r) + (PrefixSize + Len(read))
      BY <1>3, <1>4, <1>10, <3>1 DEF Taken
    <3> QED
      BY <1>5, <1>7, <1>8, <3>1, <3>2, SMTT(60)
  <2>2. StreamInPlace' /\ (Written => Written')
    BY <1>3, <1>6, <1>7, <2>1, RestInPlace DEF senderVars
  <2>3. Due'
    BY <1>3, <1>5, <1>6, <1>10 DEF Due
  <2> QED
    BY <1>6, <1>9, <1>10, <2>2, <2>3
<1>11. CASE /\ ~ (Len(read) < messageLength) /\ received' = Append(received, read)
            /\ body' = <<>> /\ reader' = "length"
  <2>1. Len(body) + k = messageLength
    BY <1>5, <1>6, <1>7, <1>11
  <2>2. Len(received') = n
    BY <1>7, <1>11
  <2>3. Taken' = Taken + k
    <3>1. PICK r : r = n + 1
      OBVIOUS
    <3>2. Taken' = Starts(r) + 0
      BY <1>4, <1>11, <2>2, <3>1 DEF Taken
    <3>3. Starts(r) = sent[n].start + FrameSize(n) /\ Starts(n) = sent[n].start
      BY <1>5, <3>1 DEF Order, Adjacent, Starts
    <3>4. FrameSize(n) = PrefixSize + messageLength
      BY <1>6 DEF FrameSize
    <3>5. Starts(r) = Starts(n) + (PrefixSize + (Len(body) + k))
      BY <2>1, <3>3, <3>4
    <3> QED
      BY <1>7, <1>8, <3>2, <3>5
  <2>4. StreamInPlace' /\ (Written => Written')
    BY <1>3, <1>6, <1>7, <2>3, RestInPlace DEF senderVars
  <2>5. Due'
    BY <1>11 DEF Due
  <2>6. Len(received') <= Len(sent)
    BY <1>5, <1>7, <2>2
  <2> QED
    BY <1>6, <1>9, <2>4, <2>5, <2>6
<1> QED
  BY <1>2, <1>10, <1>11

LEMMA OtherOrder ==
    ASSUME IInv,
           \/ \E t \in Threads : BeginBroadcast(t) \/ BeginOwn(t)
           \/ Close \/ RecvEnd \/ Leave \/ UNCHANGED vars
    PROVE  Order'
<1> USE DEF IInv
<1>1. CASE \E t \in Threads : BeginBroadcast(t) \/ BeginOwn(t)
  <2>1. PICK t \in Threads :
          /\ pc[t] = "idle" /\ \E m \in Messages : message' = [message EXCEPT ![t] = m]
          /\ UNCHANGED <<frame, bytesSent, socket, stream, readerVars, sent, torn>>
    BY <1>1 DEF BeginBroadcast, BeginOwn, Begin
  <2>2. \A u \in Threads : frame[u] # 0 => message'[u] = message[u]
    BY <2>1 DEF Sending, TypeOK
  <2> QED
    BY <2>1, <2>2, StillInOrder DEF readerVars
<1>2. CASE Close \/ RecvEnd \/ Leave \/ UNCHANGED vars
  <2>1. /\ UNCHANGED <<senderVars, sent, torn, messageLength, body, received>>
        /\ reader' \in {reader, "ended"} /\ stream' \in {stream, <<>>}
        /\ socket' = "open" => socket = "open" /\ stream' = stream
    BY <1>2 DEF Close, RecvEnd, Leave, vars, senderVars, readerVars
  <2> QED
    BY <2>1, StillInOrder DEF senderVars
<1> QED
  BY <1>1, <1>2

LEMMA InitIInv == Init => IInv
  BY InitTypes, InitOrder DEF IInv

LEMMA NextTypes == TypeOK /\ Sending /\ [Next]_vars => (TypeOK /\ Sending)'
  BY BeginTypes, SendLengthTypes, SendChunkTypes, RecvLengthTypes, RecvBodyTypes, OtherTypes
     DEF Next, Thread, Reader

LEMMA NextIInv == IInv /\ [Next]_vars => IInv'
<1> SUFFICES ASSUME IInv, [Next]_vars PROVE IInv'
  OBVIOUS
<1>1. TypeOK' /\ Sending'
  BY NextTypes DEF IInv
<1>2. Order'
  BY <1>1, SendLengthOrder, SendChunkOrder, RecvLengthOrder, RecvBodyOrder, OtherOrder
     DEF Next, Thread, Reader
<1> QED
  BY <1>1, <1>2 DEF IInv

-----------------------------------------------------------------------------
(* Theorems.                                                               *)

\* All variables keep their types; the number of bytes sent stays below the
\* size of the message, that of the bytes read below the length announced.
THEOREM TypeCorrect == Spec => []TypeOK
<1>1. IInv => TypeOK
  BY DEF IInv
<1> QED
  BY InitIInv, NextIInv, <1>1, PTL DEF Spec

\* A step that begins no message and completes none changes none.
LEMMA SameMessages ==
    ASSUME UNCHANGED <<sent, received>>
    PROVE  UnderWay' = UnderWay /\ Delivered' = Delivered
  BY DEF UnderWay, Delivered, Body

\* Such a step is none of the channel's, or a disconnection.
LEMMA NoMessageSimulates ==
    ASSUME UNCHANGED <<sent, received>>, reader = "ended" => reader' = "ended"
    PROVE  CH!Disconnect \/ UNCHANGED CH!vars
<1>1. UnderWay' = UnderWay /\ Delivered' = Delivered
  BY SameMessages
<1>2. CASE reader' = "ended"
  BY <1>1, <1>2 DEF CH!Disconnect
<1>3. CASE reader' # "ended"
  BY <1>1, <1>3 DEF CH!vars
<1> QED
  BY <1>2, <1>3

\* To begin a message is to put it into the channel.
LEMMA SendLengthSimulates ==
    ASSUME IInv, NEW t \in Threads, SendLength(t), ~ torn'
    PROVE  CH!Next \/ UNCHANGED CH!vars
<1> USE DEF IInv
<1>1. CASE socket # "open"
  <2>1. UNCHANGED <<sent, readerVars>>
    BY <1>1 DEF SendLength
  <2> QED
    BY <2>1, NoMessageSimulates DEF readerVars, CH!Next
<1>2. CASE socket = "open"
  <2> DEFINE f == [message |-> message[t], start |-> EndOfSent]
             r == Len(received)
             l == Len(sent)
  <2>1. sent' = Append(sent, f) /\ UNCHANGED readerVars /\ ~ torn
    BY <1>2 DEF SendLength
  <2>2. /\ f \in Frames /\ sent \in Seq(Frames) /\ message[t] \in Messages
        /\ r \in Nat /\ l \in Nat /\ r <= l /\ received \in Seq(Seq(FrameBytes))
    BY <2>1, EndOfSentType DEF Frames, Order, TypeOK
  <2>3. f.message = message[t]
    OBVIOUS
  <2> HIDE DEF f
  <2>4. /\ Len(sent') = l + 1 /\ sent'[l + 1] = f
        /\ \A i \in 1..l : sent'[i] = sent[i]
    BY <2>1, <2>2
  <2>5. UnderWay' = Append(UnderWay, message[t])
    <3> DEFINE d == l - r
    <3>1. d \in Nat /\ r + (d + 1) = l + 1
      BY <2>2
    <3>2. UnderWay = [i \in 1..d |-> sent[r + i].message]
      BY DEF UnderWay
    <3>3. UnderWay' = [i \in 1 .. d + 1 |-> sent'[r + i].message]
      BY <2>1, <2>2, <2>4 DEF UnderWay, readerVars
    <3>4. /\ \A i \in 1..d : sent'[r + i].message = sent[r + i].message
          /\ \A i \in 1..d : sent[r + i].message \in Messages
      <4>1. \A i \in 1..d : r + i \in 1..l
        BY <2>2
      <4>2. \A i \in 1..l : sent[i].message \in Messages
        BY <2>2, SentTypes
      <4> HIDE DEF d, r, l
      <4> QED
        BY <2>4, <4>1, <4>2
    <3>5. sent'[r + (d + 1)].message = message[t]
      BY <2>3, <2>4, <3>1
    <3> HIDE DEF d, r, l
    <3>6. UnderWay \in Seq(Messages) /\ Len(UnderWay) = d
      BY <3>1, <3>2, <3>4
    <3>7. Append(UnderWay, message[t]) =
            [i \in 1 .. d + 1 |-> IF i <= d THEN UnderWay[i] ELSE message[t]]
      BY <3>1, <3>6
    <3>8. \A i \in 1 .. d + 1 :
             sent'[r + i].message = IF i <= d THEN UnderWay[i] ELSE message[t]
      <4> SUFFICES ASSUME NEW i \in 1 .. d + 1
                   PROVE  sent'[r + i].message = IF i <= d THEN UnderWay[i] ELSE message[t]
        OBVIOUS
      <4>1. i \in 1..d \/ (i = d + 1 /\ ~ (i <= d))
        BY <3>1
      <4>2. CASE i \in 1..d
        BY <3>1, <3>2, <3>4, <4>2
      <4>3. CASE i = d + 1 /\ ~ (i <= d)
        BY <3>5, <4>3
      <4> QED
        BY <4>1, <4>2, <4>3
    <3> QED
      BY <3>3, <3>7, <3>8
  <2>6. Delivered' = Delivered
    <3>1. \A i \in DOMAIN received :
             i \in 1..l /\ i \in 1..Len(sent') /\ i <= Len(sent') /\ i <= l
      BY <2>2, <2>4
    <3>2. \A i \in 1..l : Body(i)' = Body(i)
      BY <2>4 DEF Body
    <3> QED
      BY <2>1, <2>4, <3>1, <3>2 DEF Delivered, readerVars
  <2>7. UNCHANGED reader
    BY <2>1 DEF readerVars
  <2>8. CH!Put
    BY <2>2, <2>5, <2>6, <2>7 DEF CH!Put
  <2> QED
    BY <2>8 DEF CH!Next
<1> QED
  BY <1>1, <1>2

\* To return a string is to take from the channel the message it is.
LEMMA RecvBodySimulates ==
    ASSUME IInv, RecvBody, ~ torn
    PROVE  CH!Next \/ UNCHANGED CH!vars
<1> USE DEF IInv
<1>1. PICK k \in 1..Len(stream) :
        /\ Recv(messageLength - Len(body), k)
        /\ LET read == body \o SubSeq(stream, 1, k)
           IN  IF Len(read) < messageLength
               THEN body' = read /\ UNCHANGED <<reader, received>>
               ELSE /\ received' = Append(received, read)
                    /\ body' = <<>> /\ reader' = "length"
  BY DEF RecvBody
<1> DEFINE read == body \o SubSeq(stream, 1, k)
           n    == Len(received) + 1
           r    == Len(received)
           l    == Len(sent)
<1>2. \/ Len(read) < messageLength /\ UNCHANGED <<reader, received>>
      \/ ~ (Len(read) < messageLength) /\ received' = Append(received, read) /\ reader' = "length"
  BY <1>1
<1>3. /\ UNCHANGED sent /\ reader = "body"
      /\ k <= messageLength - Len(body)
  BY <1>1 DEF Recv, RecvBody
<1>4. /\ n \in DOMAIN sent /\ read \in Seq(FrameBytes)
      /\ Len(read) <= Size[sent[n].message]
      /\ Len(read) = messageLength => read = Body(n)
  BY <1>3, BodyRead
<1> HIDE DEF read
<1>5. CASE UNCHANGED <<reader, received>>
  BY <1>3, <1>5, NoMessageSimulates DEF CH!Next
<1>6. CASE /\ ~ (Len(read) < messageLength) /\ received' = Append(received, read)
           /\ reader' = "length"
  <2>1. read = Body(n)
    <3>1. messageLength = Size[sent[n].message] /\ messageLength \in Nat /\ Len(read) \in Nat
      <4>1. messageLength = Size[sent[n].message]
        BY <1>3 DEF Order, Due
      <4>2. messageLength \in Nat
        BY DEF TypeOK
      <4>3. Len(read) \in Nat
        BY <1>4
      <4> QED
        BY <4>1, <4>2, <4>3
    <3> QED
      BY <1>4, <1>6, <3>1
  <2>2. /\ r \in Nat /\ l \in Nat /\ n = r + 1 /\ n <= l /\ n \in Nat
        /\ sent[n].message \in Messages
    <3>1. sent \in Seq(Frames) /\ r \in Nat
      BY DEF TypeOK
    <3>2. l \in Nat /\ n \in 1..l
      BY <1>4, <3>1
    <3>3. sent[n].message \in Messages
      BY <1>4, SentTypes
    <3> QED
      BY <3>1, <3>2, <3>3
  <2>3. /\ Len(received') = n /\ DOMAIN received' = 1..n /\ DOMAIN received = 1..r
        /\ received'[n] = read /\ \A i \in 1..r : received'[i] = received[i]
    <3> DEFINE Strings == Seq(FrameBytes)
    <3>1. received \in Seq(Strings) /\ read \in Strings
      BY <1>4 DEF TypeOK
    <3> HIDE DEF Strings
    <3> QED
      BY <1>6, <3>1
  <2> DEFINE d == l - r
  <2>4. d \in Nat \ {0} /\ l - n = d - 1
    <3> HIDE DEF n, r, l
    <3> QED
      BY <2>2
  <2>5. UnderWay = [i \in 1..d |-> sent[r + i].message]
    BY Zenon DEF UnderWay
  <2>6. UnderWay' = [i \in 1 .. d - 1 |-> sent[n + i].message]
    BY <1>3, <2>3, <2>4 DEF UnderWay
  <2>7. \A i \in 1..d : sent[r + i].message \in Messages
    <3>1. \A i \in 1..d : r + i \in 1..l
      BY <2>2
    <3> QED
      BY <3>1, SentTypes DEF TypeOK
  <2>8. Delivered' = Append(Delivered, sent[n].message)
    <3>1. \A i : Body(i)' = Body(i)
      BY <1>3 DEF Body
    <3>2. Delivered = [i \in 1..r |-> IF i <= l /\ received[i] = Body(i)
                                     THEN sent[i].message ELSE NotSent]
      BY <2>3 DEF Delivered
    <3>3. Delivered' = [i \in 1..n |-> IF i <= l /\ received'[i] = Body(i)
                                      THEN sent[i].message ELSE NotSent]
      BY <1>3, <2>3, <3>1 DEF Delivered
    <3>4. Delivered \in Seq(Messages \cup {NotSent}) /\ Len(Delivered) = r
      <4>1. \A i \in 1..r : i \in DOMAIN sent
        BY <2>2 DEF TypeOK
      <4> QED
        BY <2>2, <3>2, <4>1, SentTypes
    <3>5. Append(Delivered, sent[n].message) =
            [i \in 1..n |-> IF i <= r THEN Delivered[i] ELSE sent[n].message]
      BY <2>2, <3>4
    <3>6. \A i \in 1..n :
             (IF i <= l /\ received'[i] = Body(i) THEN sent[i].message ELSE NotSent)
               = IF i <= r THEN Delivered[i] ELSE sent[n].message
      <4> SUFFICES ASSUME NEW i \in 1..n
                   PROVE  (IF i <= l /\ received'[i] = Body(i) THEN sent[i].message ELSE NotSent)
                            = IF i <= r THEN Delivered[i] ELSE sent[n].message
        OBVIOUS
      <4>1. (i \in 1..r /\ i <= r) \/ (i = n /\ ~ (i <= r))
        BY <2>2
      <4>2. CASE i \in 1..r /\ i <= r
        BY <2>3, <3>2, <4>2
      <4>3. CASE i = n /\ ~ (i <= r)
        BY <2>1, <2>2, <2>3, <4>3
      <4> QED
        BY <4>1, <4>2, <4>3
    <3> QED
      BY <3>3, <3>5, <3>6
  <2> HIDE DEF d, r, l, n
  <2>9. /\ UnderWay \in Seq(Messages) /\ Len(UnderWay) = d
    BY <2>4, <2>5, <2>7
  <2>10. UnderWay # <<>> /\ Head(UnderWay) = sent[n].message
    BY <2>2, <2>4, <2>5, <2>9
  <2>11. UnderWay' = Tail(UnderWay)
    <3>1. Tail(UnderWay) = [i \in 1 .. d - 1 |-> UnderWay[i + 1]]
      <4>1. Tail(UnderWay) = [i \in 1 .. Len(UnderWay) - 1 |-> UnderWay[i + 1]]
        BY <2>9, <2>10, TailElements
      <4> QED
        BY <2>9, <4>1
    <3>2. \A i \in 1 .. d - 1 : UnderWay[i + 1] = sent[n + i].message
      <4>1. \A i \in 1 .. d - 1 : i + 1 \in 1..d /\ r + (i + 1) = n + i
        BY <2>2, <2>4
      <4> QED
        BY <2>5, <4>1
    <3> QED
      BY <2>6, <3>1, <3>2
  <2>12. CH!Take
    BY <1>3, <1>6, <2>8, <2>10, <2>11 DEF CH!Take
  <2> QED
    BY <2>12 DEF CH!Next
<1> QED
  BY <1>2, <1>5, <1>6

\* A length read announces a message, but is none.
LEMMA RecvLengthSimulates ==
    ASSUME IInv, RecvLength, ~ torn
    PROVE  CH!Next \/ UNCHANGED CH!vars
<1> USE DEF IInv
<1>1. PICK k \in 1..Len(stream) :
        /\ Recv(PrefixSize, k)
        /\ k >= PrefixSize => messageLength' \in Lengths
        /\ k < PrefixSize \/ messageLength' # 0 => UNCHANGED received
  BY BufferAssumption DEF RecvLength, TypeOK
<1>2. UNCHANGED sent /\ reader = "length" /\ k <= PrefixSize
  BY <1>1 DEF Recv, RecvLength
<1>3. k >= PrefixSize => messageLength' # 0
  <2> SUFFICES ASSUME k >= PrefixSize PROVE messageLength' # 0
    OBVIOUS
  <2>1. Len(stream) >= PrefixSize
    BY BufferAssumption DEF TypeOK
  <2>2. /\ Len(received) + 1 \in DOMAIN sent
        /\ Lengths = {Size[sent[Len(received) + 1].message]}
    BY <1>2, <2>1, LengthRead
  <2> QED
    BY <1>1, <2>2, SentTypes, SizeAssumption
<1>4. UNCHANGED received
  BY <1>1, <1>3, BufferAssumption DEF TypeOK
<1> QED
  BY <1>2, <1>4, NoMessageSimulates DEF CH!Next

LEMMA StepSimulates ==
    IInv /\ [Next]_vars => torn' \/ CH!Next \/ UNCHANGED CH!vars
<1> SUFFICES ASSUME IInv, [Next]_vars, ~ torn'
             PROVE  CH!Next \/ UNCHANGED CH!vars
  OBVIOUS
<1>1. CASE \E t \in Threads : SendLength(t)
  BY <1>1, SendLengthSimulates
<1>2. CASE RecvLength
  <2>1. ~ torn
    BY <1>2 DEF RecvLength, Recv
  <2> QED
    BY <1>2, <2>1, RecvLengthSimulates
<1>3. CASE RecvBody
  <2>1. ~ torn
    BY <1>3 DEF RecvBody, Recv
  <2> QED
    BY <1>3, <2>1, RecvBodySimulates
<1>4. CASE \/ \E t \in Threads : BeginBroadcast(t) \/ BeginOwn(t) \/ SendChunk(t)
           \/ Close \/ RecvEnd \/ Leave \/ UNCHANGED vars
  <2>1. UNCHANGED <<sent, received>> /\ (reader = "ended" => reader' = "ended")
    BY <1>4 DEF BeginBroadcast, BeginOwn, Begin, SendChunk, Close, RecvEnd, Leave, vars, readerVars
  <2> QED
    BY <2>1, NoMessageSimulates DEF CH!Next
<1> QED
  BY <1>1, <1>2, <1>3, <1>4 DEF Next, Thread, Reader

\* For all sizes of messages and buffers and however the bytes are cut, the
\* two functions make a channel of messages of the stream, until the handler
\* sends without mutex in the middle of a broadcast or the reverse.
THEOREM FramingImplementsChannel == Spec => ImplementsChannel
<1>1. Init => CH!Init
  <2> SUFFICES ASSUME Init PROVE CH!Init
    OBVIOUS
  <2>1. sent = <<>> /\ received = <<>> /\ reader = "length"
    BY DEF Init
  <2>2. UnderWay = <<>>
    <3>1. Len(sent) - Len(received) = 0
      BY <2>1
    <3> QED
      BY <3>1 DEF UnderWay
  <2>3. Delivered = <<>>
    BY <2>1 DEF Delivered
  <2> QED
    BY <2>1, <2>2, <2>3 DEF CH!Init
<1> QED
  BY InitIInv, NextIInv, StepSimulates, <1>1, PTL DEF Spec, ImplementsChannel
=============================================================================
