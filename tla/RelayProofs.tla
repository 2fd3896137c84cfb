---------------------------- MODULE RelayProofs ----------------------------
(***************************************************************************)
(* Safety of the relay, for any clients, users, shapes and commands: types *)
(* are right, a draw ID is given to one item only, and all clients that    *)
(* were connected from the start come to show the same board.              *)
(***************************************************************************)
EXTENDS Relay, DrawListLaws, SequenceTheorems, FiniteSetTheorems

USE ClientsAssumption, MaxCommandsAssumption

\* Appending to a sequence of anything.
LEMMA AppendAny ==
  ASSUME NEW h, IsSequence(h), NEW x,
         NEW g, g = Append(h, x)
  PROVE  /\ IsSequence(g) /\ g # <<>>
         /\ Len(g) = Len(h) + 1 /\ DOMAIN g = DOMAIN h \union {Len(g)}
         /\ g[Len(g)] = x
         /\ \A k \in DOMAIN h : g[k] = h[k]
<1> DEFINE S == {h[k] : k \in DOMAIN h}
<1> DEFINE T == S \union {x}
<1>1. h \in Seq(T)
  BY DEF IsSequence
<1>2. /\ g \in Seq(T) /\ Len(g) = Len(h) + 1 /\ Len(h) \in Nat
      /\ \A k \in 1..Len(h) : g[k] = h[k]
      /\ g[Len(h) + 1] = x
  BY <1>1
<1>3. DOMAIN g = 1..Len(g) /\ DOMAIN h = 1..Len(h)
  BY <1>1, <1>2
<1>4. \A k \in DOMAIN g : g[k] \in {g[j] : j \in DOMAIN g}
  OBVIOUS
<1>5. g \in Seq({g[j] : j \in DOMAIN g})
  BY <1>2, <1>3, <1>4
<1> QED
  BY <1>2, <1>3, <1>5 DEF IsSequence

LEMMA AppendEach ==
  ASSUME NEW h, IsSequence(h), NEW x,
         NEW g, g = Append(h, x), NEW k \in DOMAIN g
  PROVE  (k \in DOMAIN h /\ g[k] = h[k]) \/ g[k] = x
<1>1. DOMAIN g = DOMAIN h \union {Len(g)} /\ g[Len(g)] = x /\ \A j \in DOMAIN h : g[j] = h[j]
  BY AppendAny
<1> QED
  BY <1>1

LEMMA HistoryGrows ==
  ASSUME TypeOK, NEW x, IsDrawList(x), history' = Append(history, x)
  PROVE  /\ IsSequence(history') /\ history' # <<>>
         /\ \A k \in DOMAIN history' : IsDrawList(history'[k])
<1>1. IsSequence(history) /\ \A k \in DOMAIN history : IsDrawList(history[k])
  BY DEF TypeOK
<1>2. IsSequence(history') /\ history' # <<>>
  BY <1>1, AppendAny
<1>3. DOMAIN history' = DOMAIN history \union {Len(history')}
  BY <1>1, AppendAny
<1>4. history'[Len(history')] = x
  BY <1>1, AppendAny
<1>5. \A k \in DOMAIN history : history'[k] = history[k]
  BY <1>1, AppendAny
<1> QED
  BY <1>1, <1>2, <1>3, <1>4, <1>5

\* What is executed on a draw list of the server or of a client.
LEMMA MessageExecutes ==
  ASSUME NEW m, IsDrawList(m), NEW p \in Message
  PROVE  IsDrawList(Execute(m, p))
<1>1. CASE p \in Command \union Bulk
  BY <1>1, ExecuteIsDrawList
<1>2. CASE p \in [message_type : {"ID"}, user_id : Int]
  <2>1. p.message_type \in {"ID", "INVALID"}
    BY <1>2
  <2> QED
    BY <2>1, ExecuteIsDrawList
<1> QED
  BY <1>1, <1>2 DEF Message

LEMMA InitIInv == Init => IInv
<1> SUFFICES ASSUME Init PROVE IInv
  OBVIOUS
<1> USE DEF Init, NoClient
<1>1. TypeOK
  <2>1. IsSequence(history) /\ history # <<>>
        /\ \A k \in DOMAIN history : history[k] = NoItems
    BY DEF IsSequence
  <2> QED
    BY <2>1, EmptyIsDrawList DEF TypeOK, Labels, NoPackage
<1>2. LockOK
  BY DEF LockOK
<1>3. IdsOK
  BY EmptyIsDrawList DEF IdsOK, Slots
<1>4. InOrder
  <2>1. /\ Len(history) = 1 /\ history[1] = NoItems
        /\ \A c \in Clients : inbox[c] = <<>> /\ Len(inbox[c]) = 0
    OBVIOUS
  <2>2. \A c \in Started : Behind(c) = 1 /\ 1..Len(inbox[c]) = {}
    BY <2>1 DEF Behind
  <2> QED
    BY <2>1, <2>2 DEF InOrder
<1> QED
  BY <1>1, <1>2, <1>3, <1>4 DEF IInv, DownOK

LEMMA TypeStep == TypeOK /\ LockOK /\ [Next]_vars => TypeOK'
<1> SUFFICES ASSUME TypeOK, LockOK, [Next]_vars PROVE TypeOK'
  OBVIOUS
<1> USE DEF TypeOK, Labels, serverVars, handlerVars, clientVars, netVars, Goto
<1>1. ASSUME NEW c \in Clients, Send(c) PROVE TypeOK'
  <2>1. PICK p \in Issuable(c) : toServer' = [toServer EXCEPT ![c] = Append(@, p)]
    BY <1>1 DEF Send
  <2>2. p \in Command
    BY IssuableType, 0 \in Nat
  <2>3. toServer' \in [Clients -> Seq(Command)]
    BY <2>1, <2>2
  <2> QED
    BY <1>1, <2>3 DEF Send
<1>2. ASSUME NEW c \in Clients, FirstReply(c) PROVE TypeOK'
  BY <1>2 DEF FirstReply
<1>3. ASSUME NEW c \in Clients, Apply(c) PROVE TypeOK'
  <2>1. Head(inbox[c]) \in Message
    BY <1>3 DEF Apply
  <2>2. IsDrawList(Execute(client_list[c], Head(inbox[c])))
    BY <2>1, MessageExecutes
  <2>3. \A d \in Clients : IsDrawList(client_list'[d])
    BY <1>3, <2>2 DEF Apply
  <2>4. inbox' \in [Clients -> Seq(Message)]
    BY <1>3 DEF Apply
  <2> QED
    BY <1>3, <2>3, <2>4 DEF Apply
<1>4. ASSUME NEW c \in Clients, Register(c) PROVE TypeOK'
  BY <1>4 DEF Register
<1>5. ASSUME NEW c \in Clients, SendId(c) PROVE TypeOK'
  <2>1. IdReply(c) \in Message
    BY DEF IdReply, Message
  <2> QED
    BY <1>5, <2>1 DEF SendId, SendTo, Delivered
<1>6. ASSUME NEW c \in Clients, SerializeBulk(c) PROVE TypeOK'
  <2>1. BulkPackage(Serialize(draw_list)) \in Bulk
    BY LoadSerialize DEF Bulk, BulkPackage
  <2> QED
    BY <1>6, <2>1 DEF SerializeBulk
<1>7. ASSUME NEW c \in Clients, SendBulk(c) PROVE TypeOK'
  <2>1. package[c] \in Message
    BY <1>7 DEF SendBulk, Message
  <2> QED
    BY <1>7, <2>1 DEF SendBulk, SendTo, Delivered
<1>8. ASSUME NEW c \in Clients, Receive(c) PROVE TypeOK'
  <2> DEFINE p == Numbered(Head(toServer[c]), glb_draw_id)
  <2>1. Head(toServer[c]) \in Command /\ Tail(toServer[c]) \in Seq(Command)
    BY <1>8 DEF Receive
  <2>2. p \in Command
    BY <2>1, NumberedType
  <2>3. messages_buf' = [messages_buf EXCEPT ![c] = Append(@, p)]
    BY <1>8 DEF Receive
  <2>4. messages_buf' \in [Clients -> Seq(Command)]
    BY <2>2, <2>3
  <2>5. glb_draw_id' \in Nat
    BY <1>8 DEF Receive
  <2> QED
    BY <1>8, <2>1, <2>4, <2>5 DEF Receive
<1>9. ASSUME NEW c \in Clients, PollIdle(c) PROVE TypeOK'
  BY <1>9 DEF PollIdle
<1>10. ASSUME NEW c \in Clients, TryLock(c) PROVE TypeOK'
  <2>1. messages_buf[c] # <<>> /\ messages_buf[c] \in Seq(Command)
    BY <1>10 DEF TryLock, LockOK
  <2>2. Head(messages_buf[c]) \in Command /\ Tail(messages_buf[c]) \in Seq(Command)
    BY <2>1
  <2> QED
    BY <1>10, <2>2 DEF TryLock
<1>11. ASSUME NEW c \in Clients, TryLockTimeout(c) PROVE TypeOK'
  BY <1>11 DEF TryLockTimeout
<1>12. ASSUME NEW c \in Clients, ExecuteUnlock(c) PROVE TypeOK'
  <2>1. IsDrawList(Execute(draw_list, package[c]))
    BY <1>12, ExecuteIsDrawList DEF ExecuteUnlock
  <2> QED
    BY <1>12, <2>1 DEF ExecuteUnlock
<1>13. ASSUME NEW c \in Clients, Broadcast(c) PROVE TypeOK'
  <2>1. package[c] \in Command /\ package[c] \in Message
    BY <1>13 DEF Broadcast, Message
  <2>2. inbox' \in [Clients -> Seq(Message)]
    BY <1>13, <2>1 DEF Broadcast, Delivered
  <2>3. /\ IsSequence(history') /\ history' # <<>>
        /\ \A k \in DOMAIN history' : IsDrawList(history'[k])
    <3>1. IsDrawList(Board)
      BY DEF Board
    <3>2. IsDrawList(Execute(Board, package[c]))
      BY <2>1, <3>1, ExecuteIsDrawList
    <3> QED
      BY <1>13, <3>2, HistoryGrows DEF Broadcast
  <2> QED
    BY <1>13, <2>2, <2>3 DEF Broadcast
<1>14. ASSUME NEW c \in Clients, Disconnect(c) \/ Remove(c) PROVE TypeOK'
  BY <1>14 DEF Disconnect, Remove
<1>15. ASSUME NEW c \in Clients, BrokenPipe(c) PROVE TypeOK'
  <2>1. pc[c] = "broadcast" => package[c] \in Message
    BY DEF Message
  <2>2. CASE inbox' = inbox
    BY <1>15, <2>2 DEF BrokenPipe
  <2>3. ASSUME pc[c] = "broadcast", NEW reached,
               inbox' = [d \in Clients |-> IF d \in reached THEN Delivered(d, package[c])
                                                            ELSE inbox[d]]
        PROVE  TypeOK'
    <3>1. \A d \in Clients : Delivered(d, package[c]) \in Seq(Message)
      BY <2>1, <2>3 DEF Delivered
    <3>2. inbox' \in [Clients -> Seq(Message)]
      BY <2>3, <3>1
    <3> QED
      BY <1>15, <3>2 DEF BrokenPipe
  <2> QED
    BY <1>15, <2>2, <2>3 DEF BrokenPipe
<1>16. CASE UNCHANGED vars
  BY <1>16 DEF vars
<1> QED
  BY <1>1, <1>2, <1>3, <1>4, <1>5, <1>6, <1>7, <1>8, <1>9, <1>10, <1>11, <1>12,
     <1>13, <1>14, <1>15, <1>16 DEF Next, Client, Join, Loop, Die

LEMMA LockStep == TypeOK /\ LockOK /\ [Next]_vars => LockOK'
<1> SUFFICES ASSUME TypeOK, LockOK, [Next]_vars PROVE LockOK'
  OBVIOUS
<1> USE DEF LockOK, serverVars, handlerVars, clientVars, netVars, Goto, NoClient
<1>0. /\ pc \in [Clients -> Labels]
      /\ messages_buf \in [Clients -> Seq(Command)]
      /\ NoClient \notin Clients
  BY DEF TypeOK
<1>1. ASSUME NEW c \in Clients, Client(c) PROVE LockOK'
  BY <1>1 DEF Client, Send, FirstReply, Apply
<1>2. ASSUME NEW c \in Clients, Join(c) PROVE LockOK'
  BY <1>0, <1>2 DEF Join, Register, SendId, SerializeBulk, SendBulk
<1>3. ASSUME NEW c \in Clients, Receive(c) PROVE LockOK'
  BY <1>0, <1>3 DEF Receive
<1>4. ASSUME NEW c \in Clients, PollIdle(c) PROVE LockOK'
  BY <1>0, <1>4 DEF PollIdle
<1>5. ASSUME NEW c \in Clients, TryLock(c) PROVE LockOK'
  BY <1>0, <1>5 DEF TryLock
<1>6. ASSUME NEW c \in Clients, TryLockTimeout(c) PROVE LockOK'
  BY <1>0, <1>6 DEF TryLockTimeout
<1>7. ASSUME NEW c \in Clients, ExecuteUnlock(c) PROVE LockOK'
  BY <1>0, <1>7 DEF ExecuteUnlock
<1>8. ASSUME NEW c \in Clients, Broadcast(c) PROVE LockOK'
  BY <1>0, <1>8 DEF Broadcast
<1>9. ASSUME NEW c \in Clients, Disconnect(c) \/ Remove(c) \/ Die(c) PROVE LockOK'
  BY <1>0, <1>9 DEF Disconnect, Remove, Die, BrokenPipe
<1>10. CASE UNCHANGED vars
  BY <1>10 DEF vars
<1> QED
  BY <1>1, <1>2, <1>3, <1>4, <1>5, <1>6, <1>7, <1>8, <1>9, <1>10 DEF Next, Loop

-----------------------------------------------------------------------------
(* Draw IDs.  A handler holds an ID in a slot; how each step moves the IDs *)
(* between slots says all that its effect on IdsOK depends on.             *)

Holds(c, k, id) ==
    k \in Slots(c) /\ IsInsert(Slot(c, k)) /\ Slot(c, k).draw_data.draw_id = id

Given(c, k, id) ==
    /\ id \in Nat /\ id < glb_draw_id
    /\ id \in DOMAIN draw_list => k = 0 /\ pc[c] = "broadcast"
    /\ \A j \in DOMAIN history : id \notin DOMAIN history[j]

\* What IdsOK says of the slots, by ID.
HeldOnce ==
    \A c, d \in Clients : \A k, l \in Nat : \A id :
        Holds(c, k, id) => Given(c, k, id) /\ (Holds(d, l, id) => d = c /\ l = k)

LEMMA SlotType ==
  ASSUME TypeOK, NEW c \in Clients, NEW k \in Slots(c)
  PROVE  /\ k \in Nat /\ Slot(c, k) \in Command
         /\ IsInsert(Slot(c, k)) => Slot(c, k).draw_data.draw_id \in Nat
<1>1. k \in Nat /\ Slot(c, k) \in Command
  <2>1. messages_buf[c] \in Seq(Command) /\ DOMAIN messages_buf[c] = 1..Len(messages_buf[c])
    BY DEF TypeOK
  <2>2. CASE k = 0
    BY <2>1, <2>2 DEF TypeOK, Slots, Slot
  <2>3. CASE k # 0
    BY <2>1, <2>3 DEF Slots, Slot
  <2> QED
    BY <2>2, <2>3
<1>2. IsInsert(Slot(c, k)) => Slot(c, k).draw_data.draw_id \in Nat
  BY <1>1 DEF IsInsert, Command, DrawData
<1> QED
  BY <1>1, <1>2

LEMMA HeldOnceFromIds == TypeOK /\ IdsOK => HeldOnce
<1> SUFFICES ASSUME TypeOK, IdsOK,
                    NEW c \in Clients, NEW d \in Clients,
                    NEW k \in Nat, NEW l \in Nat, NEW id, Holds(c, k, id)
             PROVE  Given(c, k, id) /\ (Holds(d, l, id) => d = c /\ l = k)
  BY DEF HeldOnce
<1>1. k \in Slots(c) /\ IsInsert(Slot(c, k)) /\ id = Slot(c, k).draw_data.draw_id
  BY DEF Holds
<1>2. Given(c, k, id)
  BY <1>1, SlotType DEF IdsOK, Given
<1>3. SoleHolder(c, k)
  BY <1>1 DEF IdsOK
<1> QED
  BY <1>1, <1>2, <1>3 DEF SoleHolder, Holds

\* And back.
LEMMA IdsFromHeldOnce ==
  /\ TypeOK /\ HeldOnce
  /\ \A i \in DOMAIN draw_list : i < glb_draw_id
  /\ \A k \in DOMAIN history : \A i \in DOMAIN history[k] : i < glb_draw_id
  => IdsOK
<1> SUFFICES ASSUME TypeOK, HeldOnce,
                    NEW c \in Clients, NEW k \in Slots(c), IsInsert(Slot(c, k))
             PROVE  /\ Given(c, k, Slot(c, k).draw_data.draw_id)
                    /\ SoleHolder(c, k)
  BY DEF IdsOK, Given
<1> DEFINE id == Slot(c, k).draw_data.draw_id
<1>1. k \in Nat /\ Holds(c, k, id)
  BY SlotType DEF Holds
<1>2. Given(c, k, id)
  BY <1>1 DEF HeldOnce
<1>3. \A d \in Clients : \A l \in Slots(d) : l \in Nat
  BY SlotType
<1>4. SoleHolder(c, k)
  <2> SUFFICES ASSUME NEW d \in Clients, NEW l \in Slots(d), IsInsert(Slot(d, l)),
                      Slot(d, l).draw_data.draw_id = id
               PROVE  d = c /\ l = k
    BY DEF SoleHolder
  <2>1. Holds(d, l, id) /\ l \in Nat
    BY <1>3 DEF Holds
  <2> QED
    BY <1>1, <2>1 DEF HeldOnce
<1> QED
  BY <1>2, <1>4

KeysBelow ==
    /\ \A i \in DOMAIN draw_list : i < glb_draw_id
    /\ \A k \in DOMAIN history : \A i \in DOMAIN history[k] : i < glb_draw_id

\* A client that has crashed is given up, or brings the server down.
Ends(c) == Disconnect(c) \/ Remove(c) \/ Die(c)

\* Steps that move no draw ID.
Quiet(c) == Client(c) \/ Join(c) \/ PollIdle(c) \/ TryLockTimeout(c) \/ Ends(c)

LEMMA QuietHolds ==
  ASSUME TypeOK, NEW c, (c \in Clients /\ Quiet(c)) \/ UNCHANGED vars
  PROVE  /\ UNCHANGED <<draw_list, glb_draw_id, history>>
         /\ \A d \in Clients : /\ Slots(d)' = Slots(d)
                               /\ \A k \in Slots(d) : Slot(d, k)' = Slot(d, k)
                               /\ pc'[d] = "broadcast" <=> pc[d] = "broadcast"
<1> USE DEF serverVars, handlerVars, clientVars, netVars, Goto, Slots, Slot
<1>1. /\ pc \in [Clients -> Labels] /\ DOMAIN package = Clients
      /\ messages_buf \in [Clients -> Seq(Command)]
      /\ \A d \in Clients : DOMAIN messages_buf[d] = 1..Len(messages_buf[d])
  BY DEF TypeOK
<1>2. CASE c \in Clients /\ Client(c)
  BY <1>2 DEF Client, Send, FirstReply, Apply
<1>3. CASE c \in Clients /\ (Register(c) \/ SendId(c))
  BY <1>1, <1>3 DEF Register, SendId
<1>4. CASE c \in Clients /\ (SerializeBulk(c) \/ SendBulk(c))
  BY <1>1, <1>4 DEF SerializeBulk, SendBulk
<1>5. CASE c \in Clients /\ (PollIdle(c) \/ TryLockTimeout(c))
  BY <1>1, <1>5 DEF PollIdle, TryLockTimeout
<1>6. CASE c \in Clients /\ Ends(c)
  BY <1>1, <1>6 DEF Ends, Disconnect, Remove, Die, BrokenPipe
<1>7. CASE UNCHANGED vars
  BY <1>7 DEF vars
<1> QED
  BY <1>2, <1>3, <1>4, <1>5, <1>6, <1>7 DEF Quiet, Join

LEMMA QuietIds ==
  ASSUME TypeOK, HeldOnce, KeysBelow,
         NEW c, (c \in Clients /\ Quiet(c)) \/ UNCHANGED vars
  PROVE  HeldOnce' /\ KeysBelow'
<1>1. \A d \in Clients : \A k, id : Holds(d, k, id)' => Holds(d, k, id)
  BY QuietHolds DEF Holds
<1>2. \A d \in Clients : \A k, id : Given(d, k, id) => Given(d, k, id)'
  BY QuietHolds DEF Given
<1>3. KeysBelow'
  BY QuietHolds DEF KeysBelow
<1> QED
  BY <1>1, <1>2, <1>3 DEF HeldOnce

\* A received INSERT gets an ID nothing else has.
LEMMA ReceiveIds ==
  ASSUME TypeOK, HeldOnce, KeysBelow, NEW c \in Clients, Receive(c)
  PROVE  HeldOnce' /\ KeysBelow'
<1> DEFINE p == Numbered(Head(toServer[c]), glb_draw_id)
<1> DEFINE n == Len(messages_buf[c]) + 1
<1>1. /\ UNCHANGED <<draw_list, history, pc, package>>
      /\ messages_buf' = [messages_buf EXCEPT ![c] = Append(@, p)]
      /\ glb_draw_id' = IF IsInsert(Head(toServer[c])) THEN glb_draw_id + 1 ELSE glb_draw_id
  BY DEF Receive
<1>2. /\ glb_draw_id \in Nat
      /\ \A d \in Clients : messages_buf[d] \in Seq(Command)
      /\ messages_buf \in [Clients -> Seq(Command)]
      /\ Head(toServer[c]) \in Command
  BY DEF TypeOK, Receive
<1>3. /\ p \in Command
      /\ IsInsert(p) <=> IsInsert(Head(toServer[c]))
      /\ IsInsert(p) => p.draw_data.draw_id = glb_draw_id
  BY <1>2, NumberedType
<1> HIDE DEF p
<1>4. ASSUME NEW d \in Clients, NEW k \in Nat, NEW id, Holds(d, k, id)'
      PROVE  \/ Holds(d, k, id)
             \/ d = c /\ k = n /\ id = glb_draw_id /\ glb_draw_id' = glb_draw_id + 1
  <2>1. CASE d # c \/ k = 0
    BY <1>1, <1>2, <1>4, <2>1 DEF Holds, Slots, Slot
  <2>2. CASE d = c /\ k \in 1..Len(messages_buf[c])
    BY <1>1, <1>2, <1>4, <2>2, <1>3 DEF Holds, Slots, Slot
  <2>3. CASE d = c /\ k = n
    BY <1>1, <1>2, <1>3, <1>4, <2>3 DEF Holds, Slots, Slot
  <2>4. k = 0 \/ d # c \/ k \in 1..n
    BY <1>1, <1>2, <1>3, <1>4 DEF Holds, Slots
  <2> QED
    BY <1>2, <2>1, <2>2, <2>3, <2>4
<1>5. KeysBelow'
  <2>1. /\ \A i \in DOMAIN draw_list : i \in Nat
        /\ \A k \in DOMAIN history : \A i \in DOMAIN history[k] : i \in Nat
    BY DEF TypeOK, IsDrawList
  <2>2. glb_draw_id' = glb_draw_id \/ glb_draw_id' = glb_draw_id + 1
    BY <1>1
  <2> QED
    BY <1>1, <1>2, <2>1, <2>2 DEF KeysBelow
<1>6. \A d \in Clients : \A k, id : Given(d, k, id) => Given(d, k, id)'
  BY <1>1, <1>2 DEF Given
<1>7. ASSUME NEW k, NEW id, id = glb_draw_id, glb_draw_id' = glb_draw_id + 1
      PROVE  Given(c, k, id)'
  <2>1. /\ glb_draw_id \notin DOMAIN draw_list
        /\ \A j \in DOMAIN history : glb_draw_id \notin DOMAIN history[j]
    BY <1>2 DEF KeysBelow
  <2> QED
    BY <1>1, <1>2, <1>7, <2>1 DEF Given
<1>8. \A d \in Clients : \A k \in Nat : ~ Holds(d, k, glb_draw_id)
  BY <1>2 DEF HeldOnce, Given
<1>9. HeldOnce'
  <2> SUFFICES ASSUME NEW d \in Clients, NEW e \in Clients, NEW k \in Nat,
                      NEW l \in Nat, NEW id, Holds(d, k, id)'
               PROVE  Given(d, k, id)' /\ (Holds(e, l, id)' => e = d /\ l = k)
    BY DEF HeldOnce
  <2>1. CASE Holds(d, k, id)
    <3>1. id # glb_draw_id
      BY <1>8, <2>1
    <3>2. Given(d, k, id)'
      <4>1. Given(d, k, id)
        BY <2>1 DEF HeldOnce
      <4> QED
        BY <1>6, <4>1
    <3>3. ASSUME Holds(e, l, id)' PROVE e = d /\ l = k
      <4>1. Holds(e, l, id)
        BY <1>4, <3>1, <3>3
      <4> QED
        BY <2>1, <4>1 DEF HeldOnce
    <3> QED
      BY <3>2, <3>3
  <2>2. CASE /\ d = c /\ k = n /\ id = glb_draw_id
             /\ glb_draw_id' = glb_draw_id + 1
    <3>1. Holds(e, l, id)' => e = d /\ l = k
      BY <1>4, <1>8, <2>2
    <3> QED
      BY <1>7, <2>2, <3>1
  <2> QED
    BY <1>4, <2>1, <2>2
<1> QED
  BY <1>5, <1>9

\* Taking the mutex moves a handler's packages up by one slot.
LEMMA TryLockSlots ==
  ASSUME TypeOK, LockOK, NEW c \in Clients, TryLock(c)
  PROVE  /\ \A k \in Slots(c)' : k + 1 \in Slots(c) /\ Slot(c, k)' = Slot(c, k + 1)
         /\ \A d \in Clients \ {c} : Slots(d)' = Slots(d)
                                     /\ \A k \in Slots(d) : Slot(d, k)' = Slot(d, k)
<1>1. /\ package' = [package EXCEPT ![c] = Head(messages_buf[c])]
      /\ messages_buf' = [messages_buf EXCEPT ![c] = Tail(@)]
      /\ pc[c] = "try" /\ pc' = [pc EXCEPT ![c] = "execute"]
  BY DEF TryLock, Goto
<1>2. /\ messages_buf \in [Clients -> Seq(Command)] /\ messages_buf[c] # <<>>
      /\ \A d \in Clients : messages_buf[d] \in Seq(Command)
      /\ DOMAIN package = Clients /\ DOMAIN pc = Clients
  BY <1>1 DEF TypeOK, LockOK
<1>3. ASSUME NEW k \in Slots(c)'
      PROVE  k + 1 \in Slots(c) /\ Slot(c, k)' = Slot(c, k + 1)
  <2>1. Slots(c)' = {0} \union DOMAIN Tail(messages_buf[c])
    BY <1>1, <1>2 DEF Slots
  <2>2. CASE k = 0
    BY <1>1, <1>2, <2>2 DEF Slots, Slot
  <2>3. CASE k \in DOMAIN Tail(messages_buf[c])
    BY <1>1, <1>2, <2>3 DEF Slots, Slot
  <2> QED
    BY <2>1, <2>2, <2>3
<1>4. ASSUME NEW d \in Clients \ {c}
      PROVE  Slots(d)' = Slots(d) /\ \A k \in Slots(d) : Slot(d, k)' = Slot(d, k)
  BY <1>1, <1>2 DEF Slots, Slot
<1> QED
  BY <1>3, <1>4

\* And with them their IDs.
LEMMA TryLockIds ==
  ASSUME TypeOK, LockOK, HeldOnce, KeysBelow, NEW c \in Clients, TryLock(c)
  PROVE  HeldOnce' /\ KeysBelow'
<1>1. /\ UNCHANGED <<draw_list, history, glb_draw_id>>
      /\ package' = [package EXCEPT ![c] = Head(messages_buf[c])]
      /\ messages_buf' = [messages_buf EXCEPT ![c] = Tail(@)]
      /\ pc[c] = "try" /\ pc' = [pc EXCEPT ![c] = "execute"]
  BY DEF TryLock, Goto
<1>2. /\ messages_buf \in [Clients -> Seq(Command)] /\ messages_buf[c] # <<>>
      /\ \A d \in Clients : messages_buf[d] \in Seq(Command)
      /\ DOMAIN package = Clients /\ DOMAIN pc = Clients
  BY <1>1 DEF TypeOK, LockOK
<1>3. ASSUME NEW k \in Slots(c)'
      PROVE  k + 1 \in Slots(c) /\ Slot(c, k)' = Slot(c, k + 1)
  BY <1>3, TryLockSlots
<1>4. ASSUME NEW d \in Clients, NEW k \in Nat, NEW id, Holds(d, k, id)'
      PROVE  IF d = c THEN Holds(c, k + 1, id) ELSE Holds(d, k, id)
  <2>1. CASE d = c
    BY <1>3, <1>4, <2>1 DEF Holds
  <2>2. CASE d # c
    BY <1>1, <1>2, <1>4, <2>2 DEF Holds, Slots, Slot
  <2> QED
    BY <2>1, <2>2
<1>5. ASSUME NEW d \in Clients, NEW k \in Nat, NEW id, Holds(d, k, id)'
      PROVE  Given(d, k, id)'
  <2>1. CASE d = c
    <3>1. Given(c, k + 1, id)
      BY <1>4, <1>5, <2>1 DEF HeldOnce
    <3> QED
      BY <1>1, <2>1, <3>1 DEF Given
  <2>2. CASE d # c
    <3>1. Given(d, k, id)
      BY <1>4, <1>5, <2>2 DEF HeldOnce
    <3> QED
      BY <1>1, <1>2, <2>2, <3>1 DEF Given
  <2> QED
    BY <2>1, <2>2
<1>6. HeldOnce'
  <2> SUFFICES ASSUME NEW d \in Clients, NEW e \in Clients, NEW k \in Nat,
                      NEW l \in Nat, NEW id, Holds(d, k, id)', Holds(e, l, id)'
               PROVE  e = d /\ l = k
    BY <1>5 DEF HeldOnce
  <2> DEFINE kk == IF d = c THEN k + 1 ELSE k
  <2> DEFINE ll == IF e = c THEN l + 1 ELSE l
  <2>1. Holds(d, kk, id) /\ Holds(e, ll, id) /\ kk \in Nat /\ ll \in Nat
    BY <1>4
  <2>2. e = d /\ ll = kk
    BY <2>1 DEF HeldOnce
  <2> QED
    BY <2>2
<1> QED
  BY <1>1, <1>6 DEF KeysBelow

\* Executing puts the ID of the package in hand on the draw list.
LEMMA ExecuteIds ==
  ASSUME TypeOK, HeldOnce, KeysBelow, NEW c \in Clients, ExecuteUnlock(c)
  PROVE  HeldOnce' /\ KeysBelow'
<1>1. /\ UNCHANGED <<history, glb_draw_id, package, messages_buf>>
      /\ draw_list' = Execute(draw_list, package[c])
      /\ pc[c] = "execute" /\ pc' = [pc EXCEPT ![c] = "broadcast"]
      /\ pc \in [Clients -> Labels]
      /\ package[c] \in Command /\ IsDrawList(draw_list)
  BY DEF ExecuteUnlock, Goto, TypeOK
<1>2. ASSUME NEW d \in Clients, NEW k \in Nat, NEW id
      PROVE  Holds(d, k, id)' <=> Holds(d, k, id)
  BY <1>1 DEF Holds, Slots, Slot
<1>3. ASSUME NEW i \in DOMAIN draw_list', i \notin DOMAIN draw_list
      PROVE  Holds(c, 0, i)
  <2>1. IsInsert(package[c]) /\ i = package[c].draw_data.draw_id
    BY <1>1, <1>3, ExecuteKeys
  <2> QED
    BY <1>1, <2>1 DEF Holds, Slots, Slot
<1>4. KeysBelow'
  <2>1. \A i \in DOMAIN draw_list' : i < glb_draw_id
    BY <1>3 DEF KeysBelow, HeldOnce, Given
  <2> QED
    BY <1>1, <2>1 DEF KeysBelow
<1>5. ASSUME NEW d \in Clients, NEW k \in Nat, NEW id, Holds(d, k, id)
      PROVE  Given(d, k, id)'
  <2>1. Given(d, k, id)
    BY <1>5 DEF HeldOnce
  <2>2. id \in DOMAIN draw_list' => k = 0 /\ pc'[d] = "broadcast"
    <3>1. CASE id \in DOMAIN draw_list
      BY <1>1, <2>1, <3>1 DEF Given
    <3>2. CASE id \in DOMAIN draw_list' /\ id \notin DOMAIN draw_list
      <4>1. Holds(c, 0, id)
        BY <1>3, <3>2
      <4>2. d = c /\ k = 0
        BY <1>5, <4>1 DEF HeldOnce
      <4> QED
        BY <1>1, <4>2
    <3> QED
      BY <3>1, <3>2
  <2> QED
    BY <1>1, <2>1, <2>2 DEF Given
<1> QED
  BY <1>2, <1>4, <1>5 DEF HeldOnce

\* Broadcasting empties the slot whose ID it puts on the board.
LEMMA BroadcastIds ==
  ASSUME TypeOK, HeldOnce, KeysBelow, NEW c \in Clients, Broadcast(c)
  PROVE  HeldOnce' /\ KeysBelow'
<1> DEFINE x == Execute(Board, package[c])
<1>1. /\ UNCHANGED <<draw_list, glb_draw_id, messages_buf>>
      /\ history' = Append(history, x)
      /\ package' = [package EXCEPT ![c] = NoPackage]
      /\ pc[c] = "broadcast" /\ pc' = [pc EXCEPT ![c] = "poll"]
      /\ pc \in [Clients -> Labels]
      /\ messages_buf \in [Clients -> Seq(Command)]
      /\ \A d \in Clients : DOMAIN messages_buf[d] = 1..Len(messages_buf[d])
      /\ DOMAIN package = Clients
      /\ package[c] \in Command
  BY DEF Broadcast, Goto, TypeOK, serverVars
<1>2. ASSUME NEW d \in Clients, NEW k \in Nat, NEW id, Holds(d, k, id)'
      PROVE  Holds(d, k, id) /\ ~ (d = c /\ k = 0)
  <2>1. k \in Slots(d)' /\ IsInsert(Slot(d, k))' /\ Slot(d, k)'.draw_data.draw_id = id
    BY <1>2 DEF Holds
  <2>2. k \in Slots(d) /\ ~ (d = c /\ k = 0) /\ Slot(d, k)' = Slot(d, k)
    BY <1>1, <2>1 DEF Slots, Slot
  <2> QED
    BY <2>1, <2>2 DEF Holds
<1>3. ASSUME NEW i \in DOMAIN x, i \notin DOMAIN Board
      PROVE  Holds(c, 0, i)
  <2>1. IsDrawList(Board)
    BY DEF TypeOK, Board
  <2>2. IsInsert(package[c]) /\ i = package[c].draw_data.draw_id
    BY <1>1, <1>3, <2>1, ExecuteKeys
  <2> QED
    BY <1>1, <2>2 DEF Holds, Slots, Slot
<1>4. IsSequence(history) /\ Board = history[Len(history)] /\ Len(history) \in DOMAIN history
  <2>1. IsSequence(history) /\ history # <<>>
    BY DEF TypeOK
  <2> QED
    BY <2>1 DEF Board, IsSequence
<1> HIDE DEF x
<1>5. ASSUME NEW k \in DOMAIN history'
      PROVE  (k \in DOMAIN history /\ history'[k] = history[k]) \/ history'[k] = x
  <2>0. IsSequence(history) /\ history' = Append(history, x)
    BY <1>1, <1>4
  <2> QED
    BY <1>5, <2>0, AppendEach
<1>6. KeysBelow'
  <2>1. \A i \in DOMAIN x : i < glb_draw_id
    BY <1>3, <1>4 DEF KeysBelow, HeldOnce, Given
  <2> QED
    BY <1>1, <1>5, <2>1 DEF KeysBelow
<1>7. ASSUME NEW d \in Clients, NEW k \in Nat, NEW id, Holds(d, k, id),
             ~ (d = c /\ k = 0)
      PROVE  Given(d, k, id)'
  <2>1. Given(d, k, id)
    BY <1>7 DEF HeldOnce
  <2>2. id \notin DOMAIN x
    <3>1. ~ Holds(c, 0, id)
      BY <1>7 DEF HeldOnce
    <3> QED
      BY <1>3, <1>4, <2>1, <3>1 DEF Given
  <2>3. \A j \in DOMAIN history' : id \notin DOMAIN history'[j]
    BY <1>5, <2>1, <2>2 DEF Given
  <2>4. id \in DOMAIN draw_list => k = 0 /\ pc'[d] = "broadcast"
    BY <1>1, <1>7, <2>1 DEF Given
  <2> QED
    BY <1>1, <2>1, <2>3, <2>4 DEF Given
<1> QED
  BY <1>2, <1>6, <1>7 DEF HeldOnce

LEMMA IdsStep == TypeOK /\ LockOK /\ IdsOK /\ [Next]_vars /\ TypeOK' => IdsOK'
<1> SUFFICES ASSUME TypeOK, LockOK, IdsOK, [Next]_vars PROVE HeldOnce' /\ KeysBelow'
  BY IdsFromHeldOnce, PTL DEF KeysBelow
<1>1. HeldOnce /\ KeysBelow
  BY HeldOnceFromIds DEF IdsOK, KeysBelow
<1>2. CASE UNCHANGED vars
  BY <1>1, <1>2, QuietIds
<1>3. ASSUME NEW c \in Clients, Client(c) \/ Join(c) \/ Loop(c) \/ Die(c)
      PROVE  HeldOnce' /\ KeysBelow'
  BY <1>1, <1>3, QuietIds, ReceiveIds, TryLockIds, ExecuteIds, BroadcastIds
     DEF Quiet, Ends, Loop
<1> QED
  BY <1>2, <1>3 DEF Next

-----------------------------------------------------------------------------
(* The order of broadcasts.                                                *)

LEMMA OrderStep == TypeOK /\ InOrder /\ [Next]_vars /\ server' = "up" => InOrder'
<1> SUFFICES ASSUME TypeOK, InOrder, [Next]_vars, server' = "up" PROVE InOrder'
  OBVIOUS
<1> USE DEF serverVars, handlerVars, clientVars, netVars, Goto, SendTo
<1>0. /\ pc \in [Clients -> Labels] /\ inbox \in [Clients -> Seq(Message)]
      /\ state \in [Clients -> {"connecting", "running", "crashed"}]
      /\ DOMAIN client_list = Clients /\ IsSequence(history)
      /\ \A d \in Started : Len(inbox[d]) \in Nat
      /\ Len(history) \in Nat /\ DOMAIN history = 1..Len(history)
  BY DEF TypeOK, IsSequence
\* Steps that leave inboxes and boards alone.
<1>1. ASSUME UNCHANGED <<history>>,
             \A d \in Started : /\ d \in connections'
                                /\ state'[d] = "running"
                                /\ pc'[d] \in {"poll", "try", "execute", "broadcast"}
                                /\ client_list'[d] = client_list[d]
                                /\ inbox'[d] = inbox[d]
      PROVE  InOrder'
  <2>1. \A d \in Started : Behind(d)' = Behind(d) /\ Len(inbox'[d]) = Len(inbox[d])
    BY <1>1 DEF Behind
  <2> QED
    BY <1>1, <2>1 DEF InOrder
<1>2. ASSUME NEW c \in Clients, Send(c) \/ FirstReply(c) PROVE InOrder'
  BY <1>0, <1>1, <1>2 DEF Send, FirstReply, InOrder
<1>3. ASSUME NEW c \in Clients, Join(c) PROVE InOrder'
  BY <1>0, <1>1, <1>3 DEF Join, Register, SendId, SerializeBulk, SendBulk, InOrder
<1>4. ASSUME NEW c \in Clients, Receive(c) \/ PollIdle(c) \/ TryLock(c)
      PROVE  InOrder'
  BY <1>0, <1>1, <1>4 DEF Receive, PollIdle, TryLock, InOrder
<1>5. ASSUME NEW c \in Clients, TryLockTimeout(c) \/ ExecuteUnlock(c)
      PROVE  InOrder'
  BY <1>0, <1>1, <1>5 DEF TryLockTimeout, ExecuteUnlock, InOrder
<1>6. ASSUME NEW c \in Clients, Apply(c) PROVE InOrder'
  <2>1. /\ UNCHANGED <<history, connections, state, pc>>
        /\ inbox[c] \in Seq(Message) /\ inbox[c] # <<>>
        /\ inbox' = [inbox EXCEPT ![c] = Tail(@)]
        /\ client_list' = [client_list EXCEPT ![c] = Execute(@, Head(inbox[c]))]
    BY <1>0, <1>6 DEF Apply
  <2> SUFFICES ASSUME NEW d \in Started
               PROVE  /\ Behind(d)' >= 1 /\ client_list'[d] = history[Behind(d)']
                      /\ \A i \in 1..Len(inbox'[d]) :
                            history[Behind(d)' + i]
                              = Execute(history[Behind(d)' + i - 1], inbox'[d][i])
    BY <2>1 DEF InOrder
  <2>2. CASE d # c
    <3>1. inbox'[d] = inbox[d] /\ client_list'[d] = client_list[d]
      BY <1>0, <2>1, <2>2
    <3>2. Behind(d)' = Behind(d)
      BY <2>1, <3>1 DEF Behind
    <3> QED
      BY <2>1, <3>1, <3>2 DEF InOrder
  <2>3. CASE d = c
    <3>1. /\ inbox'[c] = Tail(inbox[c]) /\ Len(inbox[c]) \in Nat \ {0}
          /\ Len(inbox'[c]) = Len(inbox[c]) - 1
          /\ \A i \in 1..Len(inbox'[c]) : inbox'[c][i] = inbox[c][i + 1]
          /\ Head(inbox[c]) = inbox[c][1]
      BY <1>0, <2>1
    <3>2. Behind(c)' = Behind(c) + 1 /\ Behind(c) \in Int
      BY <1>0, <2>1, <3>1 DEF Behind
    <3>3. history[Behind(c) + 1] = Execute(history[Behind(c)], inbox[c][1])
      <4>1. 1 \in 1..Len(inbox[c]) /\ Behind(c) + 1 - 1 = Behind(c)
        BY <3>1, <3>2
      <4>2. history[Behind(c) + 1] = Execute(history[Behind(c) + 1 - 1], inbox[c][1])
        BY <2>3, <4>1 DEF InOrder
      <4> QED
        BY <4>1, <4>2
    <3>4. client_list'[c] = history[Behind(c) + 1]
      BY <1>0, <2>1, <2>3, <3>1, <3>3 DEF InOrder
    <3>5. ASSUME NEW i \in 1..Len(inbox'[c])
          PROVE  history[Behind(c) + 1 + i]
                   = Execute(history[Behind(c) + 1 + i - 1], inbox'[c][i])
      <4>1. /\ i + 1 \in 1..Len(inbox[c])
            /\ Behind(c) + (i + 1) = Behind(c) + 1 + i
            /\ Behind(c) + (i + 1) - 1 = Behind(c) + 1 + i - 1
        BY <3>1, <3>2
      <4>2. history[Behind(c) + (i + 1)]
              = Execute(history[Behind(c) + (i + 1) - 1], inbox[c][i + 1])
        BY <2>3, <4>1 DEF InOrder
      <4> QED
        BY <3>1, <4>1, <4>2
    <3>6. Behind(c) >= 1
      BY <2>3 DEF InOrder
    <3> QED
      BY <2>3, <3>2, <3>4, <3>5, <3>6
  <2> QED
    BY <2>2, <2>3
<1>7. ASSUME NEW c \in Clients, Broadcast(c) PROVE InOrder'
  <2> DEFINE x == Execute(Board, package[c])
  <2> DEFINE n == Len(history)
  <2>1. /\ UNCHANGED <<connections, state, client_list>>
        /\ pc' = [pc EXCEPT ![c] = "poll"]
        /\ package[c] \in Message
        /\ history' = Append(history, x)
    BY <1>7 DEF Broadcast, TypeOK, Message
  <2>2. x = Execute(history[n], package[c])
    BY DEF Board
  <2> HIDE DEF x
  <2>3. Len(history') = n + 1
    BY <1>0, <2>1, AppendAny
  <2>4. history'[n + 1] = x
    <3>1. history'[Len(history')] = x
      BY <1>0, <2>1, AppendAny
    <3> QED
      BY <2>3, <3>1
  <2>5. \A k \in 1..n : history'[k] = history[k]
    <3>1. \A k \in DOMAIN history : history'[k] = history[k]
      BY <1>0, <2>1, AppendAny
    <3> QED
      BY <1>0, <3>1
  <2> HIDE DEF n
  <2> SUFFICES ASSUME NEW d \in Started
               PROVE  /\ Behind(d)' >= 1 /\ client_list'[d] = history'[Behind(d)']
                      /\ \A i \in 1..Len(inbox'[d]) :
                            history'[Behind(d)' + i]
                              = Execute(history'[Behind(d)' + i - 1], inbox'[d][i])
    BY <1>0, <2>1 DEF InOrder
  <2> DEFINE l == Len(inbox[d])
  <2>6. /\ inbox[d] \in Seq(Message) /\ inbox'[d] = Append(inbox[d], package[c])
        /\ l \in Nat /\ Len(inbox'[d]) = l + 1
        /\ inbox'[d][l + 1] = package[c]
        /\ \A i \in 1..l : inbox'[d][i] = inbox[d][i]
    <3>1. d \in Clients /\ d \in connections /\ inbox[d] \in Seq(Message)
      BY <1>0 DEF InOrder
    <3>2. inbox'[d] = Append(inbox[d], package[c])
      BY <1>7, <3>1 DEF Broadcast, Delivered, InOrder
    <3> QED
      BY <2>1, <3>1, <3>2
  <2>7. n \in Nat /\ Behind(d) = n - l /\ Behind(d)' = n - l /\ n - l >= 1
    <3>1. Behind(d) = n - l /\ Behind(d)' = (n + 1) - (l + 1)
      BY <2>3, <2>6 DEF Behind, n
    <3>2. Behind(d) >= 1 /\ n \in Nat
      BY <1>0 DEF InOrder, n
    <3> QED
      BY <2>6, <3>1, <3>2
  <2>8. client_list'[d] = history'[n - l]
    <3>1. client_list'[d] = history[n - l]
      BY <2>1, <2>7 DEF InOrder
    <3>2. n - l \in 1..n
      BY <2>6, <2>7
    <3> QED
      BY <2>5, <3>1, <3>2
  <2> HIDE DEF l
  <2>9. ASSUME NEW i \in 1..(l + 1)
        PROVE  history'[n - l + i] = Execute(history'[n - l + i - 1], inbox'[d][i])
    <3>1. CASE i = l + 1
      <4>1. n - l + i = n + 1 /\ n - l + i - 1 = n /\ n \in 1..n
        BY <2>6, <2>7, <3>1
      <4> QED
        BY <2>2, <2>4, <2>5, <2>6, <3>1, <4>1
    <3>2. CASE i # l + 1
      <4>1. i \in 1..l /\ n - l + i \in 1..n /\ n - l + i - 1 \in 1..n
        BY <2>6, <2>7, <3>2
      <4>2. history[n - l + i] = Execute(history[n - l + i - 1], inbox[d][i])
        BY <2>7, <4>1 DEF InOrder, l
      <4> QED
        BY <2>5, <2>6, <4>1, <4>2
    <3> QED
      BY <3>1, <3>2
  <2> QED
    BY <2>6, <2>7, <2>8, <2>9 DEF l
\* Only clients that joined crash.
<1>8. ASSUME NEW c \in Clients, Disconnect(c) \/ Remove(c) PROVE InOrder'
  BY <1>0, <1>1, <1>8 DEF Disconnect, Remove, InOrder
<1>9. ASSUME NEW c \in Clients, Die(c) PROVE FALSE
  BY <1>9 DEF Die, BrokenPipe
<1>10. CASE UNCHANGED vars
  BY <1>1, <1>10 DEF vars, InOrder
<1> QED
  BY <1>2, <1>3, <1>4, <1>5, <1>6, <1>7, <1>8, <1>9, <1>10 DEF Next, Client, Loop

\* A broken pipe takes a client that crashed, and those connected from the
\* start are running.
LEMMA DownStep ==
  ASSUME TypeOK, server = "up" => InOrder, DownOK, [Next]_vars
  PROVE  DownOK' /\ (server' = "up" => server = "up")
<1> USE DEF serverVars, handlerVars, clientVars, netVars
<1>0. /\ state \in [Clients -> {"connecting", "running", "crashed"}]
      /\ connections \subseteq Clients
  BY DEF TypeOK
<1>1. ASSUME NEW c \in Clients, Client(c) PROVE UNCHANGED server
  BY <1>1 DEF Client, Send, FirstReply, Apply
<1>2. ASSUME NEW c \in Clients, Client(c), NEW d \in Clients, state[d] = "crashed"
      PROVE  state'[d] = "crashed"
  BY <1>0, <1>2 DEF Client, Send, FirstReply, Apply
<1>3. ASSUME NEW c \in Clients, Join(c) \/ Loop(c) PROVE UNCHANGED <<server, state>>
  BY <1>3 DEF Join, Loop, Register, SendId, SerializeBulk, SendBulk, Receive, PollIdle,
              TryLock, TryLockTimeout, ExecuteUnlock, Broadcast, Disconnect, Remove
<1>4. ASSUME NEW c \in Clients, Die(c)
      PROVE  /\ server' # "up"
             /\ \E d \in Clients \ Started : state'[d] = "crashed"
  <2>1. server = "up" /\ server' = "down" /\ state' = state
    BY <1>4 DEF Die, BrokenPipe
  <2>2. \E d \in Clients : state[d] = "crashed"
    BY <1>0, <1>4 DEF Die, BrokenPipe, Broken
  <2> QED
    BY <2>1, <2>2 DEF InOrder
<1>5. CASE UNCHANGED vars
  BY <1>5 DEF vars, DownOK
<1> QED
  BY <1>1, <1>2, <1>3, <1>4, <1>5 DEF Next, DownOK

-----------------------------------------------------------------------------
(* The server's draw list, when users change what is theirs only.  A draw  *)
(* list is the set of its items, and a package adds some and removes some. *)

LEMMA SameItems ==
  ASSUME NEW m, IsDrawList(m), NEW n, IsDrawList(n), Serialize(m) = Serialize(n)
  PROVE  m = n
BY LoadSerialize

\* Items are told apart by their draw IDs.
LEMMA SerializeKeep ==
  ASSUME NEW m, IsDrawList(m), NEW X, X \subseteq DOMAIN m
  PROVE  Serialize(Keep(m, DOMAIN m \ X)) = Serialize(m) \ {m[i] : i \in X}
<1>1. \A i, j \in DOMAIN m : m[i] = m[j] => i = j
  BY DrawListItem
<1>2. Serialize(Keep(m, DOMAIN m \ X)) = {m[i] : i \in DOMAIN m \ X}
  BY DEF Serialize, Keep
<1> QED
  BY <1>1, <1>2 DEF Serialize

\* What a package does to the items depends on those of its user only.
LEMMA OwnEffect ==
  ASSUME NEW m, IsDrawList(m), NEW bound \in Nat, \A i \in DOMAIN m : i < bound,
         NEW c \in Nat, NEW p \in Command, OwnPackage(c, p),
         IsInsert(p) => p.draw_data.draw_id \notin DOMAIN m
  PROVE  Serialize(Execute(m, p))
           = (Serialize(m) \ Removes(p, OwnItems(m, c))) \union Adds(p)
<1>1. CASE IsInsert(p)
  <2>1. Execute(m, p) = Insert(m, p.draw_data) /\ Removes(p, OwnItems(m, c)) = {}
    BY <1>1 DEF Execute, IsInsert, Removes
  <2>2. Serialize(Insert(m, p.draw_data)) = Serialize(m) \union {p.draw_data}
    BY <1>1 DEF Serialize, Insert
  <2> QED
    BY <1>1, <2>1, <2>2 DEF Adds
<1>2. CASE OfUser(p, c)
  <2> DEFINE own == OwnedBy(m, c)
  <2>1. Erased(p, own) \subseteq own /\ Execute(m, p) = Keep(m, DOMAIN m \ Erased(p, own))
    BY <1>2, ErasesOwn
  <2>2. own \subseteq DOMAIN m /\ \A i \in own : i \in Nat /\ i < bound /\ m[i].draw_id = i
    BY DrawListItem DEF OwnedBy
  <2>3. OwnItems(m, c) = {m[i] : i \in own}
    BY DEF OwnItems, OwnedBy, Serialize
  <2>4. {m[i] : i \in Erased(p, own)} = Removes(p, OwnItems(m, c))
    <3>1. CASE p.message_type = "CLEAR"
      BY <2>3, <3>1 DEF Erased, Removes
    <3>2. CASE p.message_type = "UNDO" /\ own = {}
      BY <2>3, <3>2 DEF Erased, Removes
    <3>3. CASE p.message_type = "UNDO" /\ own # {}
      <4>1. Newest(own) \in own /\ \A j \in own : j <= Newest(own)
        BY <2>2, <3>3, NewestIsHighest
      <4> HIDE DEF own
      <4>2. \A i \in own : (\A j \in own : j <= i) <=> i = Newest(own)
        BY <2>2, <4>1
      <4>3. \A i \in own : (\A y \in OwnItems(m, c) : y.draw_id <= m[i].draw_id)
                             <=> \A j \in own : j <= i
        BY <2>2, <2>3
      <4>4. Removes(p, OwnItems(m, c)) = {m[Newest(own)]}
        BY <2>3, <3>3, <4>1, <4>2, <4>3 DEF Removes
      <4>5. Erased(p, own) = {Newest(own)}
        BY <3>3 DEF Erased
      <4> QED
        BY <4>4, <4>5
    <3> QED
      BY <1>2, <3>1, <3>2, <3>3 DEF OfUser
  <2>5. Adds(p) = {}
    BY <1>2 DEF OfUser, Adds, IsInsert
  <2>6. Serialize(Keep(m, DOMAIN m \ Erased(p, own)))
          = Serialize(m) \ {m[i] : i \in Erased(p, own)}
    BY <2>1, <2>2, SerializeKeep
  <2> QED
    BY <2>1, <2>4, <2>5, <2>6
<1> QED
  BY <1>1, <1>2 DEF OwnPackage, OfUser

\* Users of OwnKinds issue packages about their own items, and a draw ID does
\* not change whose they are.
LEMMA IssuableOwn ==
  ASSUME Kinds \subseteq OwnKinds, NEW c \in Clients, NEW p \in Issuable(c)
  PROVE  OwnPackage(c, p)
<1>1. PICK kind \in OwnKinds : p \in OfKind(kind, c)
  BY DEF Issuable
<1>2. CASE kind = "draw"
  <2>1. PICK d \in Drawable(c) : p = InsertPackage(d)
    BY <1>1, <1>2 DEF OfKind
  <2> QED
    BY <2>1 DEF Drawable, InsertPackage, OwnPackage, IsInsert
<1>3. CASE kind \in {"undo", "clear_mine"}
  <2>1. p = UndoPackage(c) \/ p = ClearPackage(c)
    BY <1>1, <1>3 DEF OfKind
  <2> QED
    BY <2>1 DEF UndoPackage, ClearPackage, OwnPackage
<1> QED
  BY <1>2, <1>3 DEF OwnKinds

LEMMA NumberedOwn ==
  ASSUME NEW c, NEW p \in Command, NEW id \in Nat, OwnPackage(c, p)
  PROVE  OwnPackage(c, Numbered(p, id))
<1>1. CASE IsInsert(p)
  <2>1. p \in [message_type : {"INSERT"}, draw_data : DrawData]
    BY <1>1 DEF IsInsert, Command
  <2>2. Numbered(p, id) = [message_type |-> "INSERT",
                           draw_data |-> [p.draw_data EXCEPT !.draw_id = id]]
    BY <1>1, <2>1 DEF Numbered
  <2>3. [p.draw_data EXCEPT !.draw_id = id].user_id = p.draw_data.user_id
    BY <2>1 DEF DrawData
  <2>4. p.draw_data.user_id \in {c, Everyone}
    BY <1>1 DEF OwnPackage, IsInsert
  <2>5. /\ Numbered(p, id).message_type = "INSERT"
        /\ Numbered(p, id).draw_data = [p.draw_data EXCEPT !.draw_id = id]
    BY <2>2
  <2> QED
    BY <2>3, <2>4, <2>5 DEF OwnPackage, IsInsert
<1>2. CASE ~ IsInsert(p)
  BY <1>2 DEF Numbered
<1> QED
  BY <1>1, <1>2

LEMMA OwnStep ==
  ASSUME TypeOK, LockOK, OwnOnly, Kinds \subseteq OwnKinds, [Next]_vars
  PROVE  OwnOnly'
<1> USE DEF serverVars, handlerVars, clientVars, netVars, Goto
<1>0. /\ toServer \in [Clients -> Seq(Command)] /\ glb_draw_id \in Nat
      /\ messages_buf \in [Clients -> Seq(Command)]
      /\ DOMAIN package = Clients /\ DOMAIN pc = Clients
  BY DEF TypeOK
<1>1. ASSUME \A d \in Clients : \A k \in Slots(d)' :
                \/ OwnPackage(d, Slot(d, k)')
                \/ \E l \in Slots(d) : Slot(d, k)' = Slot(d, l),
             \A d \in Clients : \A k \in DOMAIN toServer'[d] :
                \/ OwnPackage(d, toServer'[d][k])
                \/ \E l \in DOMAIN toServer[d] : toServer'[d][k] = toServer[d][l]
      PROVE  OwnOnly'
  BY <1>1 DEF OwnOnly
<1>2. ASSUME NEW c \in Clients, Quiet(c), toServer' = toServer PROVE OwnOnly'
  <2>1. \A d \in Clients : Slots(d)' = Slots(d)
                           /\ \A k \in Slots(d) : Slot(d, k)' = Slot(d, k)
    BY <1>2, QuietHolds
  <2> QED
    BY <1>1, <1>2, <2>1
<1>3. ASSUME NEW c \in Clients, Send(c) PROVE OwnOnly'
  <2>1. \A d \in Clients : Slots(d)' = Slots(d)
                           /\ \A k \in Slots(d) : Slot(d, k)' = Slot(d, k)
    BY <1>3, QuietHolds DEF Quiet, Client
  <2>2. PICK p \in Issuable(c) : toServer' = [toServer EXCEPT ![c] = Append(@, p)]
    BY <1>3 DEF Send
  <2>3. OwnPackage(c, p) /\ p \in Command
    BY IssuableOwn, IssuableType, 0 \in Nat
  <2>4. ASSUME NEW d \in Clients, NEW k \in DOMAIN toServer'[d]
        PROVE  \/ OwnPackage(d, toServer'[d][k])
               \/ \E l \in DOMAIN toServer[d] : toServer'[d][k] = toServer[d][l]
    BY <1>0, <2>2, <2>3
  <2> QED
    BY <1>1, <2>1, <2>4
<1>4. ASSUME NEW c \in Clients, Receive(c) PROVE OwnOnly'
  <2> DEFINE p == Numbered(Head(toServer[c]), glb_draw_id)
  <2>1. /\ UNCHANGED <<pc, package>> /\ toServer[c] # <<>>
        /\ messages_buf' = [messages_buf EXCEPT ![c] = Append(@, p)]
        /\ toServer' = [toServer EXCEPT ![c] = Tail(@)]
    BY <1>4 DEF Receive
  <2>2. Head(toServer[c]) \in Command /\ OwnPackage(c, Head(toServer[c]))
    BY <1>0, <2>1 DEF OwnOnly
  <2>3. p \in Command /\ OwnPackage(c, p)
    BY <1>0, <2>2, NumberedType, NumberedOwn
  <2> HIDE DEF p
  <2>4. ASSUME NEW d \in Clients, NEW k \in Slots(d)'
        PROVE  \/ OwnPackage(d, Slot(d, k)')
               \/ \E l \in Slots(d) : Slot(d, k)' = Slot(d, l)
    <3> DEFINE n == Len(messages_buf[c]) + 1
    <3>1. CASE d # c \/ k = 0
      <4>1. k \in Slots(d) /\ Slot(d, k)' = Slot(d, k)
        BY <1>0, <2>1, <2>4, <3>1 DEF Slots, Slot
      <4> QED
        BY <4>1
    <3>2. CASE d = c /\ k \in 1..Len(messages_buf[c])
      <4>1. k \in Slots(d) /\ Slot(d, k)' = Slot(d, k)
        BY <1>0, <2>1, <2>3, <2>4, <3>2 DEF Slots, Slot
      <4> QED
        BY <4>1
    <3>3. CASE d = c /\ k = n
      BY <1>0, <2>1, <2>3, <3>3 DEF Slots, Slot
    <3>4. k = 0 \/ d # c \/ k \in 1..n
      BY <1>0, <2>1, <2>3, <2>4 DEF Slots
    <3> QED
      BY <1>0, <3>1, <3>2, <3>3, <3>4
  <2>5. ASSUME NEW d \in Clients, NEW k \in DOMAIN toServer'[d]
        PROVE  \E l \in DOMAIN toServer[d] : toServer'[d][k] = toServer[d][l]
    BY <1>0, <2>1
  <2> QED
    BY <1>1, <2>4, <2>5
<1>5. ASSUME NEW c \in Clients, TryLock(c) PROVE OwnOnly'
  <2>1. /\ toServer' = toServer /\ messages_buf[c] # <<>>
        /\ package' = [package EXCEPT ![c] = Head(messages_buf[c])]
        /\ messages_buf' = [messages_buf EXCEPT ![c] = Tail(@)]
        /\ pc' = [pc EXCEPT ![c] = "execute"]
    BY <1>5 DEF TryLock, LockOK
  <2>2. ASSUME NEW d \in Clients, NEW k \in Slots(d)'
        PROVE  \E l \in Slots(d) : Slot(d, k)' = Slot(d, l)
    <3>1. CASE d = c
      BY <1>5, <2>2, <3>1, TryLockSlots
    <3>2. CASE d # c
      BY <1>5, <2>2, <3>2, TryLockSlots
    <3> QED
      BY <3>1, <3>2
  <2> QED
    BY <1>1, <2>1, <2>2
<1>6. ASSUME NEW c \in Clients, ExecuteUnlock(c) \/ Broadcast(c) PROVE OwnOnly'
  <2>1. /\ toServer' = toServer /\ messages_buf' = messages_buf
        /\ pc[c] \in {"execute", "broadcast"}
        /\ \/ pc' = [pc EXCEPT ![c] = "broadcast"] /\ package' = package
           \/ /\ pc' = [pc EXCEPT ![c] = "poll"]
              /\ package' = [package EXCEPT ![c] = NoPackage]
    BY <1>6 DEF ExecuteUnlock, Broadcast
  <2>2. ASSUME NEW d \in Clients, NEW k \in Slots(d)'
        PROVE  k \in Slots(d) /\ Slot(d, k)' = Slot(d, k)
    BY <1>0, <2>1 DEF Slots, Slot
  <2> QED
    BY <1>1, <2>1, <2>2
<1>7. CASE UNCHANGED vars
  BY <1>7 DEF vars, OwnOnly, Slots, Slot
<1> QED
  <2>1. ASSUME NEW c \in Clients, Quiet(c), ~ Send(c) PROVE toServer' = toServer
    BY <2>1 DEF Quiet, Client, Join, FirstReply, Apply, Register, SendId,
                SerializeBulk, SendBulk, PollIdle, TryLockTimeout, Ends, Disconnect,
                Remove, Die, BrokenPipe
  <2> QED
    BY <1>2, <1>3, <1>4, <1>5, <1>6, <1>7, <2>1 DEF Next, Loop, Quiet, Ends

\* What packages that wait to be broadcast add belongs to their user or to
\* nobody, and what they remove to their user.
LEMMA AheadOwners ==
  ASSUME TypeOK, OwnOnly, NEW c \in Clients
  PROVE  /\ \A x \in Added(c) : x.user_id \in {c, Everyone}
         /\ \A x \in Removed(c) : x.user_id = c /\ x \in Serialize(Board)
<1>1. CASE pc[c] = "broadcast"
  <2>1. OwnPackage(c, package[c])
    BY <1>1 DEF OwnOnly, Slots, Slot
  <2>2. \A x \in Removes(package[c], OwnItems(Board, c)) : x \in OwnItems(Board, c)
    BY DEF Removes
  <2> QED
    BY <1>1, <2>1, <2>2 DEF Added, Adds, Removed, OwnPackage, IsInsert, OwnItems
<1>2. CASE pc[c] # "broadcast"
  BY <1>2 DEF Added, Removed
<1> QED
  BY <1>1, <1>2

\* Steps that neither execute nor broadcast.
LEMMA AheadSame ==
  ASSUME TypeOK, LockOK, OwnOnly, Ahead,
         UNCHANGED vars \/ \E c \in Clients : Quiet(c) \/ Receive(c) \/ TryLock(c)
  PROVE  Ahead'
<1> USE DEF serverVars, handlerVars, clientVars, netVars, Goto
<1>0. DOMAIN pc = Clients /\ DOMAIN package = Clients
  BY DEF TypeOK
<1>1. UNCHANGED <<draw_list, history>>
  BY DEF vars, Quiet, Client, Join, Send, FirstReply, Apply, Register, SendId,
         SerializeBulk, SendBulk, PollIdle, TryLockTimeout, Ends, Disconnect, Remove,
         Die, BrokenPipe, Receive, TryLock
<1>2. ASSUME NEW d \in Clients
      PROVE  /\ pc'[d] = "broadcast" <=> pc[d] = "broadcast"
             /\ pc[d] = "broadcast" => package'[d] = package[d]
  <2>1. CASE UNCHANGED vars
    BY <2>1 DEF vars
  <2>2. ASSUME NEW c \in Clients, Client(c) PROVE UNCHANGED <<pc, package>>
    BY <2>2 DEF Client, Send, FirstReply, Apply
  <2>3. ASSUME NEW c \in Clients, Join(c) \/ PollIdle(c) \/ TryLockTimeout(c)
        PROVE  /\ pc'[d] = "broadcast" <=> pc[d] = "broadcast"
               /\ pc[d] = "broadcast" => package'[d] = package[d]
    BY <1>0, <2>3 DEF Join, Register, SendId, SerializeBulk, SendBulk, PollIdle,
                      TryLockTimeout
  <2>4. ASSUME NEW c \in Clients, Receive(c) \/ TryLock(c)
        PROVE  /\ pc'[d] = "broadcast" <=> pc[d] = "broadcast"
               /\ pc[d] = "broadcast" => package'[d] = package[d]
    BY <1>0, <2>4 DEF Receive, TryLock
  <2>5. ASSUME NEW c \in Clients, Ends(c)
        PROVE  /\ pc'[d] = "broadcast" <=> pc[d] = "broadcast"
               /\ pc[d] = "broadcast" => package'[d] = package[d]
    BY <1>0, <2>5 DEF Ends, Disconnect, Remove, Die, BrokenPipe
  <2> QED
    BY <2>1, <2>2, <2>3, <2>4, <2>5 DEF Quiet
<1>3. Board' = Board
  BY <1>1 DEF Board
<1>4. \A d \in Clients : Added(d)' = Added(d) /\ Removed(d)' = Removed(d)
  BY <1>2, <1>3 DEF Added, Removed
<1>5. /\ {Added(d)' : d \in Clients} = {Added(d) : d \in Clients}
      /\ {Removed(d)' : d \in Clients} = {Removed(d) : d \in Clients}
  BY <1>4
<1>6. Serialize(draw_list)' = Serialize(draw_list) /\ Serialize(Board)' = Serialize(Board)
  BY <1>1, <1>3 DEF Serialize
<1> QED
  BY <1>5, <1>6 DEF Ahead

\* An executed package takes from the server's draw list what its broadcast
\* will take from the board: what its user owns is the same on both.
LEMMA AheadExecute ==
  ASSUME IInv, OwnOnly, Ahead, NEW c \in Clients, ExecuteUnlock(c)
  PROVE  Ahead'
<1> DEFINE p == package[c]
<1> DEFINE others == Clients \ {c}
<1> DEFINE A == UNION {Added(d) : d \in others}
<1> DEFINE R == UNION {Removed(d) : d \in others}
<1> DEFINE G == Removes(p, OwnItems(Board, c))
<1>1. /\ pc[c] = "execute" /\ pc' = [pc EXCEPT ![c] = "broadcast"]
      /\ draw_list' = Execute(draw_list, p) /\ UNCHANGED <<package, history>>
      /\ DOMAIN pc = Clients /\ p \in Command /\ IsDrawList(draw_list)
      /\ glb_draw_id \in Nat /\ \A i \in DOMAIN draw_list : i < glb_draw_id
  BY DEF ExecuteUnlock, Goto, IInv, TypeOK, IdsOK
<1>2. 0 \in Slots(c) /\ Slot(c, 0) = p
  BY <1>1 DEF Slots, Slot
<1>3. OwnPackage(c, p) /\ (IsInsert(p) => p.draw_data.draw_id \notin DOMAIN draw_list)
  BY <1>1, <1>2 DEF OwnOnly, IInv, IdsOK
<1>4. Serialize(draw_list') = (Serialize(draw_list) \ Removes(p, OwnItems(draw_list, c))) \union Adds(p)
  BY <1>1, <1>3, OwnEffect
<1>5. Serialize(draw_list) = (Serialize(Board) \ R) \union A
  <2>1. Added(c) = {} /\ Removed(c) = {}
    BY <1>1 DEF Added, Removed
  <2>2. /\ UNION {Added(d) : d \in Clients} = A
        /\ UNION {Removed(d) : d \in Clients} = R
    BY <2>1
  <2> QED
    BY <2>2 DEF Ahead
<1>6. /\ \A x \in A : x.user_id # c
      /\ \A x \in R : x.user_id # c
  <2>1. \A d \in others : d # c /\ Everyone # c
    BY DEF Everyone
  <2> QED
    BY <2>1, AheadOwners DEF IInv
<1>7. OwnItems(draw_list, c) = OwnItems(Board, c)
  BY <1>5, <1>6 DEF OwnItems
<1>8. \A x \in G : x.user_id = c
  BY DEF Removes, OwnItems
<1>9. Board' = Board /\ Serialize(Board)' = Serialize(Board)
  BY <1>1 DEF Board, Serialize
<1>10. /\ Added(c)' = Adds(p) /\ Removed(c)' = G
       /\ \A d \in others : Added(d)' = Added(d) /\ Removed(d)' = Removed(d)
  BY <1>1, <1>9 DEF Added, Removed
<1>11. /\ UNION {Added(d)' : d \in Clients} = A \union Adds(p)
       /\ UNION {Removed(d)' : d \in Clients} = R \union G
  BY <1>10
<1>12. Serialize(draw_list)' = (((Serialize(Board) \ R) \union A) \ G) \union Adds(p)
  BY <1>4, <1>5, <1>7 DEF Serialize
<1> HIDE DEF A, R, G, p
<1>13. Serialize(draw_list)' = (Serialize(Board) \ (R \union G)) \union (A \union Adds(p))
  BY <1>6, <1>8, <1>12
<1> QED
  BY <1>9, <1>11, <1>13 DEF Ahead

\* A broadcast does to the board what its execution did to the draw list.
LEMMA AheadBroadcast ==
  ASSUME IInv, OwnOnly, Ahead, NEW c \in Clients, Broadcast(c)
  PROVE  Ahead'
<1> DEFINE p == package[c]
<1> DEFINE others == Clients \ {c}
<1> DEFINE A == UNION {Added(d) : d \in others}
<1> DEFINE R == UNION {Removed(d) : d \in others}
<1> DEFINE G == Removes(p, OwnItems(Board, c))
<1>1. /\ pc[c] = "broadcast" /\ pc' = [pc EXCEPT ![c] = "poll"]
      /\ package' = [package EXCEPT ![c] = NoPackage]
      /\ draw_list' = draw_list /\ history' = Append(history, Execute(Board, p))
      /\ DOMAIN pc = Clients /\ DOMAIN package = Clients /\ p \in Command
      /\ glb_draw_id \in Nat
  BY DEF Broadcast, Goto, IInv, TypeOK, serverVars
<1>2. /\ IsSequence(history) /\ Len(history) \in DOMAIN history
      /\ IsDrawList(Board) /\ \A i \in DOMAIN Board : i < glb_draw_id
  BY DEF Board, IInv, TypeOK, IdsOK
<1>3. Board' = Execute(Board, p)
  BY <1>1, <1>2, AppendAny DEF Board
<1>4. OwnPackage(c, p) /\ (IsInsert(p) => p.draw_data.draw_id \notin DOMAIN Board)
  <2>1. 0 \in Slots(c) /\ Slot(c, 0) = p
    BY <1>1 DEF Slots, Slot
  <2> QED
    BY <1>2, <2>1 DEF OwnOnly, IInv, IdsOK, Board
<1>5. Serialize(Board)' = (Serialize(Board) \ G) \union Adds(p)
  <2>1. Serialize(Execute(Board, p)) = (Serialize(Board) \ G) \union Adds(p)
    <3> DEFINE b == Board
    <3>1. c \in Nat /\ p \in Command /\ IsDrawList(b) /\ \A i \in DOMAIN b : i < glb_draw_id
      BY <1>1, <1>2
    <3>2. OwnPackage(c, p) /\ (IsInsert(p) => p.draw_data.draw_id \notin DOMAIN b)
      BY <1>4
    <3> HIDE DEF b, p
    <3>3. Serialize(Execute(b, p)) = (Serialize(b) \ Removes(p, OwnItems(b, c))) \union Adds(p)
      BY <1>1, <3>1, <3>2, OwnEffect
    <3> QED
      BY <3>3 DEF b
  <2> QED
    BY <1>3, <2>1 DEF Serialize
<1>6. /\ \A x \in G : x.user_id = c
      /\ \A x \in Adds(p) : x.user_id \in {c, Everyone}
      /\ \A x \in R : x.user_id \notin {c, Everyone}
  <2>1. \A x \in G : x.user_id = c
    BY DEF Removes, OwnItems
  <2>2. \A x \in Adds(p) : x.user_id \in {c, Everyone}
    BY <1>4 DEF Adds, OwnPackage, IsInsert
  <2>3. \A d \in others : d \notin {c, Everyone}
    BY DEF Everyone
  <2>4. \A x \in R : x.user_id \notin {c, Everyone}
    BY <2>3, AheadOwners DEF IInv
  <2> QED
    BY <2>1, <2>2, <2>4
<1>7. ASSUME NEW d \in others
      PROVE  Added(d)' = Added(d) /\ Removed(d)' = Removed(d)
  <2>1. d # c /\ d # Everyone
    BY DEF Everyone
  <2>2. OwnItems(Board, d)' = OwnItems(Board, d)
    BY <1>5, <1>6, <2>1 DEF OwnItems
  <2> QED
    BY <1>1, <2>1, <2>2 DEF Added, Removed
<1>8. Added(c) = Adds(p) /\ Removed(c) = G /\ Added(c)' = {} /\ Removed(c)' = {}
  BY <1>1 DEF Added, Removed
<1>9. /\ UNION {Added(d) : d \in Clients} = A \union Adds(p)
      /\ UNION {Removed(d) : d \in Clients} = R \union G
      /\ UNION {Added(d)' : d \in Clients} = A
      /\ UNION {Removed(d)' : d \in Clients} = R
  BY <1>7, <1>8
<1> HIDE DEF A, R, G, p
<1>10. Serialize(draw_list) = (Serialize(Board) \ (R \union G)) \union (A \union Adds(p))
  BY <1>9 DEF Ahead
<1>11. Serialize(draw_list)' = Serialize(draw_list)
  BY <1>1 DEF Serialize
<1>12. Serialize(draw_list)' = (Serialize(Board)' \ R) \union A
  BY <1>5, <1>6, <1>10, <1>11
<1> QED
  BY <1>9, <1>12 DEF Ahead

-----------------------------------------------------------------------------
LEMMA NextIInv == IInv /\ [Next]_vars => IInv'
<1> SUFFICES ASSUME IInv, [Next]_vars PROVE IInv'
  OBVIOUS
<1>1. TypeOK /\ LockOK /\ IdsOK /\ (server = "up" => InOrder) /\ DownOK
  BY DEF IInv
<1>2. DownOK' /\ (server' = "up" => server = "up")
  BY <1>1, DownStep
<1>3. server' = "up" => InOrder'
  BY <1>1, <1>2, OrderStep
<1> QED
  BY <1>1, <1>2, <1>3, TypeStep, LockStep, IdsStep DEF IInv

LEMMA Invariance == Spec => []IInv
BY InitIInv, NextIInv, PTL DEF Spec

LEMMA IInvAgrees == IInv => ClientsAgree
<1> SUFFICES ASSUME IInv, server = "up", NEW c \in Started, inbox[c] = <<>>
             PROVE  client_list[c] = Board
  BY DEF ClientsAgree
<1>1. Len(inbox[c]) = 0 /\ Len(history) \in Nat
  BY DEF IInv, TypeOK, IsSequence
<1>2. Behind(c) = Len(history)
  BY <1>1 DEF Behind
<1> QED
  BY <1>2 DEF IInv, InOrder, Board

LEMMA OwnInvariance ==
  ASSUME Kinds \subseteq OwnKinds
  PROVE  Spec => []OwnIInv
<1>1. Init => OwnOnly /\ Ahead
  <2> SUFFICES ASSUME Init PROVE OwnOnly /\ Ahead
    OBVIOUS
  <2>1. OwnOnly
    BY DEF Init, OwnOnly, Slots
  <2>2. /\ Board = NoItems /\ draw_list = NoItems
        /\ \A c \in Clients : Added(c) = {} /\ Removed(c) = {}
    BY DEF Init, Board, Added, Removed
  <2>3. /\ UNION {Added(c) : c \in Clients} = {}
        /\ UNION {Removed(c) : c \in Clients} = {}
    BY <2>2
  <2> QED
    BY <2>1, <2>2, <2>3 DEF Ahead
<1>2. OwnIInv /\ [Next]_vars => OwnIInv'
  <2> SUFFICES ASSUME OwnIInv, [Next]_vars PROVE OwnIInv'
    OBVIOUS
  <2>1. IInv' /\ OwnOnly'
    BY NextIInv, OwnStep DEF OwnIInv, IInv
  <2>2. Ahead'
    BY AheadSame, AheadExecute, AheadBroadcast
       DEF OwnIInv, IInv, Next, Loop, Quiet, Ends
  <2> QED
    BY <2>1, <2>2 DEF OwnIInv
<1> QED
  BY InitIInv, <1>1, <1>2, PTL DEF Spec, OwnIInv

\* Draw lists stay maps from draw IDs to items that carry their key, and every
\* package is of its type where the threads use it.
THEOREM TypeCorrect == Spec => []TypeOK
BY Invariance, PTL DEF IInv

\* An executed INSERT never overwrites an item, and its ID was on no board
\* before (the counter under draw_mutex).
THEOREM FreshIds == Spec => []DrawIdsFresh
<1>1. IInv => DrawIdsFresh
  <2> SUFFICES ASSUME IInv, NEW c \in Clients, pc[c] = "execute", IsInsert(package[c])
               PROVE  LET id == package[c].draw_data.draw_id
                      IN  /\ id \notin DOMAIN draw_list
                          /\ \A k \in DOMAIN history : id \notin DOMAIN history[k]
                          /\ SoleHolder(c, 0)
    BY DEF DrawIdsFresh
  <2>1. 0 \in Slots(c) /\ Slot(c, 0) = package[c]
    BY DEF Slots, Slot
  <2> QED
    BY <2>1 DEF IInv, IdsOK
<1> QED
  BY Invariance, <1>1, PTL

\* Clients that have executed all they were sent show one and the same board
\* (one critical section for all sends of a broadcast).
THEOREM Agreement == Spec => []ClientsAgree
BY Invariance, IInvAgrees, PTL

\* As long as users draw, undo and clear only what is theirs, the list that
\* new clients load is the board the others show, however executions and
\* broadcasts of different handlers come between each other
\* (Execute_And_Broadcast.cpp:60-64).  With edits or removals of other users'
\* items it is not.
THEOREM ServerMatches ==
  ASSUME Kinds \subseteq OwnKinds
  PROVE  Spec => []ServerMatchesClients
<1>1. OwnIInv => ServerMatchesClients
  <2> SUFFICES ASSUME OwnIInv, server = "up", \A c \in Clients : pc[c] # "broadcast",
                      NEW c \in Started, inbox[c] = <<>>
               PROVE  client_list[c] = draw_list
    BY DEF ServerMatchesClients
  <2>1. \A d \in Clients : Added(d) = {} /\ Removed(d) = {}
    BY DEF Added, Removed
  <2>2. /\ UNION {Added(d) : d \in Clients} = {}
        /\ UNION {Removed(d) : d \in Clients} = {}
    BY <2>1
  <2>3. Serialize(draw_list) = Serialize(Board)
    BY <2>2 DEF OwnIInv, Ahead
  <2>4. IsDrawList(draw_list) /\ IsDrawList(Board)
    BY DEF OwnIInv, IInv, TypeOK, Board
  <2>5. client_list[c] = Board
    BY IInvAgrees DEF OwnIInv, ClientsAgree
  <2> QED
    BY <2>3, <2>4, <2>5, SameItems
<1> QED
  BY OwnInvariance, <1>1, PTL
-----------------------------------------------------------------------------
(* The relay implements the whiteboard.  First, draw IDs do not run out:   *)
(* no more are given out than commands are issued.                         *)

Way(f) == UNION {{c} \X DOMAIN f[c] : c \in Clients}

\* A package put on its way or, read backwards, taken from it.
LEMMA WayGrows ==
  ASSUME NEW f, NEW g, NEW c \in Clients, NEW k, k \notin DOMAIN f[c],
         DOMAIN g[c] = DOMAIN f[c] \union {k},
         \A d \in Clients \ {c} : DOMAIN g[d] = DOMAIN f[d]
  PROVE  /\ <<c, k>> \notin Way(f) /\ Way(g) = Way(f) \union {<<c, k>>}
         /\ IsFiniteSet(Way(f)) <=> IsFiniteSet(Way(g))
         /\ IsFiniteSet(Way(f)) => /\ Cardinality(Way(f)) \in Nat
                                   /\ Cardinality(Way(g)) = Cardinality(Way(f)) + 1
<1> DEFINE old(d) == {d} \X DOMAIN f[d]
<1> DEFINE new(d) == {d} \X DOMAIN g[d]
<1>1. \A d \in Clients \ {c} : new(d) = old(d)
  OBVIOUS
<1>2. new(c) = old(c) \union {<<c, k>>}
  OBVIOUS
<1>3. \A d \in Clients : <<c, k>> \notin old(d)
  OBVIOUS
<1>4. Way(f) = UNION {old(d) : d \in Clients} /\ Way(g) = UNION {new(d) : d \in Clients}
  BY DEF Way
<1> HIDE DEF old, new
<1>5. <<c, k>> \notin Way(f) /\ Way(g) = Way(f) \union {<<c, k>>}
  <2>1. ASSUME NEW x
        PROVE  x \in Way(g) <=> x \in Way(f) \union {<<c, k>>}
    <3>1. x \in new(c) <=> x \in old(c) \/ x = <<c, k>>
      BY <1>2
    <3> QED
      BY <1>1, <1>4, <3>1
  <2> QED
    BY <1>3, <1>4, <2>1
<1>6. ASSUME IsFiniteSet(Way(f))
      PROVE  /\ Cardinality(Way(f)) \in Nat /\ IsFiniteSet(Way(g))
             /\ Cardinality(Way(g)) = Cardinality(Way(f)) + 1
  BY <1>5, <1>6, FS_AddElement, FS_CardinalityType
<1>7. IsFiniteSet(Way(g)) => IsFiniteSet(Way(f))
  BY <1>5, FS_Subset
<1> QED
  BY <1>5, <1>6, <1>7

LEMMA CountStep == TypeOK /\ CountOK /\ [Next]_vars => CountOK'
<1> SUFFICES ASSUME TypeOK, CountOK, [Next]_vars PROVE CountOK'
  OBVIOUS
<1> USE DEF serverVars, handlerVars, clientVars, netVars, Goto
<1>1. /\ OnTheWay = Way(toServer) /\ OnTheWay' = Way(toServer')
      /\ glb_draw_id \in Nat /\ issued \in Nat
      /\ toServer \in [Clients -> Seq(Command)]
      /\ \A c \in Clients : toServer[c] \in Seq(Command)
  BY DEF OnTheWay, Way, TypeOK
<1>2. CASE UNCHANGED <<toServer, glb_draw_id, issued>>
  BY <1>2 DEF CountOK, OnTheWay
<1>3. ASSUME NEW c \in Clients, Send(c) PROVE CountOK'
  <2>1. PICK p \in Issuable(c) : toServer' = [toServer EXCEPT ![c] = Append(@, p)]
    BY <1>3 DEF Send
  <2>2. p \in Command
    BY IssuableType, 0 \in Nat
  <2> DEFINE n == Len(toServer[c]) + 1
  <2>3. /\ DOMAIN toServer[c] = 1..(n - 1) /\ DOMAIN toServer'[c] = 1..n /\ n \in Nat /\ n > 0
        /\ \A d \in Clients \ {c} : DOMAIN toServer'[d] = DOMAIN toServer[d]
    BY <1>1, <2>1, <2>2
  <2> HIDE DEF n
  <2>4. n \notin DOMAIN toServer[c] /\ DOMAIN toServer'[c] = DOMAIN toServer[c] \union {n}
    BY <2>3
  <2>5. /\ IsFiniteSet(OnTheWay') /\ Cardinality(OnTheWay) \in Nat
        /\ Cardinality(OnTheWay') = Cardinality(OnTheWay) + 1
    BY <1>1, <2>3, <2>4, WayGrows DEF CountOK
  <2> QED
    BY <1>1, <1>3, <2>5 DEF CountOK, Send
<1>4. ASSUME NEW c \in Clients, Receive(c) PROVE CountOK'
  <2> DEFINE n == Len(toServer[c])
  <2>1. toServer[c] # <<>> /\ toServer' = [toServer EXCEPT ![c] = Tail(@)]
    BY <1>4 DEF Receive
  <2>2. /\ DOMAIN toServer[c] = 1..n /\ DOMAIN toServer'[c] = 1..(n - 1) /\ n \in Nat /\ n > 0
        /\ \A d \in Clients \ {c} : DOMAIN toServer'[d] = DOMAIN toServer[d]
    BY <1>1, <2>1
  <2> HIDE DEF n
  <2>3. n \notin DOMAIN toServer'[c] /\ DOMAIN toServer[c] = DOMAIN toServer'[c] \union {n}
    BY <2>2
  <2>4. /\ IsFiniteSet(OnTheWay') /\ Cardinality(OnTheWay') \in Nat
        /\ Cardinality(OnTheWay) = Cardinality(OnTheWay') + 1
    BY <1>1, <2>2, <2>3, WayGrows DEF CountOK
  <2>5. glb_draw_id' \in {glb_draw_id, glb_draw_id + 1} /\ issued' = issued
    BY <1>4 DEF Receive
  <2> QED
    BY <1>1, <2>4, <2>5 DEF CountOK
<1>5. ASSUME NEW c \in Clients, FirstReply(c) \/ Apply(c) PROVE CountOK'
  BY <1>2, <1>5 DEF FirstReply, Apply
<1>6. ASSUME NEW c \in Clients, Join(c) PROVE CountOK'
  BY <1>2, <1>6 DEF Join, Register, SendId, SerializeBulk, SendBulk
<1>7. ASSUME NEW c \in Clients,
             PollIdle(c) \/ TryLock(c) \/ TryLockTimeout(c) \/ ExecuteUnlock(c) \/ Broadcast(c)
      PROVE  CountOK'
  BY <1>2, <1>7 DEF PollIdle, TryLock, TryLockTimeout, ExecuteUnlock, Broadcast
<1>8. ASSUME NEW c \in Clients, Ends(c) PROVE CountOK'
  BY <1>2, <1>8 DEF Ends, Disconnect, Remove, Die, BrokenPipe
<1> QED
  BY <1>2, <1>3, <1>4, <1>5, <1>6, <1>7, <1>8 DEF Next, Client, Loop, Ends, vars

LEMMA CountInvariance == Spec => []CountOK
<1>1. Init => CountOK
  <2> SUFFICES ASSUME Init PROVE CountOK
    OBVIOUS
  <2>1. \A c \in Clients : DOMAIN toServer[c] = {}
    BY DEF Init
  <2>2. OnTheWay = {}
    BY <2>1 DEF OnTheWay
  <2> QED
    BY <2>2, FS_EmptySet DEF Init, CountOK
<1>2. IInv /\ CountOK /\ [Next]_vars => CountOK'
  BY CountStep DEF IInv
<1> QED
  BY <1>1, <1>2, Invariance, PTL DEF Spec

\* An INSERT on its way to the board has one of the whiteboard's draw IDs.
LEMMA IdsSuffice ==
  ASSUME TypeOK, IdsOK, CountOK, NEW c \in Clients, NEW k \in Slots(c),
         IsInsert(Slot(c, k))
  PROVE  Slot(c, k).draw_data.draw_id \in 0..MaxCommands
<1>1. Slot(c, k).draw_data.draw_id \in Nat /\ Slot(c, k).draw_data.draw_id < glb_draw_id
  BY SlotType DEF IdsOK
<1>2. glb_draw_id \in Nat /\ issued \in 0..MaxCommands /\ glb_draw_id <= issued
  BY FS_CardinalityType DEF TypeOK, CountOK
<1> QED
  BY <1>1, <1>2
-----------------------------------------------------------------------------
(* Now the commands that wait.  A handler and its connection hold them in  *)
(* three parts; what moves from one to the next leaves the queue as it is, *)
(* but for the draw ID that an INSERT is given on the way.                 *)

Hand(c)  == IF pc[c] \in {"execute", "broadcast"} THEN <<package[c]>> ELSE <<>>
Queue(c) == Hand(c) \o messages_buf[c] \o toServer[c]
Plain(s) == [k \in DOMAIN s |-> Unnumbered(s[k])]

LEMMA UnnumberedType ==
  ASSUME NEW p \in Command, NEW id \in Nat
  PROVE  /\ Unnumbered(p) \in Command
         /\ Unnumbered(Numbered(p, id)) = Unnumbered(p)
         /\ IsInsert(Unnumbered(p)) <=> IsInsert(p)
         /\ IsInsert(p) => Numbered(Unnumbered(p), p.draw_data.draw_id) = p
         /\ ~ IsInsert(p) => Numbered(Unnumbered(p), id) = p
<1>1. CASE IsInsert(p)
  <2>1. /\ p = [message_type |-> "INSERT", draw_data |-> p.draw_data]
        /\ p.draw_data \in DrawData
    BY <1>1 DEF IsInsert, Command
  <2> DEFINE d == p.draw_data
  <2>2. /\ [d EXCEPT !.draw_id = d.draw_id] = d
        /\ [[d EXCEPT !.draw_id = id] EXCEPT !.draw_id = 0] = [d EXCEPT !.draw_id = 0]
        /\ [[d EXCEPT !.draw_id = 0] EXCEPT !.draw_id = d.draw_id] = d
        /\ [d EXCEPT !.draw_id = 0] \in DrawData
    BY <2>1 DEF DrawData
  <2> DEFINE of(x) == [message_type |-> "INSERT", draw_data |-> x]
  <2>3. \A x, i : IsInsert(of(x)) /\ Numbered(of(x), i) = of([x EXCEPT !.draw_id = i])
    BY DEF IsInsert, Numbered
  <2>4. p = of(d) /\ IsInsert(p)
    BY <1>1, <2>1
  <2>5. of([d EXCEPT !.draw_id = 0]) \in Command
    BY <2>2 DEF Command
  <2> DEFINE plain == [d EXCEPT !.draw_id = 0]
  <2> HIDE DEF of, d, plain
  <2>6. Unnumbered(p) = of(plain)
    BY <2>3, <2>4 DEF Unnumbered, plain
  <2>7. Unnumbered(Numbered(p, id)) = of(plain)
    <3> DEFINE numbered == [d EXCEPT !.draw_id = id]
    <3>1. [numbered EXCEPT !.draw_id = 0] = plain
      BY <2>2 DEF plain, d
    <3> HIDE DEF numbered
    <3>2. Numbered(p, id) = of(numbered) /\ IsInsert(of(numbered))
      BY <2>3, <2>4 DEF numbered
    <3>3. Numbered(of(numbered), 0) = of(plain)
      BY <2>3, <3>1
    <3> QED
      BY <3>2, <3>3 DEF Unnumbered
  <2>8. Numbered(of(plain), d.draw_id) = p
    BY <2>2, <2>3, <2>4 DEF d, plain
  <2>9. IsInsert(of(plain)) /\ of(plain) \in Command
    BY <2>3, <2>5 DEF d, plain
  <2> QED
    BY <2>4, <2>6, <2>7, <2>8, <2>9 DEF d
<1>2. CASE ~ IsInsert(p)
  BY <1>2 DEF Unnumbered, Numbered
<1> QED
  BY <1>1, <1>2

\* What a client issues has no draw ID yet.
LEMMA UnnumberedIssuable ==
  ASSUME NEW u \in Nat, NEW p \in Issuable(u)
  PROVE  Unnumbered(p) = p
<1>1. CASE IsInsert(p)
  <2>1. PICK kind \in AllKinds : p \in OfKind(kind, u)
    BY KindsAssumption DEF Issuable
  <2>2. kind = "draw"
    BY <1>1, <2>1 DEF OfKind, IsInsert, EditPackage, RemovePackage, UndoPackage,
                      ClearPackage, AllKinds
  <2>3. PICK d \in Drawable(u) : p = InsertPackage(d)
    BY <2>1, <2>2 DEF OfKind
  <2>4. [d EXCEPT !.draw_id = 0] = d
    BY DEF Drawable
  <2> QED
    BY <1>1, <2>3, <2>4 DEF Unnumbered, Numbered, InsertPackage
<1>2. CASE ~ IsInsert(p)
  BY <1>2 DEF Unnumbered
<1> QED
  BY <1>1, <1>2

LEMMA PlainType ==
  ASSUME NEW s \in Seq(Command)
  PROVE  /\ Plain(s) \in Seq(Command) /\ Len(Plain(s)) = Len(s)
         /\ \A k \in 1..Len(s) : Plain(s)[k] = Unnumbered(s[k])
<1>1. DOMAIN s = 1..Len(s) /\ Len(s) \in Nat /\ \A k \in 1..Len(s) : s[k] \in Command
  OBVIOUS
<1>2. \A k \in 1..Len(s) : Unnumbered(s[k]) \in Command
  BY <1>1, UnnumberedType, 0 \in Nat
<1> QED
  BY <1>1, <1>2 DEF Plain

LEMMA PlainEqual ==
  ASSUME NEW s \in Seq(Command), NEW t \in Seq(Command), Len(s) = Len(t),
         \A k \in 1..Len(s) : Unnumbered(s[k]) = Unnumbered(t[k])
  PROVE  Plain(s) = Plain(t)
<1>1. DOMAIN s = 1..Len(s) /\ DOMAIN t = 1..Len(s)
  OBVIOUS
<1> QED
  BY <1>1 DEF Plain

LEMMA PlainAppend ==
  ASSUME NEW s \in Seq(Command), NEW p \in Command
  PROVE  Plain(Append(s, p)) = Append(Plain(s), Unnumbered(p))
<1> DEFINE a == Append(s, p)
<1>1. /\ a \in Seq(Command) /\ Len(a) = Len(s) + 1 /\ Len(s) \in Nat
      /\ a[Len(s) + 1] = p /\ \A k \in 1..Len(s) : a[k] = s[k]
  OBVIOUS
<1> HIDE DEF a
<1>2. /\ Plain(a) \in Seq(Command) /\ Len(Plain(a)) = Len(a)
      /\ \A k \in 1..Len(a) : Plain(a)[k] = Unnumbered(a[k])
  BY <1>1, PlainType
<1>3. /\ Plain(s) \in Seq(Command) /\ Len(Plain(s)) = Len(s)
      /\ \A k \in 1..Len(s) : Plain(s)[k] = Unnumbered(s[k])
  BY PlainType
<1>4. Unnumbered(p) \in Command
  BY UnnumberedType, 0 \in Nat
<1> DEFINE b == Append(Plain(s), Unnumbered(p))
<1>5. /\ b \in Seq(Command) /\ Len(b) = Len(s) + 1
      /\ b[Len(s) + 1] = Unnumbered(p)
      /\ \A k \in 1..Len(s) : b[k] = Plain(s)[k]
  BY <1>3, <1>4
<1> HIDE DEF b
<1>6. \A k \in 1..Len(Plain(a)) : Plain(a)[k] = b[k]
  BY <1>1, <1>2, <1>3, <1>5
<1>7. Plain(a) = b
  BY <1>1, <1>2, <1>5, <1>6, SeqEqual
<1> QED
  BY <1>7 DEF a, b

LEMMA PlainPush ==
  ASSUME NEW s \in Seq(Command), NEW p \in Command
  PROVE  LET t == Plain(<<p>> \o s)
         IN  t # <<>> /\ Head(t) = Unnumbered(p) /\ Tail(t) = Plain(s)
<1> DEFINE q == <<p>> \o s
<1>1. /\ q \in Seq(Command) /\ Len(q) = Len(s) + 1 /\ q[1] = p
      /\ \A k \in 1..Len(s) : q[k + 1] = s[k]
  BY ConcatProperties
<1> HIDE DEF q
<1>2. /\ Plain(q) \in Seq(Command) /\ Len(Plain(q)) = Len(s) + 1 /\ Len(s) \in Nat
      /\ Plain(q)[1] = Unnumbered(p)
      /\ \A k \in 1..Len(s) : Plain(q)[k + 1] = Unnumbered(s[k])
  <2>1. /\ Plain(q) \in Seq(Command) /\ Len(Plain(q)) = Len(q)
        /\ \A k \in 1..Len(q) : Plain(q)[k] = Unnumbered(q[k])
    BY <1>1, PlainType
  <2>2. Len(s) \in Nat
    OBVIOUS
  <2> QED
    BY <1>1, <2>1, <2>2
<1>3. /\ Plain(q) # <<>> /\ Head(Plain(q)) = Unnumbered(p)
      /\ Tail(Plain(q)) \in Seq(Command) /\ Len(Tail(Plain(q))) = Len(s)
      /\ \A k \in 1..Len(s) : Tail(Plain(q))[k] = Unnumbered(s[k])
  BY <1>2, HeadTailProperties
<1>4. /\ Plain(s) \in Seq(Command) /\ Len(Plain(s)) = Len(s)
      /\ \A k \in 1..Len(s) : Plain(s)[k] = Unnumbered(s[k])
  BY PlainType
<1>5. Tail(Plain(q)) = Plain(s)
  <2>1. Len(Tail(Plain(q))) = Len(Plain(s))
    BY <1>3, <1>4
  <2>2. \A k \in 1..Len(Plain(s)) : Tail(Plain(q))[k] = Plain(s)[k]
    BY <1>3, <1>4
  <2> QED
    BY <1>3, <1>4, <2>1, <2>2, SeqEqual
<1> QED
  BY <1>3, <1>5 DEF q

\* What moves between two parts of a queue.
LEMMA QueueParts ==
  ASSUME NEW p \in Command, NEW m \in Seq(Command), NEW s \in Seq(Command)
  PROVE  /\ m \o s \in Seq(Command) /\ <<>> \o m \o s = m \o s
         /\ <<p>> \o m \o s = <<p>> \o (m \o s)
<1>1. <<p>> \in Seq(Command)
  OBVIOUS
<1> QED
  BY <1>1, ConcatEmptySeq, ConcatAssociative

LEMMA MoveHead ==
  ASSUME NEW m \in Seq(Command), m # <<>>
  PROVE  <<Head(m)>> \o Tail(m) = m
<1>1. <<Head(m)>> \in Seq(Command) /\ Tail(m) \in Seq(Command) /\ Len(Tail(m)) = Len(m) - 1
  BY HeadTailProperties
<1>2. <<Head(m)>> \o Tail(m) \in Seq(Command) /\ Len(<<Head(m)>> \o Tail(m)) = Len(m)
  BY <1>1, EmptySeq
<1>3. \A i \in 1..Len(<<Head(m)>> \o Tail(m)) : (<<Head(m)>> \o Tail(m))[i] = m[i]
  BY <1>1, <1>2, HeadTailProperties
<1> QED
  BY <1>2, <1>3, SeqEqual

LEMMA ConcatAt ==
  ASSUME NEW u \in Seq(Command), NEW v \in Seq(Command)
  PROVE  /\ u \o v \in Seq(Command) /\ Len(u \o v) = Len(u) + Len(v)
         /\ \A k \in 1..(Len(u) + Len(v)) :
               (u \o v)[k] = IF k <= Len(u) THEN u[k] ELSE v[k - Len(u)]
BY ConcatProperties

LEMMA MoveNumbered ==
  ASSUME NEW m \in Seq(Command), NEW s \in Seq(Command), s # <<>>,
         NEW q \in Command, Unnumbered(q) = Unnumbered(Head(s))
  PROVE  Plain(Append(m, q) \o Tail(s)) = Plain(m \o s)
<1> DEFINE a == Append(m, q)
<1> DEFINE t == Tail(s)
<1>1. /\ t \in Seq(Command) /\ Len(t) \in Nat /\ Len(s) = Len(t) + 1 /\ s[1] = Head(s)
      /\ \A j \in 1..Len(t) : t[j] = s[j + 1]
  BY HeadTailProperties
<1>2. /\ a \in Seq(Command) /\ Len(m) \in Nat /\ Len(a) = Len(m) + 1
      /\ a[Len(m) + 1] = q /\ \A j \in 1..Len(m) : a[j] = m[j]
  OBVIOUS
<1> DEFINE old == m \o s
<1> DEFINE new == a \o t
<1> HIDE DEF a, t
<1>3. /\ old \in Seq(Command) /\ Len(old) = Len(m) + Len(s)
      /\ \A k \in 1..(Len(m) + Len(s)) :
            old[k] = IF k <= Len(m) THEN m[k] ELSE s[k - Len(m)]
  BY ConcatAt
<1>4. /\ new \in Seq(Command) /\ Len(new) = Len(a) + Len(t)
      /\ \A k \in 1..(Len(a) + Len(t)) :
            new[k] = IF k <= Len(a) THEN a[k] ELSE t[k - Len(a)]
  BY <1>1, <1>2, ConcatAt
<1> HIDE DEF old, new
<1>5. ASSUME NEW k \in 1..Len(new) PROVE Unnumbered(new[k]) = Unnumbered(old[k])
  <2>1. CASE k <= Len(m)
    <3>1. k \in 1..Len(m) /\ k \in 1..(Len(m) + Len(s)) /\ k \in 1..(Len(a) + Len(t))
      BY <1>1, <1>2, <1>4, <2>1
    <3>2. new[k] = a[k] /\ old[k] = m[k]
      BY <1>2, <1>3, <1>4, <2>1, <3>1
    <3> QED
      BY <1>2, <3>1, <3>2
  <2>2. CASE k = Len(m) + 1
    <3>1. new[k] = q /\ old[k] = s[1]
      BY <1>1, <1>2, <1>3, <1>4, <2>2
    <3> QED
      BY <1>1, <3>1
  <2>3. CASE k > Len(m) + 1
    <3> DEFINE j == k - (Len(m) + 1)
    <3>1. j \in 1..Len(t) /\ k - Len(m) = j + 1
      BY <1>1, <1>2, <1>4, <2>3
    <3>2. s[k - Len(m)] = t[k - (Len(m) + 1)]
      BY <1>1, <3>1
    <3> QED
      BY <1>1, <1>2, <1>3, <1>4, <2>3, <3>2
  <2> QED
    BY <1>1, <1>2, <1>4, <2>1, <2>2, <2>3
<1>6. Len(new) = Len(old)
  BY <1>1, <1>2, <1>3, <1>4
<1>7. Plain(new) = Plain(old)
  BY <1>3, <1>4, <1>5, <1>6, PlainEqual
<1> QED
  BY <1>7 DEF new, old, a, t

LEMMA PendingIsPlain ==
  /\ \A c : Pending(c) = Plain(Queue(c))
  /\ \A c : Pending(c)' = Plain(Queue(c)')
BY DEF Pending, Plain, Queue, Held, Hand

LEMMA PartTypes ==
  ASSUME TypeOK, NEW c \in Clients
  PROVE  /\ Hand(c) \in Seq(Command) /\ messages_buf[c] \in Seq(Command)
         /\ toServer[c] \in Seq(Command) /\ Queue(c) \in Seq(Command)
<1>1. /\ Hand(c) \in Seq(Command) /\ messages_buf[c] \in Seq(Command)
      /\ toServer[c] \in Seq(Command)
  BY DEF TypeOK, Hand
<1> QED
  BY <1>1 DEF Queue

\* Whiteboard executes packages, and lets clients issue them, as the relay does.
LEMMA SameNumbered ==
  ASSUME NEW p, NEW id
  PROVE  WB!Numbered(p, id) = Numbered(p, id)
BY DEF WB!Numbered, Numbered, WB!IsInsert, IsInsert

LEMMA SameExecute ==
  ASSUME NEW m, NEW p
  PROVE  WB!Execute(m, p) = Execute(m, p)
<1>1. \A d : WB!Insert(m, d) = Insert(m, d)
  BY DEF WB!Insert, Insert
<1>2. \A i, d : WB!Edit(m, i, d) = Edit(m, i, d)
  BY DEF WB!Edit, Edit
<1>3. \A i : WB!Erase(m, i) = Erase(m, i)
  BY DEF WB!Erase, Erase, WB!Keep, Keep
<1>4. \A u : WB!OwnedBy(m, u) = OwnedBy(m, u)
  BY DEF WB!OwnedBy, OwnedBy
<1>5. \A u : WB!Clear(m, u) = Clear(m, u)
  BY <1>4 DEF WB!Clear, Clear, WB!Keep, Keep, WB!NoItems, NoItems,
              WB!Everyone, Everyone
<1>6. \A u : WB!Undo(m, u) = Undo(m, u)
  <2>1. \A ids : WB!Newest(ids) = Newest(ids)
    BY DEF WB!Newest, Newest
  <2> QED
    BY <1>3, <1>4, <2>1 DEF WB!Undo, Undo
<1>7. \A b : WB!Load(b) = Load(b)
  BY DEF WB!Load, Load
<1> QED
  BY <1>1, <1>2, <1>3, <1>5, <1>6, <1>7 DEF WB!Execute, Execute

LEMMA SameIssuable ==
  ASSUME NEW u
  PROVE  WB!Issuable(u) = Issuable(u)
<1>1. WB!Drawable(u) = Drawable(u)
  BY DEF WB!Drawable, Drawable, WB!NoShape, NoShape, WB!Everyone, Everyone
<1>2. \A kind : WB!OfKind(kind, u) = OfKind(kind, u)
  BY <1>1 DEF WB!OfKind, OfKind, WB!InsertPackage, InsertPackage, WB!EditPackage,
     EditPackage, WB!RemovePackage, RemovePackage, WB!UndoPackage, UndoPackage,
     WB!ClearPackage, ClearPackage, WB!Everyone, Everyone
<1> QED
  BY <1>2 DEF WB!Issuable, Issuable

\* Step by step.  Issuing a command adds it to the client's queue.
LEMMA SendIssues ==
  ASSUME TypeOK, NEW c \in Clients, Send(c)
  PROVE  WB!Issue(c)
<1> USE DEF serverVars, handlerVars
<1>1. PICK p \in Issuable(c) : toServer' = [toServer EXCEPT ![c] = Append(@, p)]
  BY DEF Send
<1>2. p \in Command /\ Unnumbered(p) = p
  BY IssuableType, UnnumberedIssuable, 0 \in Nat
<1>3. /\ UNCHANGED <<pc, package, messages_buf, history, inbox, client_list>>
      /\ toServer \in [Clients -> Seq(Command)]
  BY DEF Send, TypeOK
<1>4. \A d \in Clients \ {c} : Queue(d)' = Queue(d)
  BY <1>1, <1>3 DEF Queue, Hand
<1>5. Queue(c)' = Append(Queue(c), p)
  <2> DEFINE front == Hand(c) \o messages_buf[c]
  <2>1. front \in Seq(Command) /\ toServer[c] \in Seq(Command)
    BY PartTypes
  <2>2. Queue(c) = front \o toServer[c] /\ Queue(c)' = front \o Append(toServer[c], p)
    BY <1>1, <1>3 DEF Queue, Hand
  <2> HIDE DEF front
  <2>3. /\ front \o Append(toServer[c], p) \in Seq(Command)
        /\ Append(front \o toServer[c], p) \in Seq(Command)
        /\ Len(front \o Append(toServer[c], p)) = Len(Append(front \o toServer[c], p))
    BY <1>2, <2>1
  <2>4. \A i \in 1..Len(front \o Append(toServer[c], p)) :
           (front \o Append(toServer[c], p))[i] = Append(front \o toServer[c], p)[i]
    BY <1>2, <2>1
  <2> QED
    BY <2>2, <2>3, <2>4, SeqEqual
<1>6. /\ Pending(c)' = Append(Pending(c), p)
      /\ \A d \in Clients \ {c} : Pending(d)' = Pending(d)
  BY <1>2, <1>4, <1>5, PartTypes, PlainAppend, PendingIsPlain
<1>7. [d \in Clients |-> Pending(d)]' =
        [[d \in Clients |-> Pending(d)] EXCEPT ![c] = Append(@, p)]
  BY <1>6
<1>8. p \in WB!Issuable(c)
  BY SameIssuable
<1> QED
  BY <1>3, <1>7, <1>8 DEF WB!Issue

\* A client's display moves on with what it executes.
LEMMA ApplyShows ==
  ASSUME TypeOK, InOrder, Started = Clients, NEW c \in Clients, Apply(c)
  PROVE  WB!Show(c)
<1> USE DEF serverVars, handlerVars
<1>1. /\ inbox[c] # <<>> /\ inbox' = [inbox EXCEPT ![c] = Tail(@)]
      /\ client_list' = [client_list EXCEPT ![c] = Execute(@, Head(inbox[c]))]
      /\ UNCHANGED <<pc, package, messages_buf, toServer, history>>
  BY DEF Apply
<1>2. /\ inbox \in [Clients -> Seq(Message)] /\ inbox[c] \in Seq(Message)
      /\ Len(history) \in Nat /\ DOMAIN client_list = Clients
  BY DEF TypeOK, IsSequence
<1>3. /\ Len(inbox[c]) \in Nat /\ Len(inbox[c]) >= 1 /\ Head(inbox[c]) = inbox[c][1]
      /\ Len(inbox'[c]) = Len(inbox[c]) - 1
  BY <1>1, <1>2
<1>4. /\ client_list[c] = history[Behind(c)]
      /\ history[Behind(c) + 1] = Execute(history[Behind(c) + 1 - 1], inbox[c][1])
      /\ Behind(c) \in Int /\ Behind(c) < Len(history)
  BY <1>2, <1>3 DEF InOrder, Behind
<1>5. client_list'[c] = history[Behind(c) + 1]
  BY <1>1, <1>2, <1>3, <1>4
<1>6. \A d \in Clients : Pending(d)' = Pending(d)
  BY <1>1, PendingIsPlain DEF Queue, Hand
<1>7. /\ Behind(c)' = Behind(c) + 1
      /\ \A d \in Clients \ {c} : Behind(d)' = Behind(d)
  BY <1>1, <1>2, <1>3 DEF Behind
<1>8. [d \in Clients |-> Behind(d)]' = [[d \in Clients |-> Behind(d)] EXCEPT ![c] = @ + 1]
  BY <1>7
<1>9. [d \in Clients |-> Pending(d)]' = [d \in Clients |-> Pending(d)]
  BY <1>6
<1>10. client_list' = [client_list EXCEPT ![c] = history[[d \in Clients |-> Behind(d)][c] + 1]]
  BY <1>1, <1>2, <1>5
<1>11. [d \in Clients |-> Behind(d)][c] < Len(history)
  BY <1>4
<1> QED
  BY <1>1, <1>8, <1>9, <1>10, <1>11 DEF WB!Show, Behind

\* Broadcasting takes the first command off the handler's queue, puts its
\* effect on the board, and leaves every display where it was.
LEMMA BroadcastPublishes ==
  ASSUME TypeOK, IdsOK, InOrder, CountOK, Started = Clients,
         NEW c \in Clients, Broadcast(c)
  PROVE  WB!Publish(c)
<1> USE DEF serverVars, clientVars, Goto
<1> DEFINE p == package[c]
<1> DEFINE b == [d \in Clients |-> Pending(d)]
<1>1. /\ pc[c] = "broadcast" /\ p \in Command /\ pc \in [Clients -> Labels]
      /\ pc' = [pc EXCEPT ![c] = "poll"]
      /\ package' = [package EXCEPT ![c] = NoPackage] /\ DOMAIN package = Clients
      /\ UNCHANGED <<messages_buf, toServer, client_list>>
      /\ history' = Append(history, Execute(Board, p))
  BY DEF Broadcast, TypeOK
<1>2. Hand(c) = <<p>> /\ Hand(c)' = <<>>
  BY <1>1 DEF Hand
<1>3. \A d \in Clients \ {c} : Queue(d)' = Queue(d)
  BY <1>1 DEF Queue, Hand
<1>4. Queue(c)' \in Seq(Command) /\ Queue(c) = <<p>> \o Queue(c)'
  <2> DEFINE m == messages_buf[c]
  <2> DEFINE t == toServer[c]
  <2>1. m \in Seq(Command) /\ t \in Seq(Command)
    BY PartTypes
  <2>2. Queue(c) = <<p>> \o m \o t /\ Queue(c)' = <<>> \o m \o t
    BY <1>1, <1>2 DEF Queue
  <2> HIDE DEF p, m, t
  <2>3. p \in Command
    BY <1>1 DEF p
  <2> QED
    BY <2>1, <2>2, <2>3, QueueParts
<1>5. /\ Pending(c) # <<>> /\ Head(Pending(c)) = Unnumbered(p)
      /\ Pending(c)' = Tail(Pending(c))
  BY <1>1, <1>4, PlainPush, PendingIsPlain
<1>6. \A d \in Clients \ {c} : Pending(d)' = Pending(d)
  BY <1>3, PendingIsPlain
<1>7. b' = [b EXCEPT ![c] = Tail(@)] /\ b[c] = Pending(c)
  BY <1>5, <1>6
<1>8. PICK id \in 0..MaxCommands :
         /\ Numbered(Unnumbered(p), id) = p
         /\ IsInsert(Unnumbered(p)) => \A k \in DOMAIN history : id \notin DOMAIN history[k]
  <2>1. 0 \in Slots(c) /\ Slot(c, 0) = p
    BY <1>1 DEF Slots, Slot
  <2>2. CASE IsInsert(p)
    <3>1. p.draw_data.draw_id \in 0..MaxCommands
      BY <2>1, <2>2, IdsSuffice
    <3>2. \A k \in DOMAIN history : p.draw_data.draw_id \notin DOMAIN history[k]
      BY <2>1, <2>2 DEF IdsOK
    <3>3. Numbered(Unnumbered(p), p.draw_data.draw_id) = p
      BY <1>1, <2>2, UnnumberedType, 0 \in Nat
    <3> QED
      BY <3>1, <3>2, <3>3
  <2>3. CASE ~ IsInsert(p)
    <3>1. Numbered(Unnumbered(p), 0) = p /\ ~ IsInsert(Unnumbered(p))
      BY <1>1, <2>3, UnnumberedType, 0 \in Nat
    <3> QED
      BY <3>1
  <2> QED
    BY <2>2, <2>3
<1>9. [d \in Clients |-> Behind(d)]' = [d \in Clients |-> Behind(d)]
  <2>1. /\ IsSequence(history) /\ Len(history) \in Nat /\ p \in Message
        /\ inbox \in [Clients -> Seq(Message)]
    BY <1>1 DEF TypeOK, IsSequence, Message
  <2>2. Len(history') = Len(history) + 1
    BY <1>1, <2>1, AppendAny
  <2>3. inbox' = [d \in Clients |-> Append(inbox[d], p)]
    BY DEF Broadcast, Delivered, InOrder
  <2>4. \A d \in Clients : Len(inbox[d])' = Len(inbox[d]) + 1 /\ Len(inbox[d]) \in Nat
    BY <2>1, <2>3
  <2>5. \A d \in Clients : Behind(d)' = Behind(d)
    <3> SUFFICES ASSUME NEW d \in Clients PROVE Behind(d)' = Behind(d)
      OBVIOUS
    <3>1. Behind(d)' = Len(history') - Len(inbox'[d]) /\ Behind(d) = Len(history) - Len(inbox[d])
      BY DEF Behind
    <3>2. Len(inbox'[d]) = Len(inbox[d]) + 1
      BY <2>4
    <3> HIDE DEF p
    <3> QED
      BY <2>1, <2>2, <2>4, <3>1, <3>2
  <2> QED
    BY <2>5
<1>10. /\ WB!IsInsert(Head(b[c])) => WB!NeverUsed(id)
       /\ history' = Append(history, WB!Execute(WB!Board, WB!Numbered(Head(b[c]), id)))
  BY <1>1, <1>5, <1>7, <1>8, SameExecute, SameNumbered
     DEF WB!IsInsert, IsInsert, WB!NeverUsed, WB!Board, Board
<1> QED
  BY <1>1, <1>5, <1>7, <1>9, <1>10 DEF WB!Publish, Behind

\* The rest goes unnoticed: a package moves on in its handler's queue, and an
\* INSERT gets its draw ID.
LEMMA MoveStutters ==
  ASSUME TypeOK, LockOK, NEW c \in Clients,
         Receive(c) \/ PollIdle(c) \/ TryLock(c) \/ TryLockTimeout(c) \/ ExecuteUnlock(c)
  PROVE  UNCHANGED WB!vars
<1> USE DEF serverVars, handlerVars, clientVars, netVars, Goto
<1>1. UNCHANGED <<history, inbox, client_list>>
  BY DEF Receive, PollIdle, TryLock, TryLockTimeout, ExecuteUnlock
<1>2. /\ pc \in [Clients -> Labels] /\ DOMAIN package = Clients
      /\ messages_buf \in [Clients -> Seq(Command)] /\ messages_buf[c] \in Seq(Command)
      /\ toServer \in [Clients -> Seq(Command)] /\ toServer[c] \in Seq(Command)
      /\ glb_draw_id \in Nat
  BY DEF TypeOK
<1>3. \A d \in Clients \ {c} : Queue(d)' = Queue(d)
  BY <1>2 DEF Receive, PollIdle, TryLock, TryLockTimeout, ExecuteUnlock, Queue, Hand
<1>4. Plain(Queue(c)') = Plain(Queue(c))
  <2> DEFINE m == messages_buf[c]
  <2> DEFINE t == toServer[c]
  <2>1. CASE Receive(c)
    <3> DEFINE q == Numbered(Head(t), glb_draw_id)
    <3>1. /\ Hand(c) = <<>> /\ Hand(c)' = <<>> /\ t # <<>>
          /\ messages_buf'[c] = Append(m, q) /\ toServer'[c] = Tail(t)
      BY <1>2, <2>1 DEF Receive, Hand
    <3>2. m \in Seq(Command) /\ t \in Seq(Command) /\ Head(t) \in Command
          /\ Tail(t) \in Seq(Command)
      BY <1>2, <3>1, HeadTailProperties
    <3>3. q \in Command /\ Unnumbered(q) = Unnumbered(Head(t))
      BY <1>2, <3>2, UnnumberedType, NumberedType
    <3> HIDE DEF q, m, t
    <3>4. Append(m, q) \in Seq(Command)
      BY <3>2, <3>3
    <3>5. Queue(c) = m \o t /\ Queue(c)' = Append(m, q) \o Tail(t)
      <4>1. Queue(c) = <<>> \o m \o t /\ Queue(c)' = <<>> \o Append(m, q) \o Tail(t)
        BY <3>1 DEF Queue, m, t
      <4> QED
        BY <3>2, <3>3, <3>4, <4>1, QueueParts
    <3> QED
      BY <3>1, <3>2, <3>3, <3>5, MoveNumbered
  <2>2. CASE TryLock(c)
    <3>1. /\ m # <<>> /\ messages_buf'[c] = Tail(m) /\ toServer' = toServer
          /\ Hand(c) = <<>> /\ Hand(c)' = <<Head(m)>> /\ m \in Seq(Command)
      BY <1>2, <2>2 DEF TryLock, LockOK, Hand
    <3>2. Queue(c) = <<>> \o m \o t /\ Queue(c)' = <<Head(m)>> \o Tail(m) \o t
      BY <3>1 DEF Queue
    <3> HIDE DEF m
    <3>3. <<>> \o m = m /\ <<Head(m)>> \o Tail(m) = m
      BY <3>1, ConcatEmptySeq, MoveHead
    <3> QED
      BY <3>2, <3>3
  <2>3. CASE PollIdle(c) \/ TryLockTimeout(c) \/ ExecuteUnlock(c)
    <3>1. Queue(c)' = Queue(c)
      BY <1>2, <2>3 DEF PollIdle, TryLockTimeout, ExecuteUnlock, Queue, Hand
    <3> QED
      BY <3>1
  <2> QED
    BY <2>1, <2>2, <2>3
<1>5. \A d \in Clients : Pending(d)' = Pending(d)
  BY <1>3, <1>4, PendingIsPlain
<1> QED
  BY <1>1, <1>5 DEF WB!vars

\* With every client connected from the start, commands go from the clients to
\* the board in the order each client issued them, each of them once and every
\* item under a draw ID of its own; and the clients show the states of the
\* board one after the other (the one TCP connection, buffer and handler per
\* client, Server/Client_Handler.cpp; the broadcast under connections_mutex,
\* Server/Execute_And_Broadcast.cpp).
THEOREM WhiteboardImplemented ==
  ASSUME Started = Clients
  PROVE  Spec => ImplementsWhiteboard
<1>1. Init => WB!Init
  <2> SUFFICES ASSUME Init PROVE WB!Init
    OBVIOUS
  <2>1. \A c \in Clients : Queue(c) = <<>>
    BY DEF Init, Queue, Hand
  <2>2. \A c \in Clients : Pending(c) = <<>>
    <3>1. Plain(<<>>) = <<>>
      BY DEF Plain
    <3> QED
      BY <2>1, <3>1, PendingIsPlain
  <2>3. \A c \in Clients : Len(history) - Len(inbox[c]) = 1
    BY DEF Init
  <2> QED
    BY <2>2, <2>3 DEF Init, WB!Init, WB!NoItems, NoItems
<1>2. IInv /\ CountOK /\ [Next]_vars => [WB!Next]_(WB!vars)
  <2> SUFFICES ASSUME IInv, CountOK, [Next]_vars PROVE [WB!Next]_(WB!vars)
    OBVIOUS
  <2>1. TypeOK /\ LockOK /\ IdsOK /\ InOrder
    BY DEF IInv, DownOK, TypeOK
  <2>2. CASE UNCHANGED vars
    <3>1. /\ \A c : Queue(c)' = Queue(c)
          /\ UNCHANGED <<history, inbox, client_list>>
      BY <2>2 DEF vars, handlerVars, netVars, clientVars, Queue, Hand
    <3>2. \A c : Pending(c)' = Pending(c)
      BY <3>1, PendingIsPlain
    <3> QED
      BY <3>1, <3>2 DEF WB!vars
  <2>3. ASSUME NEW c \in Clients, Send(c) PROVE WB!Next
    BY <2>1, <2>3, SendIssues DEF WB!Next
  <2>4. ASSUME NEW c \in Clients, Apply(c) PROVE WB!Next
    BY <2>1, <2>4, ApplyShows DEF WB!Next
  <2>5. ASSUME NEW c \in Clients, Broadcast(c) PROVE WB!Next
    BY <2>1, <2>5, BroadcastPublishes DEF WB!Next
  <2>6. \A c \in Clients : ~ FirstReply(c) /\ ~ Join(c) /\ ~ Ends(c)
    <3>1. connections \subseteq Clients
      BY <2>1 DEF TypeOK
    <3> QED
      BY <2>1, <3>1 DEF InOrder, FirstReply, Join, Register, SendId, SerializeBulk, SendBulk,
                        Ends, Disconnect, Remove, Die, BrokenPipe, Broken
  <2>7. ASSUME NEW c \in Clients,
               Receive(c) \/ PollIdle(c) \/ TryLock(c) \/ TryLockTimeout(c) \/ ExecuteUnlock(c)
        PROVE  UNCHANGED WB!vars
    BY <2>1, <2>7, MoveStutters
  <2> QED
    BY <2>2, <2>3, <2>4, <2>5, <2>6, <2>7 DEF Next, Client, Loop, Ends
<1> QED
  BY <1>1, <1>2, Invariance, CountInvariance, PTL DEF Spec, ImplementsWhiteboard, WB!Spec
=============================================================================
