--------------------------- MODULE RegistryProofs ---------------------------
(***************************************************************************)
(* For any number of connections, usernames and descriptors: the map of    *)
(* connections never holds a pointer to a handler's dead stack, and one    *)
(* handler serves one user.  The inductive invariant is the conjunction of *)
(* the type invariant (which says where a thread has a username) with the  *)
(* two halves of "entry and thread refer to each other".                   *)
(***************************************************************************)
EXTENDS Registry, TLAPS

MapOK == NoDanglingEntry /\ OneHandlerPerUser

IInv == TypeOK /\ MapOK

USE DEF mapVars, threadVars, recordVars, clientVars, At, Goto

\* The initial states are as the invariant says.
LEMMA InitIInv == Init => IInv
  BY ThreadsAssumption, NamesAssumption
     DEF Init, IInv, TypeOK, MapOK, NoDanglingEntry, OneHandlerPerUser, Labels,
         Registered, Messages

\* A message to any set of descriptors leaves every client with a first message.
LEMMA SendOnTypes ==
    ASSUME TypeOK, NEW some_fds, NEW message \in Messages, SendOn(some_fds, message)
    PROVE  first' \in [Threads -> Messages]
  BY DEF SendOn, TypeOK

\* A thread that ends takes its own part of the state with it and leaves the
\* types of the others'.
LEMMA EndThreadTypes ==
    ASSUME TypeOK, NEW h \in Threads, pc[h] # "unborn",
           NEW sockets \in [Threads -> Fds \union {NoFd}],
           NEW active \in [Threads -> BOOLEAN],
           \A g \in Threads \ {h} : sockets[g] = socket[g] \/ sockets[g] \in Fds,
           EndThread(h, sockets, active), UNCHANGED client
    PROVE  /\ pc' \in [Threads -> Labels]
           /\ poll_fd' \in [Threads -> Fds \union {NoFd}]
           /\ username' \in [Threads -> Names \union {NoName}]
           /\ socket' \in [Threads -> Fds \union {NoFd}]
           /\ is_active' \in [Threads -> BOOLEAN]
           /\ user_ID' \in [Threads -> Nat]
           /\ \A g \in Threads :
                 /\ pc'[g] = "unborn" <=> client'[g] = "absent"
                 /\ pc'[g] \notin {"unborn", "dead"} => socket'[g] \in Fds
                 /\ pc'[g] \notin {"unborn", "username", "dead"} => username'[g] \in Names
  BY DEF EndThread, TypeOK, Labels

\* Every step keeps the types, and a thread that has got past reading its
\* username has one.
LEMMA TypeStep == TypeOK /\ MapOK /\ [Next]_vars => TypeOK'
<1> SUFFICES ASSUME TypeOK, MapOK, [Next]_vars PROVE TypeOK'
  OBVIOUS
<1> USE ThreadsAssumption, NamesAssumption, LoginAssumption, FdsAssumption
<1> USE DEF TypeOK, Labels, Registered
<1>1. ASSUME NEW h \in Threads, Accept(h) PROVE TypeOK'
  BY <1>1 DEF Accept
<1>2. ASSUME NEW h \in Threads, SendName(h) PROVE TypeOK'
  BY <1>2 DEF SendName
<1>3. ASSUME NEW h \in Threads, Leave(h) PROVE TypeOK'
  BY <1>3 DEF Leave, Messages
<1>4. ASSUME NEW h \in Threads, ReadName(h) PROVE TypeOK'
  <2>1. At(h, "username") /\ socket[h] \in Fds
    BY <1>4 DEF ReadName
  <2> DEFINE g == fds[socket[h]]
  <2>2. CASE /\ g # NoThread /\ unread[g]
             /\ username' = [username EXCEPT ![h] = Login[g]]
             /\ unread' = [unread EXCEPT ![g] = FALSE]
             /\ Goto(h, "lookup")
             /\ UNCHANGED <<fds, poll_fd, recordVars>>
    <3>1. g \in Threads
      <4>1. g # NoThread
        BY <2>2, Zenon
      <4>2. g \in Threads \union {NoThread}
        BY <2>1
      <4> QED
        BY <4>1, <4>2
    <3>2. Login[g] \in Names
      BY <3>1
    <3> QED
      BY <1>4, <2>1, <2>2, <3>1, <3>2 DEF ReadName
  <2>3. CASE /\ Close(socket[h])
             /\ EndThread(h, socket, is_active)
             /\ UNCHANGED unread
    <3>1. UNCHANGED <<main, mapVars, clientVars>> /\ fds' \in [Fds -> Threads \union {NoThread}]
      BY <1>4, <2>3 DEF ReadName, Close
    <3> QED
      BY <2>1, <2>3, <3>1, EndThreadTypes
  <2> QED
    BY <1>4, <2>2, <2>3 DEF ReadName
<1>5. ASSUME NEW h \in Threads, Lookup(h) PROVE TypeOK'
  BY <1>5 DEF Lookup
<1>6. ASSUME NEW h \in Threads, LoadUserID(h) PROVE TypeOK'
  BY <1>6 DEF LoadUserID
<1>7. ASSUME NEW h \in Threads, StoreUserID(h) PROVE TypeOK'
  BY <1>7 DEF StoreUserID
<1>8. ASSUME NEW h \in Threads, CreateNewUser(h) PROVE TypeOK'
  <2>1. At(h, "create") /\ UNCHANGED <<main, user_id_rec, fds, clientVars>>
    BY <1>8 DEF CreateNewUser
  <2>2. CASE connections[username[h]] = NoThread
    BY <1>8, <2>2 DEF CreateNewUser
  <2>3. CASE connections[username[h]] # NoThread
    <3>1. EndThread(h, socket, is_active) /\ UNCHANGED connections
      BY <1>8, <2>3 DEF CreateNewUser
    <3> QED
      BY <2>1, <3>1, EndThreadTypes
  <2> QED
    BY <2>2, <2>3
<1>9. ASSUME NEW h \in Threads, SendUserID(h) PROVE TypeOK'
  <2>1. username[h] \in Names /\ IdOf(username[h]) \in Messages
    BY <1>9 DEF SendUserID, Messages
  <2>2. first' \in [Threads -> Messages]
    BY <1>9, <2>1, SendOnTypes DEF SendUserID
  <2> QED
    BY <1>9, <2>2 DEF SendUserID
<1>10. ASSUME NEW h \in Threads, SendBulk(h) PROVE TypeOK'
  <2>1. first' \in [Threads -> Messages]
    BY <1>10, SendOnTypes DEF SendBulk, Messages
  <2> QED
    BY <1>10, <2>1 DEF SendBulk
<1>11. ASSUME NEW h \in Threads, CheckActivity(h) PROVE TypeOK'
  BY <1>11 DEF CheckActivity
<1>12. ASSUME NEW h \in Threads, Refuse(h) PROVE TypeOK'
  <2>1. At(h, "refuse") /\ UNCHANGED <<main, mapVars, client, unread>>
    BY <1>12 DEF Refuse
  <2>2. first' \in [Threads -> Messages]
    BY <1>12, SendOnTypes DEF Refuse, Messages
  <2>3. fds' \in [Fds -> Threads \union {NoThread}]
    BY <1>12 DEF Refuse, Close
  <2>4. EndThread(h, socket, is_active)
    BY <1>12 DEF Refuse
  <2> QED
    BY <2>1, <2>2, <2>3, <2>4, EndThreadTypes
<1>13. ASSUME NEW h \in Threads, ReconnectUser(h) PROVE TypeOK'
  <2> DEFINE k == connections[username[h]]
  <2>1. /\ At(h, "reconnect") /\ UNCHANGED <<main, mapVars, fds, client, unread>>
        /\ username[h] \in Names /\ socket[h] \in Fds
    BY <1>13 DEF ReconnectUser
  <2>2. k \in Threads \union {NoThread}
    BY <2>1
  <2>3. CASE k = NoThread
    <3>1. EndThread(h, socket, is_active) /\ UNCHANGED first
      BY <1>13, <2>3 DEF ReconnectUser
    <3> QED
      BY <2>1, <3>1, EndThreadTypes
  <2>4. CASE k # NoThread
    <3>1. k \in Threads /\ username[k] \in Names
      BY <2>1, <2>2, <2>4 DEF MapOK, NoDanglingEntry
    <3>2. IdOf(username[k]) \in Messages
      BY <3>1 DEF Messages
    <3> DEFINE sockets == [socket EXCEPT ![k] = socket[h]]
               active  == [is_active EXCEPT ![k] = TRUE]
    <3>3. SendOn({socket[k]}, IdOf(username[k])) /\ EndThread(h, sockets, active)
      BY <1>13, <2>4 DEF ReconnectUser
    <3>4. first' \in [Threads -> Messages]
      BY <3>2, <3>3, SendOnTypes
    <3>5. /\ sockets \in [Threads -> Fds \union {NoFd}]
          /\ active \in [Threads -> BOOLEAN]
          /\ \A g \in Threads \ {h} : sockets[g] = socket[g] \/ sockets[g] \in Fds
      BY <2>1, <3>1
    <3> HIDE DEF sockets, active
    <3> QED
      BY <2>1, <3>3, <3>4, <3>5, EndThreadTypes
  <2> QED
    BY <2>3, <2>4
<1>14. ASSUME NEW h \in Threads, PollReadable(h) PROVE TypeOK'
  BY <1>14 DEF PollReadable
<1>15. ASSUME NEW h \in Threads, PollKilled(h) PROVE TypeOK'
  BY <1>15 DEF PollKilled
<1>16. ASSUME NEW h \in Threads, Receive(h) PROVE TypeOK'
  <2> DEFINE g == fds[socket[h]]
  <2>1. At(h, "receive") /\ socket[h] \in Fds
    BY <1>16 DEF Receive
  <2>2. CASE /\ g # NoThread /\ unread[g]
             /\ unread' = [unread EXCEPT ![g] = FALSE]
             /\ Goto(h, "loop")
    BY <1>16, <2>1, <2>2 DEF Receive
  <2>3. CASE Goto(h, "disconnect") /\ UNCHANGED unread
    BY <1>16, <2>1, <2>3 DEF Receive
  <2> QED
    BY <1>16, <2>2, <2>3 DEF Receive
<1>17. ASSUME NEW h \in Threads, Disconnect(h) PROVE TypeOK'
  BY <1>17 DEF Disconnect, DisconnectUser
<1>18. ASSUME NEW h \in Threads, WaitKilled(h) PROVE TypeOK'
  BY <1>18 DEF WaitKilled
<1>19. ASSUME NEW h \in Threads, WelcomeBack(h) PROVE TypeOK'
  <2>1. first' \in [Threads -> Messages]
    BY <1>19, SendOnTypes DEF WelcomeBack, Messages
  <2> QED
    BY <1>19, <2>1 DEF WelcomeBack
<1>20. ASSUME NEW h \in Threads, GiveUp(h) PROVE TypeOK'
  BY <1>20 DEF GiveUp
<1>21. ASSUME NEW h \in Threads, RemoveDisconnect(h) PROVE TypeOK'
  BY <1>21 DEF RemoveDisconnect, DisconnectUser
<1>22. ASSUME NEW h \in Threads, Erase(h) PROVE TypeOK'
  <2>1. /\ At(h, "erase") /\ EndThread(h, socket, is_active)
        /\ connections' = [connections EXCEPT ![username[h]] = NoThread]
        /\ UNCHANGED <<main, user_id_rec, fds, clientVars>>
    BY <1>22 DEF Erase
  <2> QED
    BY <2>1, EndThreadTypes
<1>23. ASSUME NEW h \in Threads, TimeOut(h) PROVE TypeOK'
  <2>1. first' \in [Threads -> Messages]
    BY <1>23, SendOnTypes DEF TimeOut, Messages
  <2> QED
    BY <1>23, <2>1 DEF TimeOut
<1>24. ASSUME NEW h \in Threads, Broadcast(h) PROVE TypeOK'
  <2>1. first' \in [Threads -> Messages]
    BY <1>24, SendOnTypes DEF Broadcast, Messages
  <2> QED
    BY <1>24, <2>1 DEF Broadcast
<1>25. ASSUME NEW h \in Threads, BrokenPipe(h) PROVE TypeOK'
  BY <1>25 DEF BrokenPipe
<1>26. CASE Exit \/ Return \/ End
  BY <1>26 DEF Exit, Return, End
<1>27. CASE UNCHANGED vars
  BY <1>27 DEF vars
<1> QED
  BY <1>1, <1>2, <1>3, <1>4, <1>5, <1>6, <1>7, <1>8, <1>9, <1>10, <1>11, <1>12, <1>13, <1>14, <1>15, <1>16, <1>17, <1>18, <1>19, <1>20, <1>21, <1>22, <1>23, <1>24, <1>25, <1>26, <1>27
     DEF Next, Handler, LogIn, Serve, Reconnection

\* Every step keeps entries and threads in agreement.  Only CreateNewUser and
\* Erase change the map; no other step moves a thread in or out of Registered.
LEMMA MapStep == TypeOK /\ MapOK /\ [Next]_vars => MapOK'
<1> SUFFICES ASSUME TypeOK, MapOK, [Next]_vars PROVE MapOK'
  OBVIOUS
<1> USE ThreadsAssumption
<1> USE DEF MapOK, NoDanglingEntry, OneHandlerPerUser, Registered
<1>1. ASSUME NEW h \in Threads, CreateNewUser(h) PROVE MapOK'
  <2>1. pc[h] = "create" /\ username[h] \in Names
    BY <1>1 DEF CreateNewUser, TypeOK
  <2>2. CASE connections[username[h]] = NoThread
    <3>1. /\ connections' = [connections EXCEPT ![username[h]] = h]
          /\ pc' = [pc EXCEPT ![h] = "reply"]
          /\ username' = username
      BY <1>1, <2>2 DEF CreateNewUser
    <3>2. NoDanglingEntry'
      BY <2>1, <2>2, <3>1 DEF TypeOK
    <3>3. OneHandlerPerUser'
      BY <2>1, <2>2, <3>1 DEF TypeOK
    <3> QED
      BY <3>2, <3>3
  <2>3. CASE connections[username[h]] # NoThread
    <3>1. /\ pc' = [pc EXCEPT ![h] = "dead"]
          /\ username' = [username EXCEPT ![h] = NoName]
          /\ UNCHANGED connections
      BY <1>1, <2>3 DEF CreateNewUser, EndThread
    <3> QED
      BY <2>1, <3>1 DEF TypeOK
  <2> QED
    BY <2>2, <2>3
<1>2. ASSUME NEW h \in Threads, Erase(h) PROVE MapOK'
  <2>1. pc[h] = "erase" /\ username[h] \in Names /\ connections[username[h]] = h
    BY <1>2 DEF Erase, TypeOK
  <2>2. /\ connections' = [connections EXCEPT ![username[h]] = NoThread]
        /\ pc' = [pc EXCEPT ![h] = "dead"]
        /\ username' = [username EXCEPT ![h] = NoName]
    BY <1>2 DEF Erase, EndThread
  <2>3. NoDanglingEntry'
    BY <2>1, <2>2 DEF TypeOK
  <2>4. OneHandlerPerUser'
    BY <2>1, <2>2 DEF TypeOK
  <2> QED
    BY <2>3, <2>4
<1>3. ASSUME NEW h \in Threads, UNCHANGED connections,
             \A g \in Threads \ {h} : pc'[g] = pc[g] /\ username'[g] = username[g],
             \/ pc[h] \notin Registered /\ pc'[h] \notin Registered
             \/ /\ pc[h] \in Registered /\ pc'[h] \in Registered
                /\ username'[h] = username[h]
      PROVE  MapOK'
  <2>1. ASSUME NEW n \in Names, connections[n] # NoThread
        PROVE  pc'[connections[n]] \in Registered /\ username'[connections[n]] = n
    <3>1. /\ connections[n] \in Threads
          /\ pc[connections[n]] \in Registered /\ username[connections[n]] = n
      BY <2>1 DEF TypeOK
    <3> QED
      BY <1>3, <3>1
  <2>2. ASSUME NEW g \in Threads, pc'[g] \in Registered
        PROVE  connections[username'[g]] = g
    BY <1>3, <2>2
  <2> QED
    BY <1>3, <2>1, <2>2
<1>4. ASSUME NEW h \in Threads,
             \/ Accept(h) \/ SendName(h) \/ Leave(h)
             \/ Broadcast(h) \/ TimeOut(h) \/ BrokenPipe(h)
      PROVE  MapOK'
  BY <1>3, <1>4 DEF Accept, SendName, Leave, Broadcast, TimeOut, BrokenPipe, TypeOK
<1>5. ASSUME NEW h \in Threads, LogIn(h), ~ CreateNewUser(h) PROVE MapOK'
  BY <1>3, <1>5 DEF LogIn, ReadName, Lookup, LoadUserID, StoreUserID, SendUserID,
                    SendBulk, CheckActivity, Refuse, ReconnectUser, EndThread, TypeOK
<1>6. ASSUME NEW h \in Threads, Serve(h) PROVE MapOK'
  BY <1>3, <1>6 DEF Serve, PollReadable, PollKilled, Receive, TypeOK
<1>7. ASSUME NEW h \in Threads, Reconnection(h), ~ Erase(h) PROVE MapOK'
  BY <1>3, <1>7 DEF Reconnection, Disconnect, DisconnectUser, WaitKilled,
                    WelcomeBack, GiveUp, RemoveDisconnect, TypeOK
<1>8. CASE Exit \/ Return \/ End \/ UNCHANGED vars
  BY <1>8 DEF Exit, Return, End, vars
<1> QED
  BY <1>1, <1>2, <1>4, <1>5, <1>6, <1>7, <1>8 DEF Next, Handler

LEMMA Invariance == Spec => []IInv
<1>1. IInv /\ [Next]_vars => IInv'
  BY TypeStep, MapStep DEF IInv
<1> QED
  BY InitIInv, <1>1, PTL DEF Spec

\* Every variable of the server, its handlers and clients keeps its type.
THEOREM TypeCorrect == Spec => []TypeOK
  BY Invariance, PTL DEF IInv

\* The map of connections never holds a pointer to the stack of a handler that
\* has ended or serves another user (create_new_user, remove_user).
THEOREM NoDangling == Spec => []NoDanglingEntry
  BY Invariance, PTL DEF IInv, MapOK

\* A handler that serves a user always finds its own entry under the username,
\* so there is never a second one for the same user, and the "not found" and
\* "error" results of check_kill_flag and disconnect_user never occur to it.
THEOREM SoleHandler == Spec => []OneHandlerPerUser
  BY Invariance, PTL DEF IInv, MapOK
=============================================================================
