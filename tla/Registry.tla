------------------------------ MODULE Registry ------------------------------
(***************************************************************************)
(* The life of a connection on the server: the main thread that accepts    *)
(* and shuts down (Server/Server_Main.cpp), one handler thread per         *)
(* accepted connection (Server/Client_Handler.cpp), and the map of         *)
(* connections they share (Server/Thread_Functions.cpp), with log-in,      *)
(* loss of the connection, inactivity, reconnection under the same         *)
(* username, removal, and the descriptors all of it is done with.          *)
(*                                                                         *)
(* An accepted connection and the handler thread started for it are named  *)
(* alike.  The kernel gives out the lowest free descriptor, and a          *)
(* descriptor closed twice may by then denote another connection.  What    *)
(* one critical section of connections_mutex does is one step.  Draw       *)
(* commands are left to Relay; here they are broadcasts at any time.       *)
(***************************************************************************)
EXTENDS Integers, FiniteSets

CONSTANTS Threads,        \* accepted connections, and their handler threads
          Names,          \* usernames
          Login,          \* [Threads -> Names]: what each connection's client sends
          Fds             \* file descriptors

NoThread == 0
NoFd     == 0
NoName   == "none"

ASSUME ThreadsAssumption == Threads \subseteq Nat \ {NoThread}
ASSUME NamesAssumption   == NoName \notin Names
ASSUME LoginAssumption   == Login \in [Threads -> Names]
ASSUME FdsAssumption     == Fds \subseteq Nat \ {NoFd}

VARIABLES
    \* the server process
    main,                 \* main thread: "loop", "drain" (flag set), "returned"
                          \* (from server_loop); "ended", "killed": no process
    connections,          \* [Names -> thread whose connection_t is filed, or NoThread]
    user_id_rec,          \* the counter of user IDs
    fds,                  \* [Fds -> the connection a descriptor denotes, or NoThread]
    \* the handler threads
    pc,
    poll_fd,              \* fds[0].fd, set once
    username,             \* the username received
    \* their connection_t
    socket, is_active, user_ID,
    \* the other ends
    client,               \* "absent", "new" (its name not sent), "open", "left"
    unread,               \* whether the username waits to be read
    first                 \* the first message a client there has got, or NoMessage

mapVars    == <<connections, user_id_rec>>
threadVars == <<poll_fd, username>>
recordVars == <<socket, is_active, user_ID>>
clientVars == <<client, unread, first>>
vars == <<main, mapVars, fds, pc, threadVars, recordVars, clientVars>>

\* What a client gets from the server.  The first message should be a number:
\* its user ID, or the -1 of a refusal.
Message(type)  == [type |-> type, user |-> NoName]
IdOf(name)     == [type |-> "ID", user |-> name]
Refusal        == Message("refusal")
Package        == Message("package")      \* anything std::stoi throws on
NoMessage      == Message("nothing")

Init ==
    /\ main = "loop"
    /\ connections = [n \in Names |-> NoThread]
    /\ user_id_rec = 0
    /\ fds = [f \in Fds |-> NoThread]
    /\ pc = [h \in Threads |-> "unborn"]
    /\ poll_fd = [h \in Threads |-> NoFd]
    /\ username = [h \in Threads |-> NoName]
    /\ socket = [h \in Threads |-> NoFd]
    /\ is_active = [h \in Threads |-> FALSE]
    /\ user_ID = [h \in Threads |-> 0]
    /\ client = [h \in Threads |-> "absent"]
    /\ unread = [h \in Threads |-> FALSE]
    /\ first = [h \in Threads |-> NoMessage]

server_kill_flag == main # "loop"

\* Handlers live as long as the process does.
NoProcess == main \in {"ended", "killed"}

At(h, label) == ~ NoProcess /\ pc[h] = label

Goto(h, label) == pc' = [pc EXCEPT ![h] = label]

\* The thread ends, and with it what is on its stack; sockets and active are
\* those of the connection_t objects before that.
EndThread(h, sockets, active) ==
    /\ Goto(h, "dead")
    /\ poll_fd' = [poll_fd EXCEPT ![h] = NoFd]
    /\ username' = [username EXCEPT ![h] = NoName]
    /\ socket' = [sockets EXCEPT ![h] = NoFd]
    /\ is_active' = [active EXCEPT ![h] = FALSE]
    /\ user_ID' = [user_ID EXCEPT ![h] = 0]

\* A message sent on a descriptor reaches whatever client is at its end.
SendOn(some_fds, message) ==
    first' = [g \in Threads |->
                IF /\ \E fd \in some_fds : fds[fd] = g
                   /\ client[g] # "left" /\ first[g] = NoMessage
                THEN message ELSE first[g]]

Close(fd) == fds' = [fds EXCEPT ![fd] = NoThread]

\* A descriptor is readable when a message or an end of file waits there.
Readable(fd) ==
    fds[fd] # NoThread /\ (unread[fds[fd]] \/ client[fds[fd]] = "left")

\* recv reports a closed descriptor or the end of the stream; receive_message
\* then returns "Disconnect".
AtEnd(fd) ==
    fds[fd] # NoThread => ~ unread[fds[fd]] /\ client[fds[fd]] = "left"

\* The connection_t objects the map points to.
Entries == Threads \intersect {connections[n] : n \in Names}

\* check_kill_flag, which also answers "not off" for an unknown username.
Killed(h) == connections[username[h]] = NoThread \/ server_kill_flag

-----------------------------------------------------------------------------
(* Clients, as long as there is a server.                                  *)

\* The client connects, the main thread accepts and starts the handler.
Accept(h) ==
    /\ main = "loop"
    /\ client[h] = "absent"
    /\ \E fd \in Fds :
          /\ fds[fd] = NoThread
          /\ \A f \in Fds : f < fd => fds[f] # NoThread
          /\ fds' = [fds EXCEPT ![fd] = h]
          /\ socket' = [socket EXCEPT ![h] = fd]
          /\ poll_fd' = [poll_fd EXCEPT ![h] = fd]
    /\ client' = [client EXCEPT ![h] = "new"]
    /\ Goto(h, "username")
    /\ UNCHANGED <<main, mapVars, username, is_active, user_ID, unread, first>>

\* connect_to_server sends the username.
SendName(h) ==
    /\ ~ NoProcess
    /\ client[h] = "new"
    /\ client' = [client EXCEPT ![h] = "open"]
    /\ unread' = [unread EXCEPT ![h] = TRUE]
    /\ UNCHANGED <<main, mapVars, fds, pc, threadVars, recordVars, first>>

\* The client exits, crashes (on a first message that is no number, say) or is
\* cut off.
Leave(h) ==
    /\ ~ NoProcess
    /\ client[h] \in {"new", "open"}
    /\ client' = [client EXCEPT ![h] = "left"]
    /\ first' = [first EXCEPT ![h] = NoMessage]
    /\ UNCHANGED <<main, mapVars, fds, pc, threadVars, recordVars, unread>>

-----------------------------------------------------------------------------
(* check_client: log-in.                                                   *)

\* Mutant of ReadName: "Disconnect" is taken for a username.
ReadNameUnchecked(h) ==
    /\ At(h, "username")
    /\ AtEnd(socket[h])
    /\ Goto(h, "lookup")
    /\ UNCHANGED <<main, mapVars, fds, threadVars, recordVars, clientVars>>

\* The first receive_message of a handler.
ReadName(h) ==
    /\ At(h, "username")
    /\ \/ LET g == fds[socket[h]]
          IN  /\ g # NoThread /\ unread[g]
              /\ username' = [username EXCEPT ![h] = Login[g]]
              /\ unread' = [unread EXCEPT ![g] = FALSE]
              /\ Goto(h, "lookup")
              /\ UNCHANGED <<fds, poll_fd, recordVars>>
       \/ /\ AtEnd(socket[h])
          /\ Close(socket[h])
          /\ EndThread(h, socket, is_active)
          /\ UNCHANGED unread
    /\ UNCHANGED <<main, mapVars, client, first>>

\* is_username_in_use, one critical section.
Lookup(h) ==
    /\ At(h, "lookup")
    /\ Goto(h, IF connections[username[h]] = NoThread THEN "load" ELSE "activity")
    /\ UNCHANGED <<main, mapVars, fds, threadVars, recordVars, clientVars>>

\* connection.user_ID = user_id_rec++, under no lock: a load and a store.
LoadUserID(h) ==
    /\ At(h, "load")
    /\ user_ID' = [user_ID EXCEPT ![h] = user_id_rec]
    /\ Goto(h, "store")
    /\ UNCHANGED <<main, mapVars, fds, threadVars, socket, is_active, clientVars>>

StoreUserID(h) ==
    /\ At(h, "store")
    /\ user_id_rec' = user_ID[h] + 1
    /\ is_active' = [is_active EXCEPT ![h] = TRUE]
    /\ Goto(h, "create")
    /\ UNCHANGED <<main, connections, fds, threadVars, socket, user_ID, clientVars>>

\* Mutant of CreateNewUser: the entry is written whoever has it.
CreateAnyway(h) ==
    /\ At(h, "create")
    /\ connections' = [connections EXCEPT ![username[h]] = h]
    /\ Goto(h, "reply")
    /\ UNCHANGED <<main, user_id_rec, fds, threadVars, recordVars, clientVars>>

\* Mutant of CreateNewUser: the test of the look-up is the wrong way round.
CreateSwapped(h) ==
    /\ At(h, "create")
    /\ \/ /\ connections[username[h]] # NoThread
          /\ connections' = [connections EXCEPT ![username[h]] = h]
          /\ Goto(h, "reply")
          /\ UNCHANGED <<threadVars, recordVars>>
       \/ /\ connections[username[h]] = NoThread
          /\ EndThread(h, socket, is_active)
          /\ UNCHANGED connections
    /\ UNCHANGED <<main, user_id_rec, fds, clientVars>>

\* create_new_user looks the name up again; if it has been taken meanwhile the
\* thread ends, with the connection open and nothing sent.
CreateNewUser(h) ==
    /\ At(h, "create")
    /\ \/ /\ connections[username[h]] = NoThread
          /\ connections' = [connections EXCEPT ![username[h]] = h]
          /\ Goto(h, "reply")
          /\ UNCHANGED <<threadVars, recordVars>>
       \/ /\ connections[username[h]] # NoThread
          /\ EndThread(h, socket, is_active)
          /\ UNCHANGED connections
    /\ UNCHANGED <<main, user_id_rec, fds, clientVars>>

SendUserID(h) ==
    /\ At(h, "reply")
    /\ SendOn({socket[h]}, IdOf(username[h]))
    /\ Goto(h, "bulk")
    /\ UNCHANGED <<main, mapVars, fds, threadVars, recordVars, client, unread>>

SendBulk(h) ==
    /\ At(h, "bulk")
    /\ SendOn({socket[h]}, Package)
    /\ Goto(h, "loop")
    /\ UNCHANGED <<main, mapVars, fds, threadVars, recordVars, client, unread>>

\* is_user_active, one critical section; an unknown user is not active.
CheckActivity(h) ==
    /\ At(h, "activity")
    /\ LET k == connections[username[h]]
       IN  Goto(h, IF k # NoThread /\ is_active[k] THEN "refuse" ELSE "reconnect")
    /\ UNCHANGED <<main, mapVars, fds, threadVars, recordVars, clientVars>>

\* "-1" and the error message, then the connection is closed.
Refuse(h) ==
    /\ At(h, "refuse")
    /\ SendOn({socket[h]}, Refusal)
    /\ Close(socket[h])
    /\ EndThread(h, socket, is_active)
    /\ UNCHANGED <<main, mapVars, client, unread>>

\* re_connect_user: the ID goes to the socket the user had before; then the
\* user is active again and has the new one.  This thread is done.
ReconnectUser(h) ==
    /\ At(h, "reconnect")
    /\ LET k == connections[username[h]]
       IN  \/ /\ k # NoThread
              /\ SendOn({socket[k]}, IdOf(username[k]))
              /\ EndThread(h, [socket EXCEPT ![k] = socket[h]], [is_active EXCEPT ![k] = TRUE])
           \/ /\ k = NoThread
              /\ EndThread(h, socket, is_active)
              /\ UNCHANGED first
    /\ UNCHANGED <<main, mapVars, fds, client, unread>>

-----------------------------------------------------------------------------
(* The loop of client_handler.                                             *)

\* Something can be read on the descriptor the handler was started with.
PollReadable(h) ==
    /\ At(h, "loop")
    /\ ~ Killed(h)
    /\ Readable(poll_fd[h])
    /\ Goto(h, "receive")
    /\ UNCHANGED <<main, mapVars, fds, threadVars, recordVars, clientVars>>

\* Mutant of PollKilled: only the user's own entry is looked at.
PollUnregistered(h) ==
    /\ At(h, "loop")
    /\ connections[username[h]] = NoThread
    /\ Goto(h, "remove")
    /\ UNCHANGED <<main, mapVars, fds, threadVars, recordVars, clientVars>>

PollKilled(h) ==
    /\ At(h, "loop")
    /\ Killed(h)
    /\ Goto(h, "remove")
    /\ UNCHANGED <<main, mapVars, fds, threadVars, recordVars, clientVars>>

\* The client has sent a command, and nothing is to be read: it is broadcast, in
\* one critical section, to all in the map, whether or not they know their ID.
Broadcast(h) ==
    /\ At(h, "loop")
    /\ ~ Killed(h) /\ ~ Readable(poll_fd[h])
    /\ SendOn({socket[k] : k \in Entries}, Package)
    /\ UNCHANGED <<main, mapVars, fds, pc, threadVars, recordVars, client, unread>>

\* INACTIVITY_TIME_Limit has passed: the client is told, and is_active reset
\* under no lock.
TimeOut(h) ==
    /\ At(h, "loop")
    /\ ~ Killed(h) /\ ~ Readable(poll_fd[h])
    /\ SendOn({socket[h]}, Package)
    /\ is_active' = [is_active EXCEPT ![h] = FALSE]
    /\ Goto(h, "disconnect")
    /\ UNCHANGED <<main, mapVars, fds, threadVars, socket, user_ID, client, unread>>

\* receive_message reads the descriptor of the connection_t, whatever poll was
\* asked about; where nothing waits there, it blocks.
Receive(h) ==
    /\ At(h, "receive")
    /\ \/ LET g == fds[socket[h]]
          IN  /\ g # NoThread /\ unread[g]
              /\ unread' = [unread EXCEPT ![g] = FALSE]
              /\ Goto(h, "loop")
       \/ /\ AtEnd(socket[h])
          /\ Goto(h, "disconnect")
          /\ UNCHANGED unread
    /\ UNCHANGED <<main, mapVars, fds, threadVars, recordVars, client, first>>

-----------------------------------------------------------------------------
(* handle_reconnect and remove_user.                                       *)

\* disconnect_user: the user becomes inactive and the socket is closed, in one
\* critical section; for a name that is not in the map nothing happens.
DisconnectUser(h) ==
    LET k == connections[username[h]]
    IN  /\ is_active' = [g \in Threads |-> g # k /\ is_active[g]]
        /\ fds' = [f \in Fds |-> IF k # NoThread /\ f = socket[k]
                                 THEN NoThread ELSE fds[f]]
        /\ UNCHANGED <<main, mapVars, threadVars, socket, user_ID, clientVars>>

Disconnect(h) ==
    /\ At(h, "disconnect")
    /\ DisconnectUser(h)
    /\ Goto(h, IF connections[username[h]] = NoThread THEN "remove" ELSE "wait")

\* One round of the wait, a second long: kill flags, then is_active.  After
\* RECONNECT_TIME rounds the handler gives up; when that is, is left open.
WaitKilled(h) ==
    /\ At(h, "wait")
    /\ Killed(h)
    /\ Goto(h, "remove")
    /\ UNCHANGED <<main, mapVars, fds, threadVars, recordVars, clientVars>>

WelcomeBack(h) ==
    /\ At(h, "wait")
    /\ is_active[h]
    /\ SendOn({socket[h]}, Package)
    /\ Goto(h, "bulk")
    /\ UNCHANGED <<main, mapVars, fds, threadVars, recordVars, client, unread>>

\* Mutant of GiveUp: a disconnected user is waited for without a limit.
GiveUpNever(h) ==
    /\ At(h, "wait")
    /\ ~ is_active[h]
    /\ UNCHANGED vars

GiveUp(h) ==
    /\ At(h, "wait")
    /\ ~ is_active[h]
    /\ Goto(h, "remove")
    /\ UNCHANGED <<main, mapVars, fds, threadVars, recordVars, clientVars>>

\* remove_user is two critical sections: disconnect_user, which closes the
\* socket whether or not it was closed before, and the erasure.
RemoveDisconnect(h) ==
    /\ At(h, "remove")
    /\ DisconnectUser(h)
    /\ Goto(h, "erase")

\* Mutant of Erase: the thread ends with its entry in place.
EraseNothing(h) ==
    /\ At(h, "erase")
    /\ EndThread(h, socket, is_active)
    /\ UNCHANGED <<main, mapVars, fds, clientVars>>

Erase(h) ==
    /\ At(h, "erase")
    /\ connections' = [connections EXCEPT ![username[h]] = NoThread]
    /\ EndThread(h, socket, is_active)
    /\ UNCHANGED <<main, user_id_rec, fds, clientVars>>

-----------------------------------------------------------------------------
(* The main thread.                                                        *)

\* The operator types exit.
Exit ==
    /\ main = "loop"
    /\ main' = "drain"
    /\ UNCHANGED <<mapVars, fds, pc, threadVars, recordVars, clientVars>>

\* The busy wait sees an empty map, and server_loop returns.  Handlers that are
\* logging in are not in the map, and go on.
Return ==
    /\ main = "drain"
    /\ \A n \in Names : connections[n] = NoThread
    /\ main' = "returned"
    /\ UNCHANGED <<mapVars, fds, pc, threadVars, recordVars, clientVars>>

\* main shuts protobuf down, static objects are destroyed, the process ends.
\* What a handler does during that is undefined, and left out.
End ==
    /\ main = "returned"
    /\ main' = "ended"
    /\ UNCHANGED <<mapVars, fds, pc, threadVars, recordVars, clientVars>>

\* The descriptors a handler may send on next.
SendsOn(h) ==
    CASE \/ pc[h] \in {"reply", "bulk", "refuse"}
         \/ pc[h] = "wait" /\ is_active[h]      -> {socket[h]}
      [] pc[h] = "reconnect"                     -> {socket[k] : k \in Entries \intersect {connections[username[h]]}}
      [] pc[h] = "loop"                          -> {socket[k] : k \in Entries}
      [] OTHER                                   -> {}

\* send is called without MSG_NOSIGNAL: when the client has left, it may raise
\* SIGPIPE, which ends the process.
BrokenPipe(h) ==
    /\ ~ NoProcess
    /\ \E fd \in SendsOn(h) : fds[fd] # NoThread /\ client[fds[fd]] = "left"
    /\ main' = "killed"
    /\ UNCHANGED <<mapVars, fds, pc, threadVars, recordVars, clientVars>>

-----------------------------------------------------------------------------
LogIn(h) ==
    \/ ReadName(h) \/ Lookup(h) \/ LoadUserID(h) \/ StoreUserID(h)
    \/ CreateNewUser(h) \/ SendUserID(h) \/ SendBulk(h)
    \/ CheckActivity(h) \/ Refuse(h) \/ ReconnectUser(h)

Serve(h) == PollReadable(h) \/ PollKilled(h) \/ Receive(h)

Reconnection(h) ==
    \/ Disconnect(h) \/ WaitKilled(h) \/ WelcomeBack(h) \/ GiveUp(h)
    \/ RemoveDisconnect(h) \/ Erase(h)

Handler(h) == LogIn(h) \/ Serve(h) \/ Reconnection(h)

Next ==
    \/ \E h \in Threads : \/ Accept(h) \/ SendName(h) \/ Leave(h)
                           \/ Handler(h) \/ Broadcast(h) \/ TimeOut(h) \/ BrokenPipe(h)
    \/ Exit \/ Return \/ End

Spec == Init /\ [][Next]_vars

\* The threads go on while they can, clients send their username, and nobody
\* sends anything for a client that has left, so that its time runs out.
Fairness ==
    /\ \A h \in Threads :
          /\ WF_vars(Handler(h)) /\ WF_vars(SendName(h))
          /\ WF_vars(client[h] = "left" /\ TimeOut(h))
    /\ WF_vars(Return) /\ WF_vars(End)

FairSpec == Spec /\ Fairness

-----------------------------------------------------------------------------
(* Correctness.                                                            *)

\* Where the thread's connection_t is in the map.
Registered == {"reply", "bulk", "loop", "receive", "disconnect", "wait", "remove", "erase"}

Labels == Registered \union
    {"unborn", "username", "lookup", "load", "store", "create", "activity",
     "refuse", "reconnect", "dead"}

Messages ==
    {NoMessage, Refusal, Package} \union {IdOf(n) : n \in Names}

TypeOK ==
    /\ main \in {"loop", "drain", "returned", "ended", "killed"}
    /\ connections \in [Names -> Threads \union {NoThread}]
    /\ user_id_rec \in Nat
    /\ fds \in [Fds -> Threads \union {NoThread}]
    /\ pc \in [Threads -> Labels]
    /\ poll_fd \in [Threads -> Fds \union {NoFd}]
    /\ username \in [Threads -> Names \union {NoName}]
    /\ socket \in [Threads -> Fds \union {NoFd}]
    /\ is_active \in [Threads -> BOOLEAN]
    /\ user_ID \in [Threads -> Nat]
    /\ client \in [Threads -> {"absent", "new", "open", "left"}]
    /\ unread \in [Threads -> BOOLEAN]
    /\ first \in [Threads -> Messages]
    /\ \A h \in Threads :
          /\ pc[h] = "unborn" <=> client[h] = "absent"
          /\ pc[h] \notin {"unborn", "dead"} => socket[h] \in Fds
          /\ pc[h] \notin {"unborn", "username", "dead"} => username[h] \in Names

\* The map holds pointers to objects on the stacks of the handler threads
\* (connections[username] = &connection, Thread_Functions.cpp:123).  None of
\* them dangles: an entry belongs to a thread that is alive and serves that
\* username; and a thread that serves finds its own entry under its name, so
\* two threads never serve one user and nobody removes another's entry.
NoDanglingEntry ==
    \A n \in Names : connections[n] # NoThread =>
        pc[connections[n]] \in Registered /\ username[connections[n]] = n

OneHandlerPerUser ==
    \A h \in Threads : pc[h] \in Registered => connections[username[h]] = h

\* A client that sent its username is answered: the first thing it gets is its
\* own user ID, a refusal or a broadcast that overtook them, never the ID of
\* somebody else; or it is hung up on, or the server is gone.
HungUp(h) == \A f \in Fds : fds[f] # h

LoginAnswered ==
    \A h \in Threads :
        client[h] = "open" ~> \/ first[h] \in {IdOf(Login[h]), Refusal, Package}
                             \/ client[h] = "left" \/ HungUp(h) \/ NoProcess

\* The username of a client that left is freed, within the inactivity limit
\* and the time to reconnect.
NameFreed ==
    \A h \in Threads :
        pc[h] \in Registered /\ client[h] = "left" ~> pc[h] \notin Registered \/ NoProcess

\* After exit the handlers remove themselves and the process ends.
ShutdownCompletes == main = "drain" ~> NoProcess

\* A step of one user's handler hangs up on no client of another user.
HangsUpOwnUser ==
    [][\A h, g \in Threads :
         pc[h] \in Registered /\ pc'[h] # pc[h] /\ ~ HungUp(g) /\ HungUp(g)' =>
            Login[g] = username[h]]_vars
=============================================================================
