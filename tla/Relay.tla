------------------------------- MODULE Relay -------------------------------
(***************************************************************************)
(* The path of a command: from a client over its TCP connection to the     *)
(* handler thread the server runs for it (Server/Client_Handler.cpp), into *)
(* the handler's buffer, onto the server's draw list and out to every      *)
(* connection (Server/Execute_And_Broadcast.cpp), and into the draw list   *)
(* of every client; and the path by which a new client gets on board.      *)
(*                                                                         *)
(* One handler per client, so both are named by the client.  What happens  *)
(* under one mutex is one step, what happens between two is not.  Lost     *)
(* here is only the connection of a client that joins and crashes on its   *)
(* first reply; other losses, reconnections and descriptors that are used  *)
(* again are left to Registry, the frames of a message to Framing, and the *)
(* threads of a client to ClientThreads (here its socket, message_queue    *)
(* and render thread are one FIFO, emptied in order).                      *)
(***************************************************************************)
EXTENDS Packages, Sequences, FiniteSets

CONSTANTS Clients,        \* clients, named by their user IDs
          Started,        \* those connected from the start; the rest join
          MaxCommands     \* bound on the commands issued, all clients together

NoClient == -1

ASSUME ClientsAssumption == Clients \subseteq Nat /\ Started \subseteq Clients
ASSUME MaxCommandsAssumption == MaxCommands \in Nat

VARIABLES
    \* the server
    server,               \* the process is "up" or "down"
    draw_list,            \* Server::draw_list
    glb_draw_id,          \* Server::glb_draw_id
    draw_list_mutex,      \* holder of Server::draw_list_mutex, or NoClient
    connections,          \* whose entries are in Server::connections
    \* the handler threads
    pc,                   \* where each handler is
    messages_buf,         \* its buffered packages
    package,              \* the package in its hands
    \* connections and clients
    toServer, inbox,      \* packages on their way to the handler, to the client
    state,                \* "connecting", "running" or "crashed"
    client_list,          \* Client::draw_list
    issued,               \* how many commands were issued
    \* history
    history               \* the draw list after each broadcast package in turn

serverVars  == <<server, draw_list, glb_draw_id, draw_list_mutex, connections>>
handlerVars == <<pc, messages_buf, package>>
clientVars  == <<state, client_list, issued>>
netVars     == <<toServer, inbox>>
vars == <<serverVars, handlerVars, clientVars, netVars, history>>

NoPackage == [message_type |-> "INVALID"]

IdReply(user_id) == [message_type |-> "ID", user_id |-> user_id]

Init ==
    /\ server = "up"
    /\ draw_list = NoItems
    /\ glb_draw_id = 0
    /\ draw_list_mutex = NoClient
    /\ connections = Started
    /\ pc = [c \in Clients |-> IF c \in Started THEN "poll" ELSE "login"]
    /\ messages_buf = [c \in Clients |-> <<>>]
    /\ package = [c \in Clients |-> NoPackage]
    /\ toServer = [c \in Clients |-> <<>>]
    /\ inbox = [c \in Clients |-> <<>>]
    /\ state = [c \in Clients |-> IF c \in Started THEN "running" ELSE "connecting"]
    /\ client_list = [c \in Clients |-> NoItems]
    /\ issued = 0
    /\ history = <<NoItems>>

Board == history[Len(history)]

Goto(c, label) == pc' = [pc EXCEPT ![c] = label]

\* What is sent to a client that has crashed gets nowhere.
Delivered(c, p) == IF state[c] = "crashed" THEN inbox[c] ELSE Append(inbox[c], p)

SendTo(c, p) == inbox' = [inbox EXCEPT ![c] = Delivered(c, p)]

-----------------------------------------------------------------------------
(* The client.                                                             *)

\* The main thread parses a command and sends the package.
Send(c) ==
    /\ state[c] = "running"
    /\ issued < MaxCommands
    /\ \E p \in Issuable(c) : toServer' = [toServer EXCEPT ![c] = Append(@, p)]
    /\ issued' = issued + 1
    /\ UNCHANGED <<serverVars, handlerVars, state, client_list, inbox, history>>

\* connect_to_server: the first message must be the user ID.  Anything else
\* makes std::stoi throw, and nobody catches it: the process ends, its socket
\* is closed, and what waited there is dropped.
FirstReply(c) ==
    /\ state[c] = "connecting"
    /\ inbox[c] # <<>>
    /\ LET isID == Head(inbox[c]).message_type = "ID"
       IN  /\ state' = [state EXCEPT ![c] = IF isID THEN "running" ELSE "crashed"]
           /\ inbox' = [inbox EXCEPT ![c] = IF isID THEN Tail(@) ELSE <<>>]
    /\ UNCHANGED <<serverVars, handlerVars, toServer, client_list, issued, history>>

\* The reader thread queues the message, the render thread executes it.
Apply(c) ==
    /\ state[c] = "running"
    /\ inbox[c] # <<>>
    /\ client_list' = [client_list EXCEPT ![c] = Execute(@, Head(inbox[c]))]
    /\ inbox' = [inbox EXCEPT ![c] = Tail(@)]
    /\ UNCHANGED <<serverVars, handlerVars, toServer, state, issued, history>>

-----------------------------------------------------------------------------
(* The handler of a client that joins.                                     *)

\* create_new_user: from here on, broadcasts go to the new connection too.
Register(c) ==
    /\ pc[c] = "login"
    /\ connections' = connections \union {c}
    /\ Goto(c, "reply")
    /\ UNCHANGED <<server, draw_list, glb_draw_id, draw_list_mutex, messages_buf,
                   package, clientVars, netVars, history>>

\* The rest of check_client: the client is told its user ID.
SendId(c) ==
    /\ pc[c] = "reply"
    /\ SendTo(c, IdReply(c))
    /\ Goto(c, "serialize")
    /\ UNCHANGED <<serverVars, messages_buf, package, clientVars, toServer, history>>

\* The draw list is serialized under its own access_mutex only: neither
\* draw_list_mutex nor connections_mutex is held, here or for the send.
SerializeBulk(c) ==
    /\ pc[c] = "serialize"
    /\ package' = [package EXCEPT ![c] = BulkPackage(Serialize(draw_list))]
    /\ Goto(c, "bulk")
    /\ UNCHANGED <<serverVars, messages_buf, clientVars, netVars, history>>

SendBulk(c) ==
    /\ pc[c] = "bulk"
    /\ SendTo(c, package[c])
    /\ package' = [package EXCEPT ![c] = NoPackage]
    /\ Goto(c, "poll")
    /\ UNCHANGED <<serverVars, messages_buf, clientVars, toServer, history>>

-----------------------------------------------------------------------------
(* The loop of client_handler.                                             *)

\* Mutant of Receive: the counter is read and stored back without draw_mutex,
\* so that an INSERT may be given the ID before.
ReceiveUnlocked(c) ==
    /\ pc[c] = "poll"
    /\ toServer[c] # <<>>
    /\ \E id \in {glb_draw_id, IF glb_draw_id > 0 THEN glb_draw_id - 1 ELSE 0} :
          messages_buf' = [messages_buf EXCEPT
                             ![c] = Append(@, Numbered(Head(toServer[c]), id))]
    /\ glb_draw_id' = IF IsInsert(Head(toServer[c])) THEN glb_draw_id + 1 ELSE glb_draw_id
    /\ toServer' = [toServer EXCEPT ![c] = Tail(@)]
    /\ UNCHANGED <<server, draw_list, draw_list_mutex, connections, pc, package,
                   clientVars, inbox, history>>

\* Poll finds a message: it is read, an INSERT gets the next draw ID (under
\* draw_mutex), and it goes to the end of the buffer.
Receive(c) ==
    /\ pc[c] = "poll"
    /\ toServer[c] # <<>>
    /\ messages_buf' = [messages_buf EXCEPT
                          ![c] = Append(@, Numbered(Head(toServer[c]), glb_draw_id))]
    /\ glb_draw_id' = IF IsInsert(Head(toServer[c])) THEN glb_draw_id + 1 ELSE glb_draw_id
    /\ toServer' = [toServer EXCEPT ![c] = Tail(@)]
    /\ UNCHANGED <<server, draw_list, draw_list_mutex, connections, pc, package,
                   clientVars, inbox, history>>

\* Poll finds nothing to read, and there is something in the buffer.
PollIdle(c) ==
    /\ pc[c] = "poll"
    /\ toServer[c] = <<>>
    /\ messages_buf[c] # <<>>
    /\ Goto(c, "try")
    /\ UNCHANGED <<serverVars, messages_buf, package, clientVars, netVars, history>>

\* try_lock_for gets draw_list_mutex, and the first buffered package is taken.
TryLock(c) ==
    /\ pc[c] = "try"
    /\ draw_list_mutex = NoClient
    /\ draw_list_mutex' = c
    /\ package' = [package EXCEPT ![c] = Head(messages_buf[c])]
    /\ messages_buf' = [messages_buf EXCEPT ![c] = Tail(@)]
    /\ Goto(c, "execute")
    /\ UNCHANGED <<server, draw_list, glb_draw_id, connections, clientVars, netVars,
                   history>>

\* Mutant of TryLockTimeout: the package was popped before the lock was tried.
TryLockTimeoutPopped(c) ==
    /\ pc[c] = "try"
    /\ draw_list_mutex # NoClient
    /\ messages_buf' = [messages_buf EXCEPT ![c] = Tail(@)]
    /\ Goto(c, "poll")
    /\ UNCHANGED <<serverVars, package, clientVars, netVars, history>>

\* try_lock_for gives up after MUTEX_TIMEOUT: back to the poll.
TryLockTimeout(c) ==
    /\ pc[c] = "try"
    /\ draw_list_mutex # NoClient
    /\ Goto(c, "poll")
    /\ UNCHANGED <<serverVars, messages_buf, package, clientVars, netVars, history>>

\* Mutant of ExecuteUnlock: the mutex is not released.
ExecuteKeepLock(c) ==
    /\ pc[c] = "execute"
    /\ draw_list' = Execute(draw_list, package[c])
    /\ Goto(c, "broadcast")
    /\ UNCHANGED <<server, glb_draw_id, draw_list_mutex, connections, messages_buf,
                   package, clientVars, netVars, history>>

\* The package is executed on the server's draw list, and the mutex released.
ExecuteUnlock(c) ==
    /\ pc[c] = "execute"
    /\ draw_list' = Execute(draw_list, package[c])
    /\ draw_list_mutex' = NoClient
    /\ Goto(c, "broadcast")
    /\ UNCHANGED <<server, glb_draw_id, connections, messages_buf, package,
                   clientVars, netVars, history>>

\* Mutant of Broadcast: the sender is left out.
BroadcastToOthers(c) ==
    /\ pc[c] = "broadcast"
    /\ inbox' = [d \in Clients |-> IF d \in connections \ {c}
                                   THEN Delivered(d, package[c])
                                   ELSE inbox[d]]
    /\ history' = Append(history, Execute(Board, package[c]))
    /\ package' = [package EXCEPT ![c] = NoPackage]
    /\ Goto(c, "poll")
    /\ UNCHANGED <<serverVars, messages_buf, clientVars, toServer>>

\* broadcast_message: one send per connection, all under connections_mutex.
Broadcast(c) ==
    /\ pc[c] = "broadcast"
    /\ inbox' = [d \in Clients |-> IF d \in connections
                                   THEN Delivered(d, package[c])
                                   ELSE inbox[d]]
    /\ history' = Append(history, Execute(Board, package[c]))
    /\ package' = [package EXCEPT ![c] = NoPackage]
    /\ Goto(c, "poll")
    /\ UNCHANGED <<serverVars, messages_buf, clientVars, toServer>>

-----------------------------------------------------------------------------
(* A client that has crashed.                                              *)

\* receive_message finds the end of the stream, and disconnect_user closes the
\* socket; the entry stays, for a reconnection.
Disconnect(c) ==
    /\ pc[c] = "poll"
    /\ state[c] = "crashed" /\ toServer[c] = <<>>
    /\ Goto(c, "wait")
    /\ UNCHANGED <<serverVars, messages_buf, package, clientVars, netVars, history>>

\* Nobody has reconnected for RECONNECT_TIME seconds.
Remove(c) ==
    /\ pc[c] = "wait"
    /\ connections' = connections \ {c}
    /\ Goto(c, "dead")
    /\ UNCHANGED <<server, draw_list, glb_draw_id, draw_list_mutex, messages_buf,
                   package, clientVars, netVars, history>>

\* The connection to d is still open here but closed at the other end.
Broken(d) == state[d] = "crashed" /\ pc[d] \in {"reply", "bulk", "serialize", "poll"}

\* send is called without MSG_NOSIGNAL: on a broken connection it may raise
\* SIGPIPE, which ends the server, in the middle of a broadcast perhaps.
BrokenPipe(c) ==
    /\ \/ /\ pc[c] \in {"reply", "bulk"} /\ Broken(c)
          /\ UNCHANGED inbox
       \/ /\ pc[c] = "broadcast"
          /\ \E d \in connections : Broken(d)
          /\ \E reached \in SUBSET connections :
                inbox' = [d \in Clients |-> IF d \in reached
                                            THEN Delivered(d, package[c])
                                            ELSE inbox[d]]
    /\ server' = "down"
    /\ UNCHANGED <<draw_list, glb_draw_id, draw_list_mutex, connections,
                   handlerVars, clientVars, toServer, history>>

-----------------------------------------------------------------------------
Client(c) == Send(c) \/ FirstReply(c) \/ Apply(c)

\* Handlers live as long as the server.
Join(c) ==
    /\ server = "up"
    /\ Register(c) \/ SendId(c) \/ SerializeBulk(c) \/ SendBulk(c)

Loop(c) ==
    /\ server = "up"
    /\ \/ Receive(c) \/ PollIdle(c) \/ TryLock(c) \/ TryLockTimeout(c)
       \/ ExecuteUnlock(c) \/ Broadcast(c) \/ Disconnect(c) \/ Remove(c)

Die(c) == server = "up" /\ BrokenPipe(c)

Next == \E c \in Clients : Client(c) \/ Join(c) \/ Loop(c) \/ Die(c)

Spec == Init /\ [][Next]_vars

\* Every thread that can go on does: one handler thread per client, the reader
\* and render threads of every client.  Users need not type anything.
Fairness ==
    \A c \in Clients :
        /\ WF_vars(Join(c)) /\ WF_vars(Loop(c))
        /\ WF_vars(FirstReply(c)) /\ WF_vars(Apply(c))

FairSpec == Spec /\ Fairness

-----------------------------------------------------------------------------
(* Correctness.                                                            *)

Labels == {"login", "reply", "serialize", "bulk", "poll", "try", "execute", "broadcast",
           "wait", "dead"}

IsSequence(s) == s \in Seq({s[k] : k \in DOMAIN s})

Message == Command \union Bulk \union [message_type : {"ID"}, user_id : Int]

TypeOK ==
    /\ server \in {"up", "down"}
    /\ IsDrawList(draw_list)
    /\ glb_draw_id \in Nat
    /\ draw_list_mutex \in Clients \union {NoClient}
    /\ connections \subseteq Clients
    /\ pc \in [Clients -> Labels]
    /\ messages_buf \in [Clients -> Seq(Command)]
    /\ package \in [Clients -> Command \union Bulk \union {NoPackage}]
    /\ toServer \in [Clients -> Seq(Command)]
    /\ inbox \in [Clients -> Seq(Message)]
    /\ \A c \in Clients :
          /\ pc[c] \in {"execute", "broadcast"} => package[c] \in Command
          /\ pc[c] = "bulk" => package[c] \in Bulk
    /\ state \in [Clients -> {"connecting", "running", "crashed"}]
    /\ DOMAIN client_list = Clients
    /\ \A c \in Clients : IsDrawList(client_list[c])
    /\ issued \in 0..MaxCommands
    /\ IsSequence(history) /\ history # <<>>
    /\ \A k \in DOMAIN history : IsDrawList(history[k])

\* What a handler holds of its client's commands: the package in its hands
\* (slot 0) and its buffer.
Slots(c) ==
    DOMAIN messages_buf[c] \union
      {k \in {0} : pc[c] \in {"execute", "broadcast"}}

Slot(c, k) == IF k = 0 THEN package[c] ELSE messages_buf[c][k]

\* No other slot of a handler has an INSERT with this slot's draw ID.
SoleHolder(c, k) ==
    \A d \in Clients : \A l \in Slots(d) :
        /\ IsInsert(Slot(d, l))
        /\ Slot(d, l).draw_data.draw_id = Slot(c, k).draw_data.draw_id
        => d = c /\ l = k

\* A handler about to execute an INSERT puts an item on the draw list, it never
\* overwrites one: no other handler holds an INSERT with its draw ID, and the
\* ID is on no board of the past, so no edit or delete meant for another item
\* can hit it either (glb_draw_id under draw_mutex, Client_Handler.cpp:71-76).
DrawIdsFresh ==
    \A c \in Clients : pc[c] = "execute" /\ IsInsert(package[c]) =>
        LET id == package[c].draw_data.draw_id
        IN  /\ id \notin DOMAIN draw_list
            /\ \A k \in DOMAIN history : id \notin DOMAIN history[k]
            /\ SoleHolder(c, 0)

\* As long as the server lives, a client connected from the start that has
\* executed all it was sent shows the board every other such client shows or
\* will show, whoever joins meanwhile, gets on board or crashes
\* (broadcast_message, under connections_mutex).
ClientsAgree ==
    server = "up" => \A c \in Started : inbox[c] = <<>> => client_list[c] = Board

\* When no executed package waits to be broadcast, the server's draw list is
\* the one its clients show, so that bulk messages bring a client to where the
\* others are.  Execution and broadcast are two separate critical sections
\* (Execute_And_Broadcast.cpp:60-64): it holds for commands that commute.
ServerMatchesClients ==
    server = "up" /\ (\A c \in Clients : pc[c] # "broadcast") =>
        \A c \in Started : inbox[c] = <<>> => client_list[c] = draw_list

\* A client that joined, loaded the bulk message and executed all it was sent
\* shows the server's draw list (Client_Handler.cpp:27-30).
JoinersCatchUp ==
    server = "up" /\ (\A c \in Clients : pc[c] # "broadcast") =>
        \A c \in Clients \ Started :
            state[c] = "running" /\ pc[c] = "poll" /\ inbox[c] = <<>> =>
                client_list[c] = draw_list

\* The order in which a handler executes its client's commands.
Held(c) ==
    (IF pc[c] \in {"execute", "broadcast"} THEN <<package[c]>> ELSE <<>>)
      \o messages_buf[c]

\* The relay is a whiteboard: with every client connected, each command goes
\* from the client that issued it to the board exactly once and in order, and
\* from the board to every client, and it gets there.
Unnumbered(p) == IF IsInsert(p) THEN Numbered(p, 0) ELSE p

Pending(c) ==
    LET all == Held(c) \o toServer[c]
    IN  [k \in DOMAIN all |-> Unnumbered(all[k])]

WB == INSTANCE Whiteboard WITH
        DrawIds <- 0..MaxCommands,
        pending <- [c \in Clients |-> Pending(c)],
        pos     <- [c \in Clients |-> Len(history) - Len(inbox[c])],
        shown   <- client_list

ImplementsWhiteboard == WB!Spec
EveryCommandArrives  == WB!Fairness

-----------------------------------------------------------------------------
(* What makes the invariants inductive.                                    *)

\* The handler that holds the mutex is the one about to execute; one that is
\* about to try for it has something to take.
LockOK ==
    \A c \in Clients :
        /\ pc[c] = "execute" <=> draw_list_mutex = c
        /\ pc[c] = "try" => messages_buf[c] # <<>>

\* All draw IDs in use were given out by the counter; an INSERT that waits for
\* execution or broadcast has its ID for itself.
IdsOK ==
    /\ \A i \in DOMAIN draw_list : i < glb_draw_id
    /\ \A k \in DOMAIN history : \A i \in DOMAIN history[k] : i < glb_draw_id
    /\ \A c \in Clients : \A k \in Slots(c) : IsInsert(Slot(c, k)) =>
          LET id == Slot(c, k).draw_data.draw_id
          IN  /\ id < glb_draw_id
              /\ id \in DOMAIN draw_list => k = 0 /\ pc[c] = "broadcast"
              /\ \A j \in DOMAIN history : id \notin DOMAIN history[j]
              /\ SoleHolder(c, k)

\* Every client connected from the start shows a board of the past, and its
\* inbox leads from there to the present one, unless the server went down in
\* the middle of a broadcast.
Behind(c) == Len(history) - Len(inbox[c])

InOrder ==
    \A c \in Started :
        /\ c \in connections /\ state[c] = "running"
        /\ pc[c] \in {"poll", "try", "execute", "broadcast"}
        /\ Behind(c) >= 1 /\ client_list[c] = history[Behind(c)]
        /\ \A i \in 1..Len(inbox[c]) :
              history[Behind(c) + i] = Execute(history[Behind(c) + i - 1], inbox[c][i])

\* Only a client that joined and crashed can have brought the server down.
DownOK == server = "down" => \E c \in Clients \ Started : state[c] = "crashed"

IInv == TypeOK /\ LockOK /\ IdsOK /\ (server = "up" => InOrder) /\ DownOK

\* Users who only draw, undo and clear what is theirs.  Their packages concern
\* items of their own, or add an empty item, which nobody can take back.
OwnKinds == {"draw", "undo", "clear_mine"}

OwnPackage(c, p) ==
    \/ IsInsert(p) /\ p.draw_data.user_id \in {c, Everyone}
    \/ p.message_type \in {"UNDO", "CLEAR"} /\ p.user_id = c

OwnOnly ==
    \A c \in Clients :
        /\ \A k \in Slots(c) : OwnPackage(c, Slot(c, k))
        /\ \A k \in DOMAIN toServer[c] : OwnPackage(c, toServer[c][k])

\* The server's draw list is the board with the items that executed packages
\* have added but not broadcast yet, and without those they have taken away.
OwnItems(m, c) == {item \in Serialize(m) : item.user_id = c}

Adds(p) == IF IsInsert(p) THEN {p.draw_data} ELSE {}

Removes(p, own) ==
    CASE p.message_type = "CLEAR" -> own
      [] p.message_type = "UNDO"  -> {x \in own : \A y \in own : y.draw_id <= x.draw_id}
      [] OTHER                    -> {}

Added(c)   == IF pc[c] = "broadcast" THEN Adds(package[c]) ELSE {}
Removed(c) == IF pc[c] = "broadcast" THEN Removes(package[c], OwnItems(Board, c)) ELSE {}

Ahead ==
    Serialize(draw_list) =
        (Serialize(Board) \ UNION {Removed(c) : c \in Clients})
          \union UNION {Added(c) : c \in Clients}

OwnIInv == IInv /\ OwnOnly /\ Ahead

\* No more draw IDs have been given out than INSERTs issued: a command is still
\* on its way to its handler, or it has been counted.
OnTheWay == UNION {{c} \X DOMAIN toServer[c] : c \in Clients}

CountOK ==
    /\ IsFiniteSet(OnTheWay)
    /\ glb_draw_id + Cardinality(OnTheWay) <= issued
=============================================================================
