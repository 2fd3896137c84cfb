--------------------------- MODULE ClientThreads ---------------------------
(***************************************************************************)
(* The threads of one client: the main thread reads commands, the reader   *)
(* moves messages from the socket to message_queue, the render thread pops *)
(* and executes them and redraws the window.  With --test the render       *)
(* thread runs render_test_loop and there is no window.                    *)
(*                                                                         *)
(* The flags are plain booleans; the build sets no optimisation, so each   *)
(* test of one loads it.  Of the user's commands only show and exit        *)
(* touch this state; the others are sent to the server (Relay!Send).  Two  *)
(* things end the process at once: a text that cannot be rendered, and a   *)
(* command sent to a server that has gone.                                 *)
(***************************************************************************)
EXTENDS Packages, Sequences

CONSTANTS UserId,         \* Client::user_id
          Messages,       \* [BOOLEAN -> what the server sends, by test_flag]
          MaxMessages     \* a bound: how many messages it sends

\* The messages that execute_command changes no draw list for.
Notice == [message_type : {"INVALID", "ERROR", "GENERIC"}]

ASSUME MessagesAssumption ==
    \A test \in BOOLEAN : Messages[test] \subseteq Command \union Bulk \union Notice
ASSUME MaxMessagesAssumption == MaxMessages \in Nat
ASSUME UserIdAssumption == UserId \in Nat

VARIABLES
    \* the socket
    toClient,             \* messages on their way
    sent,                 \* how many the server has sent
    closed,               \* whether the server closed the connection
    \* static members of Client
    test_flag,            \* started with --test; never changes
    kill_flag, is_server_thread_dead, is_render_thread_dead,
    message_queue, draw_list, should_render, current_show,
    \* the process
    crashed,              \* whether a signal has ended it
    \* the threads
    pc,
    message,              \* server_loop's
    package,              \* render_loop's
    window                \* what the last rendering put on the screen

netVars    == <<test_flag, toClient, sent, closed>>
deadVars   == <<is_server_thread_dead, is_render_thread_dead, crashed>>
showVars   == <<should_render, current_show>>
vars == <<netVars, kill_flag, deadVars, message_queue, draw_list, showVars, pc,
          message, package, window>>

Threads == {"main", "reader", "render"}
Filters == {"all", "mine"}

\* What a PB_Package is before and after a parse that fails, as that of
\* the string "Disconnect" does.
Invalid == [message_type |-> "INVALID"]

NoWindow == [items |-> NoItems, show |-> "nothing"]

Init ==
    /\ test_flag \in BOOLEAN
    /\ toClient = <<>> /\ sent = 0 /\ closed = FALSE
    /\ kill_flag = FALSE
    /\ is_server_thread_dead = FALSE
    /\ is_render_thread_dead = FALSE
    /\ crashed = FALSE
    /\ message_queue = <<>>
    /\ draw_list = NoItems
    /\ should_render = TRUE
    /\ current_show = "all"
    /\ pc = [t \in Threads |-> IF t = "render" THEN "start" ELSE "loop"]
    /\ message = Invalid
    /\ package = Invalid
    /\ window = NoWindow

\* The thread is there, as long as the process is.
At(t, label) == ~ crashed /\ pc[t] = label

Goto(t, label) == pc' = [pc EXCEPT ![t] = label]

\* while (!kill_flag) at the head of a thread's loop.
WhileAlive(t, body, end) == Goto(t, IF kill_flag THEN end ELSE body)

-----------------------------------------------------------------------------
(* The server, at the other end of the socket.                             *)

Arrive ==
    /\ ~ closed /\ ~ crashed
    /\ sent < MaxMessages
    /\ \E m \in Messages[test_flag] : toClient' = Append(toClient, Numbered(m, sent))
    /\ sent' = sent + 1
    /\ UNCHANGED <<test_flag, closed, kill_flag, deadVars, message_queue, draw_list,
                   showVars, pc, message, package, window>>

HangUp ==
    /\ ~ closed /\ ~ crashed
    /\ closed' = TRUE
    /\ UNCHANGED <<test_flag, toClient, sent, kill_flag, deadVars, message_queue,
                   draw_list, showVars, pc, message, package, window>>

-----------------------------------------------------------------------------
(* The reader: server_loop.                                                *)

ReaderLoop ==
    /\ At("reader", "loop")
    /\ WhileAlive("reader", "poll", "end")
    /\ UNCHANGED <<netVars, kill_flag, deadVars, message_queue, draw_list,
                   showVars, message, package, window>>

\* poll finds nothing within 100 ms.
ReaderTimeout ==
    /\ At("reader", "poll")
    /\ toClient = <<>> /\ ~ closed
    /\ Goto("reader", "loop")
    /\ UNCHANGED <<netVars, kill_flag, deadVars, message_queue, draw_list,
                   showVars, message, package, window>>

ReaderError ==
    /\ At("reader", "poll")
    /\ kill_flag' = TRUE
    /\ Goto("reader", "end")
    /\ UNCHANGED <<netVars, deadVars, message_queue, draw_list, showVars,
                   message, package, window>>

Receive ==
    /\ At("reader", "poll")
    /\ toClient # <<>>
    /\ message' = Head(toClient)
    /\ toClient' = Tail(toClient)
    /\ Goto("reader", "push")
    /\ UNCHANGED <<test_flag, sent, closed, kill_flag, deadVars, message_queue,
                   draw_list, showVars, package, window>>

\* recieve_message returns "Disconnect": the client ends, but that string is
\* queued like a message.
ReceiveEnd ==
    /\ At("reader", "poll")
    /\ toClient = <<>> /\ closed
    /\ message' = Invalid
    /\ kill_flag' = TRUE
    /\ Goto("reader", "push")
    /\ UNCHANGED <<netVars, deadVars, message_queue, draw_list, showVars,
                   package, window>>

Push ==
    /\ At("reader", "push")
    /\ message_queue' = Append(message_queue, message)
    /\ Goto("reader", "loop")
    /\ UNCHANGED <<netVars, kill_flag, deadVars, draw_list, showVars, message,
                   package, window>>

ReaderEnd ==
    /\ At("reader", "end")
    /\ is_server_thread_dead' = TRUE
    /\ Goto("reader", "dead")
    /\ UNCHANGED <<netVars, kill_flag, is_render_thread_dead, crashed, message_queue,
                   draw_list, showVars, message, package, window>>

Reader ==
    \/ ReaderLoop \/ ReaderTimeout \/ ReaderError
    \/ Receive \/ ReceiveEnd \/ Push \/ ReaderEnd

-----------------------------------------------------------------------------
(* The render thread: render_loop, or render_test_loop.                    *)

\* The window, or its font, may be unavailable.
Setup ==
    /\ At("render", "start")
    /\ \/ UNCHANGED kill_flag
       \/ ~ test_flag /\ kill_flag' = TRUE
    /\ Goto("render", "loop")
    /\ UNCHANGED <<netVars, deadVars, message_queue, draw_list, showVars,
                   message, package, window>>

RenderLoop ==
    /\ At("render", "loop")
    /\ WhileAlive("render", "drain", "end")
    /\ UNCHANGED <<netVars, kill_flag, deadVars, message_queue, draw_list,
                   showVars, message, package, window>>

\* Mutants of Pop: the newest message is popped; a single one is left alone.
PopNewest ==
    /\ At("render", "drain")
    /\ message_queue # <<>>
    /\ package' = message_queue[Len(message_queue)]
    /\ message_queue' = SubSeq(message_queue, 1, Len(message_queue) - 1)
    /\ Goto("render", "execute")
    /\ UNCHANGED <<netVars, kill_flag, deadVars, draw_list, showVars, message,
                   window>>

PopAllButOne ==
    /\ At("render", "drain")
    /\ Len(message_queue) > 1
    /\ package' = Head(message_queue)
    /\ message_queue' = Tail(message_queue)
    /\ Goto("render", "execute")
    /\ UNCHANGED <<netVars, kill_flag, deadVars, draw_list, showVars, message,
                   window>>

\* The queue is not empty: its front is popped and parsed.
Pop ==
    /\ At("render", "drain")
    /\ message_queue # <<>>
    /\ package' = Head(message_queue)
    /\ message_queue' = Tail(message_queue)
    /\ Goto("render", "execute")
    /\ UNCHANGED <<netVars, kill_flag, deadVars, draw_list, showVars, message,
                   window>>

\* Mutant of ExecutePackage: a bulk message does not ask for a rendering.
ExecuteSilently ==
    /\ draw_list' = Execute(draw_list, package)
    /\ should_render' = (should_render \/ package \notin Notice \union Bulk)
    /\ kill_flag' = (kill_flag \/ package.message_type = "ERROR")
    /\ UNCHANGED <<netVars, deadVars, message_queue, current_show, message,
                   package, window>>

\* execute_command, but for the label it leads to.
ExecutePackage ==
    /\ draw_list' = Execute(draw_list, package)
    /\ should_render' = (should_render \/ package \notin Notice)
    /\ kill_flag' = (kill_flag \/ package.message_type = "ERROR")
    /\ UNCHANGED <<netVars, deadVars, message_queue, current_show, message,
                   package, window>>

ExecuteCommand ==
    /\ At("render", "execute")
    /\ ExecutePackage
    /\ Goto("render", "drain")

\* render_test_loop executes the last package again when the queue is empty.
ExecuteAgain ==
    /\ At("render", "drain")
    /\ message_queue = <<>>
    /\ test_flag
    /\ ExecutePackage
    /\ Goto("render", "loop")

\* poll_sdl: the window was closed, or moved or resized, or nothing happened.
PollSdl ==
    /\ At("render", "drain")
    /\ message_queue = <<>>
    /\ ~ test_flag
    /\ \E closing, changed \in BOOLEAN :
          /\ kill_flag' = (kill_flag \/ closing)
          /\ should_render' = (should_render \/ changed)
    /\ Goto("render", "render")
    /\ UNCHANGED <<netVars, deadVars, message_queue, draw_list, current_show,
                   message, package, window>>

\* What generate_and_render draws with this filter.
Picture(show) == Rendered(draw_list, IF show = "all" THEN Everyone ELSE UserId)

\* There is no surface for an empty text, which render_draw_item does not check.
Unrenderable(items) == \E id \in DOMAIN items : items[id].shape = EmptyText

RenderCrash ==
    /\ At("render", "render")
    /\ should_render /\ Unrenderable(Picture(current_show))
    /\ crashed' = TRUE
    /\ UNCHANGED <<netVars, kill_flag, is_server_thread_dead, is_render_thread_dead,
                   message_queue, draw_list, showVars, pc, message, package, window>>

\* if (should_render): generate_and_render.
Render ==
    /\ At("render", "render")
    /\ should_render => ~ Unrenderable(Picture(current_show))
    /\ window' = IF should_render
                 THEN [items |-> Picture(current_show), show |-> current_show]
                 ELSE window
    /\ Goto("render", "reset")
    /\ UNCHANGED <<netVars, kill_flag, deadVars, message_queue, draw_list,
                   showVars, message, package>>

Reset ==
    /\ At("render", "reset")
    /\ should_render' = FALSE
    /\ Goto("render", "loop")
    /\ UNCHANGED <<netVars, kill_flag, deadVars, message_queue, draw_list,
                   current_show, message, package, window>>

\* Mutant of RenderEnd: the thread does not say that it ends.
RenderEndSilent ==
    /\ At("render", "end")
    /\ Goto("render", "dead")
    /\ UNCHANGED <<netVars, kill_flag, deadVars, message_queue, draw_list,
                   showVars, message, package, window>>

RenderEnd ==
    /\ At("render", "end")
    /\ is_render_thread_dead' = TRUE
    /\ Goto("render", "dead")
    /\ UNCHANGED <<netVars, kill_flag, is_server_thread_dead, crashed, message_queue,
                   draw_list, showVars, message, package, window>>

RenderThread ==
    \/ Setup \/ RenderLoop \/ Pop \/ ExecuteCommand \/ ExecuteAgain
    \/ PollSdl \/ Render \/ RenderCrash \/ Reset \/ RenderEnd

-----------------------------------------------------------------------------
(* The main thread: client_loop.                                           *)

MainLoop ==
    /\ At("main", "loop")
    /\ WhileAlive("main", "poll", "wait")
    /\ UNCHANGED <<netVars, kill_flag, deadVars, message_queue, draw_list,
                   showVars, message, package, window>>

\* No input, or a command that does not touch this state.
MainTimeout ==
    /\ At("main", "poll")
    /\ Goto("main", "loop")
    /\ UNCHANGED <<netVars, kill_flag, deadVars, message_queue, draw_list,
                   showVars, message, package, window>>

\* The user's command is sent, without MSG_NOSIGNAL, to a server that has closed
\* the connection: SIGPIPE may end the client.
BrokenPipe ==
    /\ At("main", "poll")
    /\ closed
    /\ crashed' = TRUE
    /\ UNCHANGED <<netVars, kill_flag, is_server_thread_dead, is_render_thread_dead,
                   message_queue, draw_list, showVars, pc, message, package, window>>

\* The user types exit, or poll fails.
TypeExit ==
    /\ At("main", "poll")
    /\ kill_flag' = TRUE
    /\ Goto("main", "loop")
    /\ UNCHANGED <<netVars, deadVars, message_queue, draw_list, showVars,
                   message, package, window>>

\* handle_show: two assignments, no lock.
TypeShow ==
    /\ At("main", "poll")
    /\ current_show' \in Filters
    /\ Goto("main", "show")
    /\ UNCHANGED <<netVars, kill_flag, deadVars, message_queue, draw_list,
                   should_render, message, package, window>>

ShowCanvas ==
    /\ At("main", "show")
    /\ should_render' = TRUE
    /\ Goto("main", "loop")
    /\ UNCHANGED <<netVars, kill_flag, deadVars, message_queue, draw_list,
                   current_show, message, package, window>>

\* Mutant of Wait: main waits for one of the threads.
WaitForOne ==
    /\ At("main", "wait")
    /\ is_server_thread_dead \/ is_render_thread_dead
    /\ Goto("main", "done")
    /\ UNCHANGED <<netVars, kill_flag, deadVars, message_queue, draw_list,
                   showVars, message, package, window>>

Wait ==
    /\ At("main", "wait")
    /\ is_server_thread_dead /\ is_render_thread_dead
    /\ Goto("main", "done")
    /\ UNCHANGED <<netVars, kill_flag, deadVars, message_queue, draw_list,
                   showVars, message, package, window>>

Main ==
    \/ MainLoop \/ MainTimeout \/ BrokenPipe \/ TypeExit \/ TypeShow
    \/ ShowCanvas \/ Wait

-----------------------------------------------------------------------------
Next == Arrive \/ HangUp \/ Reader \/ RenderThread \/ Main

Spec == Init /\ [][Next]_vars

\* The three threads run; the user and the server need not do anything.
Fairness == WF_vars(Reader) /\ WF_vars(RenderThread) /\ WF_vars(Main)

FairSpec == Spec /\ Fairness

-----------------------------------------------------------------------------
(* Correctness.                                                            *)

Labels == {"start", "loop", "poll", "push", "drain", "execute", "render",
           "reset", "show", "wait", "end", "dead", "done"}

AllMessages == Messages[TRUE] \union Messages[FALSE] \union {Invalid}

AnyMessage == {Numbered(m, id) : m \in AllMessages, id \in 0..MaxMessages}

TypeOK ==
    /\ test_flag \in BOOLEAN
    /\ toClient \in Seq(AnyMessage)
    /\ sent \in 0..MaxMessages
    /\ closed \in BOOLEAN
    /\ kill_flag \in BOOLEAN
    /\ is_server_thread_dead \in BOOLEAN /\ is_render_thread_dead \in BOOLEAN
    /\ crashed \in BOOLEAN
    /\ message_queue \in Seq(AnyMessage)
    /\ should_render \in BOOLEAN /\ current_show \in Filters
    /\ pc \in [Threads -> Labels]
    /\ message \in AnyMessage /\ package \in AnyMessage
    /\ IsDrawList(draw_list) /\ IsDrawList(window.items)
    /\ window.show \in Filters \union {"nothing"}

\* The static objects (draw list, queue, mutexes, socket) are destroyed after
\* client_loop returns: neither thread can use them then, or execute another
\* message while main prints the hash (Main_Client_Thread.cpp:32).
AloneAtReturn ==
    pc["main"] = "done" => pc["reader"] = "dead" /\ pc["render"] = "dead"

\* Unless it is about to be redrawn, the window shows the items of the draw
\* list as it is, all or the user's own, whatever commands and messages come
\* while it is drawn (should_render, Render_Thread.cpp:104-112).
ItemsShown == ~ test_flag /\ ~ should_render => window.items = Picture(window.show)

\* What the two rest on: a thread sets its flag as it ends, main looks at both;
\* and between drawing and the reset of should_render nothing is executed.
FlagsOK ==
    /\ is_server_thread_dead => pc["reader"] = "dead"
    /\ is_render_thread_dead => pc["render"] = "dead"
    /\ pc["main"] = "done" => is_server_thread_dead /\ is_render_thread_dead

DrawnOK ==
    ~ test_flag =>
        (~ should_render \/ pc["render"] = "reset" => window.items = Picture(window.show))

IInv == TypeOK /\ FlagsOK /\ DrawnOK

\* What has arrived and was not executed yet, oldest first.
Inbox ==
    (IF pc["render"] = "execute" THEN <<package>> ELSE <<>>)
      \o message_queue
      \o (IF pc["reader"] = "push" THEN <<message>> ELSE <<>>)
      \o toClient

Promise == INSTANCE Display WITH inbox <- Inbox, client_list <- draw_list,
                                 Messages <- AllMessages,
                                 DrawIds <- 0..MaxMessages

\* Socket, reader, queue and render thread are one inbox: every message is
\* executed once, in the order of arrival, as Relay's Apply has it
\* (render_loop, Render_Thread.cpp:83-94).
ImplementsDisplay == Promise!Spec

\* All that arrives is executed and shown in the end, or the client ends.
EverythingShown ==
    <>[](crashed \/ kill_flag \/ (Inbox = <<>> /\ (test_flag \/ window.items = Picture(window.show))))

\* After exit, a failure, or the server's hanging up, the client terminates.
ClientTerminates == kill_flag \/ closed ~> pc["main"] = "done" \/ crashed
=============================================================================
