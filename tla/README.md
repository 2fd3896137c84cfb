# Net Sketch: specifications

Net Sketch is a shared whiteboard: a server keeps a *draw list*, clients send
commands (draw, edit, delete, undo, clear), the server executes each command on its
own list and broadcasts it, and every client executes what it is sent.  This
directory holds TLA+ models of that program, configurations that check them with
TLC, and proofs that TLAPS checks.  Paths below are relative to the repository.

## The system

| Part | Code | State | Operations |
|---|---|---|---|
| Draw list | `Common/DrawList.cpp` | `data_map` (draw ID to item), `access_mutex` | insert, erase, edit, clear, undo, serialize, load; list, add_to_renderer, generate_hash only read |
| Packages | `Common/Serialize/Serialize.proto`, `Client/User_Functionality/Parse_Input.cpp`, `Create.cpp`, `Execute_Command.cpp` | the client's `current_tool`, `current_colour`, `select_id` | one handler per command, at most one package per line; one effect on a draw list per package |
| Handler thread, one per connection | `Server/Client_Handler.cpp`, `Execute_And_Broadcast.cpp` | `messages_buf`, `fds`, `connection` on its stack | log-in, poll loop, buffer, number, execute, broadcast, inactivity, reconnection |
| Shared state of the server | `Server/Server.cpp`, `Thread_Functions.cpp` | `draw_list`, `glb_draw_id`, `user_id_rec`, `connections`, three mutexes, `server_kill_flag` | create, reconnect, disconnect, remove a user; broadcast |
| Main thread of the server | `Server/Server_Main.cpp` | | accept, start a handler, exit |
| Client threads | `Client/Main_Client_Thread.cpp`, `Message_Reader_Thread.cpp`, `Render_Thread.cpp` | `message_queue`, `draw_list`, `should_render`, `current_show`, `kill_flag`, two flags for ended threads | read commands, queue messages, execute and render them, terminate |
| Framing | `send_message`, `receive_message` (both sides) | bytes in the socket | length prefix, chunks of at most 1024 bytes, each a send or recv of its own |
| Lexer | `Client/Lexer` | transition table, token map | tokens of a line by maximal munch |
| Window | `Client/User_Functionality/Handle_SDL.cpp` | SDL objects | events, drawing |

How the parts interact.  Clients and server exchange packages over one TCP
connection each.  Within the server, handler threads share the draw list
(`draw_list_mutex`, taken with a timeout), the counter of draw IDs (`draw_mutex`), the
map of connections (`connections_mutex`, which points to objects on the handlers'
stacks), and the counter of user IDs (no lock).  Within a client, three threads share a
queue, the draw list and flags.  Every message goes through `send_message` and `receive_message`, which
several threads of the server call for one socket, and every command through the lexer and
`parse_input`.

What is hard.  Execution and broadcast of a command are two critical sections.  A
client joins while others draw: registration, user ID and bulk message are three
steps.  Connections are lost, time out, come back under the same name on another
descriptor.  A client's threads tell each other by plain flags what is to be drawn, and
that they end.  Look-ups and what is done about them are different critical sections.
Descriptors are closed twice and used again.  The end of the server waits for threads
that wait for clients.  Messages are cut into sends, and recv cuts them again; a broadcast holds the
mutex of the connections while it waits for slow clients.  `PROJECT.json` lists these hazards one by one, at their lines.

What makes each part correct:

- draw list: every item under its own ID; bulk messages restore the list; undo takes
  back the user's last draw and nothing else; which commands commute.
- relay: no draw ID is used twice; each command is executed exactly once and in its
  client's order, and gets to everybody; all displays run through the same states.
- connections: the map never points to a dead stack; one handler per user; log-ins are
  answered, names freed, the shutdown completes; nobody hangs up on somebody else.
- client: what arrives is executed once, in order, and shown; the window is never behind
  the draw list unnoticed; the client terminates, and its threads before it.
- framing: what `receive_message` returns is what was given to `send_message`, whole, once and in
  order; broadcasts end.
- command line: the lexer finds the tokens that are there; whatever is typed, what is sent is an item
  of the user's own, the empty item, or IDs (`Issuable`), and a selection is used once.

## The modules

| Module | What it is |
|---|---|
| `DrawList` | the operations of the draw list, as operators from map to map |
| `Packages` | packages, what a user's commands put into them, what executing one does |
| `OneDrawList` | one list under any sequence of commands; the laws the rest relies on |
| `Whiteboard` | abstract: one board with a history, that clients change and display |
| `Relay` | handler threads, buffers, mutexes and connections, for commands and joins; refines `Whiteboard` |
| `Registry` | main thread and handlers with log-in, loss, reconnection, removal, descriptors, shutdown |
| `Display` | abstract: a client as one FIFO of messages in front of a draw list |
| `ClientThreads` | a client's main, reader and render thread, queue, flags, window, `--test`; refines `Display` |
| `Channel` | abstract: messages under way in one direction of a connection, and its end |
| `Framing` | the bytes of that: lengths and chunks of several threads, the mutex, partial reads, loss; refines `Channel` |
| `Lexer` | automaton, scanner and tokens, and maximal munch without an automaton, as operators |
| `Commands` | the client's main thread, line by line: lexer, `parse_input` and its handlers, as the source of packages |
| `DrawListLaws` | lemmas about `DrawList` and `Packages` |
| `OneDrawListProofs`, `RelayProofs`, `RegistryProofs`, `ClientThreadsProofs`, `LexerProofs`, `CommandsProofs`, `FramingProofs` | theorems |
| `MCOneDrawList`, `MCRelay`, `MCRegistry`, `MCClientThreads`, `MCCommands`, `MCFraming` | values of the constants for TLC |

`Relay`, `ClientThreads` and `Commands` extend `Packages`, which extends `DrawList`; `Commands` also
extends `Lexer`.  `Relay` instantiates `Whiteboard`, `ClientThreads` instantiates `Display`, `Framing`
instantiates `Channel`.  The models meet at three interfaces.  Packages: `Relay` and `OneDrawList` let
users issue any package of `Issuable`; `SentIsIssuable` of `Commands` says that no line makes the
client send another.  Messages: `Relay`, `Registry` and `ClientThreads` take a connection to be a
sequence of messages, which is `Channel`; `Framing` says how far the code makes it so.  Displays:
`Relay` and `ClientThreads` meet in `Display`: a client of `Relay` is an
inbox and a draw list with one action `Apply`, which is `Display!Apply`; `ClientThreads` shows that
socket, reader, queue and render thread amount to that.
A handler and its client bear one name, the user ID in `Relay`, a number in `Registry`.

### Granularity

What one critical section does is one step, and so is what a thread does on its own
between two.  In `Relay`: `TryLock` is `try_lock_for` and the pop,
`ExecuteUnlock` the switch and the unlock, `Broadcast` is `broadcast_message`, which holds
`connections_mutex` for all its sends.  `SerializeBulk` and `SendBulk` are two steps,
because no lock is held across them.  `history`, the draw list after each broadcast, is
the only variable that is not in the code; no guard reads it.  In `Registry` the unlocked `user_id_rec++` is a
load and a store; `remove_user` is two critical sections; `Return` is main's leaving of `server_loop`, while
handlers go on, and `End` the end of the process; of a client only the first message it gets is kept, because
it takes that for its ID, and a broadcast may come to everybody in the map at any time; a descriptor is the lowest
free number, as POSIX has it, and a closed one may denote another connection later.
In `ClientThreads` each load or store of a flag that other threads use is a step of its own (`show` makes two
assignments, `Render` and `Reset` are two steps).  The flags are plain `bool`s and `CMakeLists.txt` asks for no
optimisation, so each test loads them.  `message_queue.empty()`
compares two pointers, of which `push` changes one with one store: it is early or late, never
wrong, which the order of `Push` and `Pop` covers.  `crashed` is a signal that ends all three threads.
What `Lexer` says of `nextToken` is a closed form: the automaton runs until it fails and the token ends at
the last accepting state of that run.  The code gets there with a stack of states, from which it pops
with the characters; for this function of a line the stack is not modelled.
In `Commands` one step reads and scans a line and one handles it; nothing else touches the
client's tool and selection.  The other threads may end the client between two lines (`Interrupted`).
In `Framing` each `send` and each `recv` is a step, of as many bytes
as the call may take.  `send` blocks while there is no room for all its bytes; a system that takes
them piece by piece does no more, since the receiver may stop between any two bytes anyway.

### Data

Of the `oneof draw_item` only the kind is kept (`Shapes`), and the empty item of
`create_empty` is one of the kinds, because its owner is -1.  Another is the text of no characters
(`EmptyText`), because it cannot be rendered.  Draw IDs are natural numbers, the
counter is 64 bits wide in the code and cannot be exhausted.  The IDs a user types are integers of
either sign (`Targets`).  In `Relay` and `OneDrawList` `select` and the draw that follows are one
command, `edit`; in `Commands` they are the two lines they are.  The window is the items that were
drawn and the filter they were drawn with.
A line is a sequence of characters, of which only the class, the upper-case form and the value of
digits are kept; the keywords are a constant, so that TLC can be given short ones.  A byte of
`Framing` is named by its message and its place in it, so that one that is read in the wrong place
is recognised; which number bytes make that are no length is left open.
"Disconnect", which `server_loop` queues at the end of the stream, is no valid package and
becomes one of type PB_INVALID.  A package is a record; its encoding by
protobuf is an external library.

## The runs

Times are for two workers.

| Run | Instance | Checks |
|---|---|---|
| `one_draw_list` | 2 users, 4 draw IDs, all commands, one real and one empty shape, targets 0 and 2 | `TypeOK`, `BulkRestores`, `UndoRevertsDraw`, `OwnCommandsCommute` |
| `relay_commands` | 2 clients, 3 commands of every kind, fairness (about 1.5 minutes) | `TypeOK`, `DrawIdsFresh`, `ClientsAgree`, `ImplementsWhiteboard`, `EveryCommandArrives` |
| `relay_join` | 2 clients and one that joins, 3 commands: draw, undo, clear mine (about 2 minutes) | `ServerMatchesClients` |
| `registry_reconnect` | 3 connections, names ann, bob, ann; 2 descriptors (about 2 minutes) | `TypeOK`, `NoDanglingEntry`, `OneHandlerPerUser` |
| `registry_distinct` | 2 connections, 2 names, fairness | `LoginAnswered`, `NameFreed`, `ShutdownCompletes` |
| `client_threads` | 2 messages out of a draw, a bulk, an error and, without `--test`, an undo and the draw of an empty text; fairness (about 2.5 minutes) | `TypeOK`, `AloneAtReturn`, `ItemsShown`, `ImplementsDisplay`, `EverythingShown`, `ClientTerminates` |
| `command_line` | all lines of up to 3 characters out of 7, numbers and strings of 4, every command with right and wrong parameters; ints of 5 bits | `TypeOK`, `LexerMunches`, `SentIsIssuable`, `SelectionForNextDraw` |
| `framing` | 2 threads, 3 messages of 1 or 3 bytes, lengths of 2 bytes, chunks of 2, room for 3; fairness | `TypeOK`, `ImplementsChannel`, `EveryMessageArrives`, `BroadcastEnds` |
| `relay_diverges` | 2 clients, draw and edit | finds `ServerMatchesClients` violated |
| `relay_stale_bulk` | 1 client draws, 1 joins | finds `JoinersCatchUp` violated |
| `registry_double_close` | 2 connections, 2 names | finds `HangsUpOwnUser` violated |
| `client_test_loop` | 3 messages, draws and undos | finds `ImplementsDisplay` violated |

The only bounds are `MaxCommands` (a guard of `Send`), `MaxDrawId` (a guard of
`Draw`), `MaxMessages` (a guard of `Arrive`), `MaxSent` (in `MayBegin`) and `MaxGarbage` (the
numbers that bytes out of place may make); every other variable is finite by itself, `user_id_rec` because each connection logs in once.
Three commands are enough for every pair that could conflict (two edits, undo against
clear) after a draw that gives them something to conflict about; the proofs hold for
any number, and every safety property of a passing run has one.  Two messages are enough for one to be executed while the next is on the
socket, with the reader or in the queue; with `--test` the passing run sends no undo, because
of what `client_test_loop` finds: the other messages may be executed again without effect.
Three connections, two under one name, are enough for a reconnection
while another user's connection takes the number of the closed descriptor.  Two descriptors, so that two connections
are open at a time, make numbers be used again at once; the third connection comes when one of the others was closed.
`command_line` runs over the lines in every order, since tool and selection are kept from one to
the next.  Its short lines are every way in which two tokens can meet, its long ones every command
with each kind of parameter in its place, too few and too many of them, and numbers out of range.
In `framing` a length takes two bytes so that half of it can arrive, a long message two chunks so
that something can come between, and the buffers hold less than a message with its length so that
senders block; the third message shows that reading goes on in the right place.
Deadlock is not checked where the program may stop: all commands delivered, or the
server's or the client's main returned, a signal or an exception that ended the process.

### Fairness

`Relay`: weak fairness of every handler's loop, of every join and of every client's
reader and renderer; they are threads of their own that only wait for what the guards
say, and no user must type.  Between two tries for the mutex a handler goes through poll again;
the mutex is held for one switch statement and its holder always releases it, and
with finitely many commands a waiting handler is not overtaken for ever.
`Registry`: weak fairness of each handler, of a client's sending its name, of `Return`
(a busy wait) and of `End`, and of `TimeOut` for a client that has left; a client that is there
need not become inactive.  `GiveUp` belongs to the handler: after 60 rounds of
`handle_reconnect` (`RECONNECT_TIME`, seconds) it happens, so that it is among its
steps, and when exactly is left open.
`ClientThreads`: weak fairness of each of the three threads, of which none
waits while it holds a lock.  Neither the user nor the server must do anything.  Terminals hand over
whole lines, so that `getline` returns, and a send to the server that blocks for good is not
considered.
`Framing`: weak fairness of the rest of each send that was begun, of the reader, and of closing
one's end after `receive_message` returned "Disconnect": the client then sets `kill_flag`, on which
all its threads end, and the server's handler disconnects the user.  The reader reads because it is
a thread that polls and receives all the time, as the server's handler does.  Nobody need begin to send.
`Commands` has no liveness property: users type what and when they want.

### What the violations show

Each of these runs gives a short trace; the findings in `PROJECT.json` quote what the
report says instead.

- `relay_diverges`: two handlers execute edits of one item in one order and broadcast
  them in the other.  Clients agree with each other, but not with the server, and
  the next bulk message hands the difference to whoever loads it.
- `relay_stale_bulk`: serialize, then another handler's execution and broadcast, then
  the send of the bulk message: the joining client applies the new command first
  and then replaces its list by one without it.
- `registry_double_close`: disconnected, descriptor closed, number given to another
  user, a minute later removed, number closed again.
- `client_test_loop`: two draws, then an undo; `render_test_loop` executes the undo, finds the queue
  empty, and executes it again.  The draw list of a `--test` client, whose hash the test runners
  compare, loses items that the server and the other clients keep.

More races and failures are modelled but not stated as properties of their own, because the code does not
exclude them.  What is in italics, stated as an invariant or as an action property, has a counterexample on
the instances above.

- *The first message a new client gets is its ID, or a refusal.*  A broadcast between `create_new_user` and the
  send of the user ID comes first (`CreateNewUser`, `Broadcast`, `SendUserID`); `std::stoi` throws on it and the
  client ends (`FirstReply` of `Relay`).  The report (main.tex:233) has it receive "the server-assigned ID".
- *A client that leaves does not take the server with it.*  `send` is called without MSG_NOSIGNAL, and no handler
  is installed: SIGPIPE may end the server, in the middle of a broadcast perhaps (`BrokenPipe` of `Relay` and
  `Registry`, `killed` of `Framing`).  A client that crashed on its first reply is enough.  What `Relay` says
  of boards it says of a server that lives.  The report (main.tex:329) gives a user time to reconnect.
- *Nobody is served when the process ends.*  A handler past the look-up when main finds the map empty registers its
  user and serves, while `server_loop` returns (`Return`) and until the process ends (`End`).  The report
  (main.tex:312) has main wait "until all threads have been shut down/killed".
- *No two users have one user ID.*  `user_id_rec++` of two handlers: both loads, then the stores.  The report (main.tex:331) says
  an ID "will never be used again".
- *Nobody takes the place of an active user* (main.tex:315).  Two reconnections both find the user inactive
  (`CheckActivity`); the second `ReconnectUser` replaces the socket of the first.
- *A user who has reconnected is not removed* (main.tex:323).  A reconnection between `RemoveDisconnect` and `Erase`; the
  handler erases the user and ends, and the new connection is neither served nor closed.
- *No item ends the clients that draw it.*  `draw 1 1 ""` with the text tool is well-formed, the item goes to
  everybody, `TTF_RenderText_Blended` returns NULL for an empty text, and `surface->w` (`DrawList.cpp:389`) ends
  every client with a window that draws it (`RenderCrash` of `ClientThreads`).
- *No line but exit ends the client while the server is there.*  `delete`, `select`, `draw` and `colour` with a number that is no int:
  `std::stoi` throws where nobody catches it (`Throw` of `Commands`).
- After a reconnection the handler polls its old descriptor number, which belongs to somebody else
  by now, and blocks in `recv` on its own; at the shutdown it never looks at the flag again, and
  main waits for the map to empty.  `ShutdownCompletes` is therefore checked for distinct names
  only: on the instance of `registry_reconnect` it is violated.
- `send_message` is called under `connections_mutex` for broadcasts, and without for user IDs, bulk
  messages and errors of the connection's own handler.  When one of these falls
  between two sends of a broadcast, or the reverse, the client reads a length or a body made of
  both.  `Framing` takes note of it (`torn`) and promises nothing from then on.
- `receive_message` asks for the four bytes of a length once; fewer end the connection.  In
  `Framing` that is a disconnection like any other, since no message is handed on wrongly.
- A broadcast waits, with `connections_mutex`, for a client whose buffers are full, and a message to
  a client that has left may raise SIGPIPE, which ends the server (`BroadcastEnds` names both).  A client's
  send to a server that has closed the connection may likewise end the client (`Transmit` of `Commands`,
  `BrokenPipe` of `ClientThreads`); the connection is gone then anyway.
- A rejected `draw` is sent all the same, as the empty item, and takes a selected item with it
  (`HandleDraw`); the empty item is among the shapes of every other model.
- `re_connect_user` sends the user ID on the socket the user had before and only then stores the new
  one: the client reads "Welcome Back" first, and whoever has the old
  descriptor by now reads a second user ID.  `LoginAnswered`, that a client first reads its own ID, a
  refusal or a broadcast that overtook them, is therefore checked for
  distinct names only; also, of two simultaneous first log-ins under one name the loser is left
  unanswered.
- A `show` between `generate_and_render` and `should_render = false` is lost until something else is
  drawn (the report, main.tex:266, has `show` refresh the canvas).  `ItemsShown` is about the items only: those the render thread
  changes itself, so that they cannot get lost that way.
- A client that exits drops what is on the socket or in its queue; with `--test` the hash it
  prints may miss the last commands, its own included.

Documentation and code also differ in one number: the report gives both "10 minutes" (main.tex:329)
and "around 1 minute" (main.tex:323) for the reconnection; the code has 60 seconds (`Server.h:27`).

## The proofs

All theorems hold for every value of the constants that satisfies the assumptions named in the
modules: user IDs are natural numbers, connected clients are clients, commands are of
the known kinds, usernames are not the place-holder for "none".  Three theorems have a hypothesis of
their own that excludes what a run shows to be wrong there: `ServerMatches`
(users change only what is theirs, see `relay_diverges`), `WhiteboardImplemented` (nobody joins, see
`relay_stale_bulk`) and `WindowIsDisplay` (no `--test`, see `client_test_loop`).  `NumbersConvert`
takes no keyword to be an integer, as is the case in `Identify.cpp`.

`DrawListLaws`: every operation of the draw list keeps every item under its own ID, and
`ExecuteKeys` says that only an INSERT adds a key.  `UndoInsert`, `LoadSerialize` and the commutation
lemmas (`ErasuresCommute`, `InsertErasureCommute`, `InsertsCommute`) are the laws of `OneDrawList`, for
maps in general; `NewestIsHighest`, that the reverse traversal finds an item, rests on well-foundedness of
the natural numbers.

`OneDrawListProofs`: the laws follow from one invariant, that all IDs in the list are below the
counter (`TypeOK`).

`RelayProofs`: the inductive invariant is `IInv == TypeOK /\ LockOK /\ IdsOK /\ (server = "up" => InOrder) /\ DownOK` of `Relay`.
`ClientsAgree` is not inductive, since it says nothing of a client with a non-empty inbox;
`InOrder` does: a client shows some board of the history, and its inbox executed on that
gives the following ones.  `DrawIdsFresh` speaks of the handler that is about to execute;
`IdsOK` says of every package in every buffer that its ID is below the counter, on no
board, and in no other buffer.  A server that SIGPIPE ends in the middle of a broadcast leaves inboxes behind that are no
longer in order; `DownOK` says that this takes a client that joined and crashed, so that with all clients
connected from the start the server is up throughout (`WhiteboardImplemented`).  The proof follows IDs from slot to slot
(`Holds`): most steps move none, `Receive` makes one, `TryLock` moves those of one buffer up, `ExecuteUnlock` puts one on the
draw list, `Broadcast` on the board.  `LockOK` says that whoever is about to pop has something to pop.
`IInv` was checked with TLC on the bounds of `relay_commands` and `relay_join` before it was proved.

`ServerMatches` needs to know what the server's list and the board look like while handlers stand
between execution and broadcast, each with one package.  `Ahead` of `Relay` says it: the server's
list is the board without what those packages erase and with what they insert.  That is no order
any more, so it does not matter which of them is broadcast first.  It takes that each of them erases
items of its own user only and inserts one of its own or the empty one (`OwnOnly`: nothing else is in a slot or on a
socket), and that a user has one package under way at a time, which `Ahead` has by construction: what
is erased is read off the board as it is, and no other handler's broadcast changes that user's items.
With edits `Ahead` fails: an edit replaces somebody's item by one another edit may replace as well.

`WhiteboardImplemented` maps a client's queue to what is in its handler's hands, its buffer and its
socket, all without their draw IDs, and what a client displays to the board its list is on
(`Behind`).  `Send` appends to the queue; `Receive`, `TryLock` and `ExecuteUnlock` move a package from one part
of the queue to the next, and numbering does not show; `Broadcast` takes the package off the queue, with
the ID it bears, which `IdsOK` says is on no board; `Apply` is the display's step, by `InOrder`.  An ID must
also be within the abstract bound: `CountOK` counts packages on the sockets against commands
issued, so that no more IDs are given out than there were commands.  `OwnIInv`, which is `IInv` with
`OwnOnly` and `Ahead`, was checked with TLC on the bounds of `relay_join`, `CountOK` on those of
`relay_commands`.

`ClientThreadsProofs`: `IInv == TypeOK /\ FlagsOK /\ DrawnOK`.  `FlagsOK` ties each flag to the end of its thread
and gives `AloneAtReturn`.  `DrawnOK` adds to `ItemsShown` that between drawing and reset the window shows
the draw list even though `should_render` is still set; every package that changes the list
sets it.  `WindowIsDisplay` (a client with a window implements `Display`) maps the inbox to the package in
the render thread's hands, the queue, the message in the reader's hands and the socket: `Receive`, `Push`
and `Pop` move the boundary and leave the sequence alone, `ExecuteCommand` is `Apply`, `Arrive` and
`ReceiveEnd` (which makes up the message "Disconnect") are `Arrive`.  `--test` is excluded by
hypothesis, since `client_test_loop` refutes it there.

`RegistryProofs`: entries and threads refer to each other (`MapOK`); only `CreateNewUser` and
`Erase` change the map, and no other step moves a thread into or out of the labels at which it
is registered.  The two halves need each other, and `TypeOK` gives every thread past its log-in a username.
Which descriptors messages are sent on changes neither: `SendOnTypes` and `EndThreadTypes` take these steps together.

`CommandsProofs`: the invariant is `TypeOK`, `SentIsIssuable` and `SelectionForNextDraw`, with the
fact that a line is only handled while the client runs; one step per handler.  For these three what the
lexer makes of a line plays no part: the handlers check the types themselves.  `HandlersGetMunch`
cites `LexerCorrect`: only `ReadLine` fills the token list.  `NumbersConvert` adds that each number a handler is
given has digits, so that `std::stoi` has no other reason to throw than the range, which is the only one `Commands` has.

`LexerProofs`: `LexerCorrect` says that the scanner gives the tokens of maximal munch for every
alphabet, all keywords and every line.  `RunMeans` gives each state of the automaton its meaning, as a
property of the characters since the token's first: a word, a number, an open string, a number
that ran into a letter.  So the last accepting state is at the end of the longest lexeme, of the only
form there is for its first character (`OneForm`), and a syntax error is on the way exactly if a letter cuts
off an integer (`NextTokenLongest`).  The two passes over the line then agree from its end backwards
(`SameStep`).  The prover has no induction scheme for predicates.  `Climb` is one for
sets instead: a set with 0 and with the successor of each of its members up to a bound has them all,
because what it lacks would have a least element (the natural numbers are well-founded).  The recursive
functions of `Lexer` are shown to exist by it, for ever longer parts of the line, before anything is
said of their values.

`FramingProofs`: `IInv == TypeOK /\ Sending /\ Order`.  `Sending` says who holds the mutex and who
owns the connection.  `Order` counts bytes: those the receiver has taken and those under way are, in
this order, the first ones of the frames that were begun (`StreamInPlace`), the last frame alone may
be incomplete (`Written`), and the body being read is the one that is due (`Due`), all of it as long
as nothing was torn.  `ImplementsChannel` is not inductive, since it says nothing of bytes.  From
`IInv`, every `RecvBody` that completes a message is `Channel!Take`, every `SendLength` a `Put`, and
every end a `Disconnect`.  `IInv` was checked with TLC on the bounds of `framing` before it was proved.

Only model-checked: liveness (`EveryCommandArrives`, `LoginAnswered`, `NameFreed`,
`ShutdownCompletes`, `EverythingShown`, `ClientTerminates`, `EveryMessageArrives`, `BroadcastEnds`),
which this prover does not do.  The properties of the four runs that find a violation
are false of the code on those instances, and stay counterexamples.

## Not modelled

- What broadcasts to descriptors that were used again by another connection do to draw lists (`Relay` has no
  descriptors; `Registry` has the broadcasts, but of what a client is sent only the first message; `Framing` one
  connection).
- What a handler does after `main` has returned, while static objects are destroyed: it is undefined.
- Coordinates, radii, colours and texts of items, but for the empty text: nothing branches on them once they are converted.
  A character with the value of `EOF` in a line, at which the lexer would stop early.
- A username or a message that is the string "Disconnect", which `receive_message` also uses for the
  end of a connection: names and messages are model values.
- What a window looks like (dragging, sizes, rulers), help texts, what `list` prints, the hash: they
  change nothing another part reads.  The models compare draw lists where the test runners compare
  their hashes.
- Packages of type PB_INVALID and broken protobuf input: no client of the repository sends one.

## Plan

Done, in this order: `DrawList`, `Packages`, `OneDrawList`, `Whiteboard`, `Relay`, `Registry`,
`Display`, `ClientThreads`, `Lexer`, `Commands`, `Channel`, `Framing`, and the proofs above.  Next:

1. `Sessions`: `Relay` with the descriptors of `Registry`: broadcasts to stale descriptors, buffers
   lost at the removal.
2. With `Sessions`, which of the theorems about `Relay` survive: `ClientsAgree` for clients that keep their
   descriptor, `DrawIdsFresh` for buffers that are dropped.
