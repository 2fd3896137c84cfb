------------------------------ MODULE Commands ------------------------------
(***************************************************************************)
(* The command line of a client: the main thread reads a line, the lexer   *)
(* makes tokens of it, and the handler of the first token's command checks *)
(* the others, changes the tool, the selection or the view, or sends a     *)
(* package to the server (Client/User_Functionality/Parse_Input.cpp,       *)
(* Create.cpp).  What Packages says users can issue is what comes out here.*)
(*                                                                         *)
(* Abstracted: of the items only the kind of shape is kept, not where it   *)
(* is, its colour and whether it is filled; the checks of those parameters *)
(* are all here.  The other threads and the server appear only as what may *)
(* end the client while this one reads commands.                           *)
(***************************************************************************)
EXTENDS Packages, Lexer

CONSTANTS Lines,          \* what users type
          UserId,         \* Client::user_id
          IntMin, IntMax  \* the range of int

NoLine == <<"no line">>

ASSUME LinesAssumption == Lines \subseteq Seq(Chars) /\ NoLine \notin Lines
ASSUME UserIdAssumption == UserId \in Nat
ASSUME IntAssumption ==
    IntMin \in Int /\ IntMax \in Int /\ -1 \in IntMin..IntMax /\ IntMin..IntMax \subseteq Targets
ASSUME AllKindsAssumption == Kinds = AllKinds

\* A tool draws the shape of its name.
Tools == {"LINE", "RECTANGLE", "CIRCLE", "TEXT"}
ASSUME ToolsAssumption == Tools \union {NoShape, EmptyText} \subseteq Shapes

VARIABLES
    message,              \* the line client_loop has read, or NoLine
    token_list,           \* what the lexer makes of it
    state,                \* "running", "killed" (kill_flag); or the process ended, with
                          \* an exception ("thrown") or by a signal ("signalled")
    current_tool, select_id, current_show,
    sent,                 \* the package sent for the last line, or Nothing
    selected              \* history: the last DRAW or SELECT was a SELECT

vars == <<message, token_list, state, current_tool, select_id, current_show, sent, selected>>

Nothing == [message_type |-> "NOTHING"]
NoSelection == -1

Init ==
    /\ message = NoLine
    /\ token_list = Read(<<>>)
    /\ state = "running"
    /\ current_tool = "RECTANGLE"
    /\ select_id = NoSelection
    /\ current_show = "ALL"
    /\ sent = Nothing
    /\ selected = FALSE

Tokens == token_list.tokens
Types  == [k \in DOMAIN Tokens |-> Tokens[k].token_type]

CommandNames == {"HELP", "TOOL", "COLOUR", "DRAW", "LIST", "SELECT", "DELETE",
                 "UNDO", "SHOW", "CLEAR", "EXIT"}

\* The line is a command of this name.  After a lexical error and for an empty
\* list there are no tokens.
IsCommand(name) == message # NoLine /\ Tokens # <<>> /\ Types[1] = name

\* Out of the range of int, std::stoi throws.
Number(k) == Stoi(Tokens[k].lexeme_string)
Converts == \A k \in DOMAIN Tokens : Types[k] = "INTEGER" => Number(k) \in IntMin..IntMax

-----------------------------------------------------------------------------
\* create_draw_item: the number of tokens and their types each tool asks for.
Ints(n) == [k \in 1..n |-> "INTEGER"]

WellFormed(tool) ==
    CASE tool = "CIRCLE" ->
           Types \in {<<"DRAW">> \o Ints(3) \o fill : fill \in {<<>>, <<"FILL">>}}
      [] tool = "RECTANGLE" ->
           Types \in {<<"DRAW">> \o Ints(4) \o fill : fill \in {<<>>, <<"FILL">>}}
      [] tool = "LINE" -> Types = <<"DRAW">> \o Ints(4)
      [] tool = "TEXT" -> Types = <<"DRAW">> \o Ints(2) \o <<"STRING">>

EmptyItem == [user_id |-> Everyone, draw_id |-> 0, shape |-> NoShape]

ShapeOf(tool) ==
    IF tool = "TEXT" /\ Tokens[4].lexeme_string = <<>> THEN EmptyText ELSE tool

\* Mutant of DrawItem: the empty item keeps the user's ID.
DrawItemOwned(tool) ==
    IF WellFormed(tool)
    THEN [user_id |-> UserId, draw_id |-> 0, shape |-> ShapeOf(tool)]
    ELSE [EmptyItem EXCEPT !.user_id = UserId]

\* create_circle and its like, or create_empty.
DrawItem(tool) ==
    IF WellFormed(tool)
    THEN [user_id |-> UserId, draw_id |-> 0, shape |-> ShapeOf(tool)]
    ELSE EmptyItem

-----------------------------------------------------------------------------
\* client_loop: poll and getline; parse_input: the lexer.
ReadLine ==
    /\ state = "running"
    /\ message = NoLine
    /\ \E line \in Lines : message' = line /\ token_list' = GenerateTokens(line)
    /\ sent' = Nothing
    /\ UNCHANGED <<state, current_tool, select_id, current_show, selected>>

\* What every handler does with what it does not change.
Done(unchanged) ==
    message' = NoLine /\ token_list' = Read(<<>>) /\ UNCHANGED unchanged

\* An exception of std::stoi; the try block of parse_input is over by then.
Throw == state' = "thrown" /\ UNCHANGED <<select_id, sent>>

\* send_message calls send without MSG_NOSIGNAL: on a connection that is gone
\* it may raise SIGPIPE.
Transmit(package) == sent' = package /\ state' \in {state, "signalled"}

PrintOnly == Done(<<state, current_tool, select_id, current_show, sent, selected>>)

\* A lexical error, a line of white space, an unknown command.
Reject ==
    /\ message # NoLine
    /\ \A name \in CommandNames : ~ IsCommand(name)
    /\ PrintOnly

\* Whatever its parameters, help changes nothing, and list only reads the
\* draw list.
HandleHelp == IsCommand("HELP") /\ PrintOnly
HandleList == IsCommand("LIST") /\ PrintOnly

\* Mutant of HandleTool: any parameter becomes the tool.
HandleToolUnchecked ==
    /\ IsCommand("TOOL")
    /\ current_tool' = IF Len(Tokens) = 2 THEN Types[2] ELSE current_tool
    /\ Done(<<state, select_id, current_show, sent, selected>>)

HandleTool ==
    /\ IsCommand("TOOL")
    /\ current_tool' = IF \E t \in Tools : Types = <<"TOOL", t>>
                       THEN Types[2] ELSE current_tool
    /\ Done(<<state, select_id, current_show, sent, selected>>)

\* The colour itself is data of the items.
HandleColour ==
    /\ IsCommand("COLOUR")
    /\ state' = IF Types = <<"COLOUR">> \o Ints(3) /\ ~ Converts
                THEN "thrown" ELSE state
    /\ Done(<<current_tool, select_id, current_show, sent, selected>>)

\* Mutant of HandleDraw: the selection stays.
HandleDrawKeepsSelection ==
    /\ IsCommand("DRAW")
    /\ selected' = FALSE
    /\ IF WellFormed(current_tool) /\ ~ Converts
       THEN Throw
       ELSE /\ Transmit(IF select_id = NoSelection
                        THEN InsertPackage(DrawItem(current_tool))
                        ELSE EditPackage(select_id, DrawItem(current_tool)))
            /\ UNCHANGED select_id
    /\ Done(<<current_tool, current_show>>)

\* handle_draw sends whatever create_draw_item returns, as an INSERT or, when
\* an item is selected, as an EDIT of it.  Numbers are converted only when all
\* parameters are well-formed.
HandleDraw ==
    /\ IsCommand("DRAW")
    /\ selected' = FALSE
    /\ IF WellFormed(current_tool) /\ ~ Converts
       THEN Throw
       ELSE /\ Transmit(IF select_id = NoSelection
                        THEN InsertPackage(DrawItem(current_tool))
                        ELSE EditPackage(select_id, DrawItem(current_tool)))
            /\ select_id' = NoSelection
    /\ Done(<<current_tool, current_show>>)

HandleSelect ==
    /\ IsCommand("SELECT")
    /\ selected' = TRUE
    /\ CASE Types = <<"SELECT", "INTEGER">> /\ Converts ->
              select_id' = Number(2) /\ UNCHANGED <<state, sent>>
         [] Types = <<"SELECT", "INTEGER">> /\ ~ Converts -> Throw
         [] Types = <<"SELECT", "NONE">> ->
              select_id' = NoSelection /\ UNCHANGED <<state, sent>>
         [] OTHER -> UNCHANGED <<select_id, state, sent>>
    /\ Done(<<current_tool, current_show>>)

HandleDelete ==
    /\ IsCommand("DELETE")
    /\ CASE Types = <<"DELETE", "INTEGER">> /\ Converts ->
              Transmit(RemovePackage(Number(2))) /\ UNCHANGED select_id
         [] Types = <<"DELETE", "INTEGER">> /\ ~ Converts -> Throw
         [] OTHER -> UNCHANGED <<select_id, state, sent>>
    /\ Done(<<current_tool, current_show, selected>>)

HandleUndo ==
    /\ IsCommand("UNDO")
    /\ IF Len(Tokens) = 1
       THEN Transmit(UndoPackage(UserId))
       ELSE UNCHANGED <<state, sent>>
    /\ Done(<<current_tool, select_id, current_show, selected>>)

HandleShow ==
    /\ IsCommand("SHOW")
    /\ current_show' = IF \E who \in {"ALL", "MINE"} : Types = <<"SHOW", who>>
                       THEN Types[2] ELSE current_show
    /\ Done(<<state, current_tool, select_id, sent, selected>>)

HandleClear ==
    /\ IsCommand("CLEAR")
    /\ CASE Types = <<"CLEAR", "ALL">>  -> Transmit(ClearPackage(Everyone))
         [] Types = <<"CLEAR", "MINE">> -> Transmit(ClearPackage(UserId))
         [] OTHER                       -> UNCHANGED <<state, sent>>
    /\ Done(<<current_tool, select_id, current_show, selected>>)

\* handle_exit looks at no parameter.
HandleExit ==
    /\ IsCommand("EXIT")
    /\ state' = "killed"
    /\ Done(<<current_tool, select_id, current_show, sent, selected>>)

\* The other threads: one sets kill_flag, which client_loop looks at between two
\* lines, or the render thread ends the process (ClientThreads!RenderCrash).
Interrupted ==
    /\ state = "running"
    /\ message = NoLine
    /\ state' \in {"killed", "signalled"}
    /\ UNCHANGED <<message, token_list, current_tool, select_id, current_show, sent, selected>>

Next ==
    \/ ReadLine \/ Reject \/ HandleHelp \/ HandleList \/ HandleTool
    \/ HandleColour \/ HandleDraw \/ HandleSelect \/ HandleDelete \/ HandleUndo
    \/ HandleShow \/ HandleClear \/ HandleExit \/ Interrupted

Spec == Init /\ [][Next]_vars

-----------------------------------------------------------------------------
(* Correctness.                                                            *)

TypeOK ==
    /\ message \in Lines \union {NoLine}
    /\ state \in {"running", "killed", "thrown", "signalled"}
    /\ current_tool \in Tools
    /\ select_id \in IntMin..IntMax
    /\ current_show \in {"ALL", "MINE"}
    /\ sent \in Command \union {Nothing}
    /\ selected \in BOOLEAN

\* The scanner with its table of transitions finds the tokens of maximal munch,
\* and fails where there are none (Lexer.cpp:28-152).
LexerMunches == message # NoLine => token_list = Munch(message)

\* Every package a command line makes the client send, whatever was typed
\* before, is one that the rest of the project takes users to issue: its own
\* items or the empty one, to insert or for any ID; IDs to remove; its own or
\* all items to clear (Relay!Send, OneDrawList, Parse_Input.cpp:115-289).
SentIsIssuable == sent # Nothing => sent \in Issuable(UserId)

\* A selection is for the next draw only ("to be modified in the next draw",
\* Command_List.cpp:66-70): whatever the parameters of that draw and whatever
\* is typed in between, no later draw edits the item once more.
SelectionForNextDraw ==
    state # "thrown" /\ select_id # NoSelection => selected
=============================================================================
