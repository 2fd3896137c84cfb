--------------------------- MODULE CommandsProofs ---------------------------
(***************************************************************************)
(* Theorems about Commands, for any alphabet, any keywords and any lines.  *)
(* What the lexer returns matters only to the last two.                    *)
(***************************************************************************)
EXTENDS Commands, LexerProofs, TLAPS

\* A line is parsed by a client that runs.
RunningAtLine == message # NoLine => state = "running"

\* What holds between any two steps of the main thread.
IInv == TypeOK /\ SentIsIssuable /\ SelectionForNextDraw /\ RunningAtLine

\* What create_draw_item returns is an item the user may draw, with whatever
\* tool: the user's own, or the empty one (Create.cpp:15-141).
LEMMA DrawItemDrawable ==
    ASSUME NEW tool \in Tools
    PROVE  DrawItem(tool) \in Drawable(UserId) /\ DrawItem(tool) \in DrawData
<1>1. CASE WellFormed(tool)
  <2> DEFINE shape == ShapeOf(tool)
  <2>1. shape \in Shapes /\ shape # NoShape
    BY ToolsAssumption DEF ShapeOf, Tools, NoShape, EmptyText
  <2>2. DrawItem(tool) = [user_id |-> UserId, draw_id |-> 0, shape |-> shape]
    BY <1>1 DEF DrawItem
  <2> HIDE DEF shape
  <2> QED
    BY <2>1, <2>2, UserIdAssumption DEF Drawable, DrawData
<1>2. CASE ~ WellFormed(tool)
  <2>1. NoShape \in Shapes
    BY ToolsAssumption
  <2>2. DrawItem(tool) = [user_id |-> Everyone, draw_id |-> 0, shape |-> NoShape]
    BY <1>2 DEF DrawItem, EmptyItem
  <2> QED
    BY <2>1, <2>2 DEF Drawable, DrawData, Everyone
<1> QED
  BY <1>1, <1>2

\* The packages the handlers build are issuable and carry a command.
LEMMA PackagesIssuable ==
    ASSUME NEW id \in IntMin..IntMax, NEW data \in Drawable(UserId), data \in DrawData
    PROVE  \A p \in {InsertPackage(data), EditPackage(id, data), RemovePackage(id),
                     UndoPackage(UserId), ClearPackage(UserId), ClearPackage(Everyone)} :
              p \in Issuable(UserId) /\ p \in Command /\ p # Nothing
<1>1. id \in Targets /\ id \in Int
  BY IntAssumption
<1>2. InsertPackage(data) \in OfKind("draw", UserId)
  BY DEF OfKind
<1>3. EditPackage(id, data) \in OfKind("edit", UserId)
  BY <1>1 DEF OfKind
<1>4. RemovePackage(id) \in OfKind("delete", UserId)
  BY <1>1 DEF OfKind
<1>5. UndoPackage(UserId) \in OfKind("undo", UserId)
  BY DEF OfKind
<1>6. ClearPackage(UserId) \in OfKind("clear_mine", UserId)
  BY DEF OfKind
<1>7. ClearPackage(Everyone) \in OfKind("clear_all", UserId)
  BY DEF OfKind
<1>8. {"draw", "edit", "delete", "undo", "clear_mine", "clear_all"} = Kinds
  BY AllKindsAssumption DEF AllKinds
<1>9. \A p \in {InsertPackage(data), EditPackage(id, data), RemovePackage(id),
                UndoPackage(UserId), ClearPackage(UserId), ClearPackage(Everyone)} :
         p \in Issuable(UserId)
  BY <1>2, <1>3, <1>4, <1>5, <1>6, <1>7, <1>8 DEF Issuable
<1>10. \A p \in {InsertPackage(data), EditPackage(id, data), RemovePackage(id),
                 UndoPackage(UserId), ClearPackage(UserId), ClearPackage(Everyone)} :
          p \in Command
  BY <1>1, UserIdAssumption
     DEF Command, InsertPackage, EditPackage, RemovePackage, UndoPackage, ClearPackage, Everyone
<1>11. \A p \in {InsertPackage(data), EditPackage(id, data), RemovePackage(id),
                 UndoPackage(UserId), ClearPackage(UserId), ClearPackage(Everyone)} :
          p.message_type # "NOTHING"
  BY DEF InsertPackage, EditPackage, RemovePackage, UndoPackage, ClearPackage
<1> QED
  BY <1>9, <1>10, <1>11 DEF Nothing

\* The initial state: nothing selected, nothing sent.
LEMMA InitIInv == Init => IInv
BY IntAssumption
   DEF Init, IInv, TypeOK, SentIsIssuable, SelectionForNextDraw, RunningAtLine, Tools, NoSelection

\* Every step of the main thread keeps the invariant, one handler after the
\* other.
LEMMA NextIInv == IInv /\ [Next]_vars => IInv'
<1> SUFFICES ASSUME IInv, [Next]_vars PROVE IInv'
  OBVIOUS
<1> USE DEF IInv, TypeOK, SentIsIssuable, SelectionForNextDraw, RunningAtLine
<1>1. CASE ReadLine
  BY <1>1 DEF ReadLine
<1>2. CASE Reject \/ HandleHelp \/ HandleList
  BY <1>2 DEF Reject, HandleHelp, HandleList, PrintOnly, Done
<1>3. CASE HandleTool
  <2>1. current_tool' \in Tools
    BY <1>3 DEF HandleTool
  <2> QED
    BY <1>3, <2>1 DEF HandleTool, Done
<1>4. CASE HandleColour
  BY <1>4 DEF HandleColour, Done
<1>5. CASE HandleDraw
  <2>1. CASE WellFormed(current_tool) /\ ~ Converts
    BY <1>5, <2>1 DEF HandleDraw, Throw, Done
  <2>2. CASE ~ (WellFormed(current_tool) /\ ~ Converts)
    <3>1. /\ sent' \in {InsertPackage(DrawItem(current_tool)),
                        EditPackage(select_id, DrawItem(current_tool))}
          /\ select_id' = NoSelection /\ state' \in {state, "signalled"} /\ selected' = FALSE
          /\ message' = NoLine /\ UNCHANGED <<current_tool, current_show>>
      BY <1>5, <2>2 DEF HandleDraw, Transmit, Done
    <3>2. sent' \in Issuable(UserId) /\ sent' \in Command
      BY <3>1, DrawItemDrawable, PackagesIssuable
    <3> QED
      BY <3>1, <3>2, IntAssumption DEF NoSelection
  <2> QED
    BY <2>1, <2>2
<1>6. CASE HandleSelect
  <2>1. CASE Types = <<"SELECT", "INTEGER">> /\ Converts
    <3>1. Number(2) \in IntMin..IntMax
      BY <2>1 DEF Converts, Types
    <3> QED
      BY <1>6, <2>1, <3>1 DEF HandleSelect, Done
  <2>2. CASE Types = <<"SELECT", "INTEGER">> /\ ~ Converts
    BY <1>6, <2>2 DEF HandleSelect, Throw, Done
  <2>3. CASE Types = <<"SELECT", "NONE">>
    BY <1>6, <2>3, IntAssumption DEF HandleSelect, Done, NoSelection
  <2>4. CASE Types \notin {<<"SELECT", "INTEGER">>, <<"SELECT", "NONE">>}
    BY <1>6, <2>4 DEF HandleSelect, Done
  <2> QED
    BY <2>1, <2>2, <2>3, <2>4
<1>7. CASE HandleDelete
  <2>1. CASE Types = <<"DELETE", "INTEGER">> /\ Converts
    <3>1. Number(2) \in IntMin..IntMax
      BY <2>1 DEF Converts, Types
    <3>2. RemovePackage(Number(2)) \in Issuable(UserId) /\ RemovePackage(Number(2)) \in Command
      BY <3>1, DrawItemDrawable, PackagesIssuable
    <3>3. /\ sent' = RemovePackage(Number(2)) /\ state' \in {state, "signalled"}
          /\ state = "running"
          /\ message' = NoLine /\ UNCHANGED <<select_id, current_tool, current_show, selected>>
      BY <1>7, <2>1 DEF HandleDelete, IsCommand, Transmit, Done
    <3> QED
      BY <3>2, <3>3
  <2>2. CASE Types = <<"DELETE", "INTEGER">> /\ ~ Converts
    BY <1>7, <2>2 DEF HandleDelete, Throw, Done
  <2>3. CASE Types # <<"DELETE", "INTEGER">>
    BY <1>7, <2>3 DEF HandleDelete, Done
  <2> QED
    BY <2>1, <2>2, <2>3
<1>8. CASE HandleUndo
  <2>1. UndoPackage(UserId) \in Issuable(UserId) /\ UndoPackage(UserId) \in Command
    BY DrawItemDrawable, PackagesIssuable
  <2>2. /\ \/ sent' = UndoPackage(UserId) /\ state' \in {state, "signalled"}
           \/ UNCHANGED <<sent, state>>
        /\ state = "running"
        /\ message' = NoLine /\ UNCHANGED <<select_id, current_tool, current_show, selected>>
    BY <1>8 DEF HandleUndo, IsCommand, Transmit, Done
  <2> QED
    BY <2>1, <2>2
<1>9. CASE HandleShow
  <2>1. current_show' \in {"ALL", "MINE"}
    BY <1>9 DEF HandleShow
  <2> QED
    BY <1>9, <2>1 DEF HandleShow, Done
<1>10. CASE HandleClear
  <2>1. \A p \in {ClearPackage(Everyone), ClearPackage(UserId)} :
           p \in Issuable(UserId) /\ p \in Command
    BY DrawItemDrawable, PackagesIssuable
  <2>2. /\ sent' \in {sent, ClearPackage(Everyone), ClearPackage(UserId)}
        /\ state' \in {state, "signalled"}
        /\ state = "running"
        /\ message' = NoLine /\ UNCHANGED <<select_id, current_tool, current_show, selected>>
    BY <1>10 DEF HandleClear, IsCommand, Transmit, Done
  <2> QED
    BY <2>1, <2>2
<1>11. CASE HandleExit
  BY <1>11 DEF HandleExit, IsCommand, Done
<1>12. CASE Interrupted
  BY <1>12 DEF Interrupted
<1>13. CASE UNCHANGED vars
  BY <1>13 DEF vars
<1> QED
  BY <1>1, <1>2, <1>3, <1>4, <1>5, <1>6, <1>7, <1>8, <1>9, <1>10, <1>11, <1>12, <1>13 DEF Next

\* The types of the main thread's state, among them that a selected ID fits an
\* int and that what is sent is a command the relay knows.
THEOREM TypeCorrect == Spec => []TypeOK
<1>1. IInv => TypeOK
  BY DEF IInv
<1> QED
  BY InitIInv, NextIInv, <1>1, PTL DEF Spec

\* Whatever is typed, what is sent is what Packages has users issue: the models
\* of the relay and of the draw list are about no fewer commands than there are.
THEOREM SendsIssuable == Spec => []SentIsIssuable
<1>1. IInv => SentIsIssuable
  BY DEF IInv
<1> QED
  BY InitIInv, NextIInv, <1>1, PTL DEF Spec

\* A selection that is in force was made after the last draw command.
THEOREM SelectsForNextDraw == Spec => []SelectionForNextDraw
<1>1. IInv => SelectionForNextDraw
  BY DEF IInv
<1> QED
  BY InitIInv, NextIInv, <1>1, PTL DEF Spec

\* Only client_loop puts tokens in token_list, and no line is left when they
\* are gone.
LEMMA NextLexerMunches == LexerMunches /\ [Next]_vars => LexerMunches'
<1> SUFFICES ASSUME LexerMunches, [Next]_vars PROVE LexerMunches'
  OBVIOUS
<1>1. CASE ReadLine
  <2>1. PICK line \in Lines : message' = line /\ token_list' = GenerateTokens(line)
    BY <1>1 DEF ReadLine
  <2>2. line \in Seq(Chars)
    BY LinesAssumption
  <2>3. GenerateTokens(line) = Munch(line)
    BY <2>2, LexerCorrect
  <2> QED
    BY <2>1, <2>3 DEF LexerMunches
<1>2. CASE message' = NoLine
  BY <1>2 DEF LexerMunches
<1>3. CASE UNCHANGED vars
  BY <1>3 DEF LexerMunches, vars
<1>4. Next => ReadLine \/ message' = NoLine
  BY DEF Next, Reject, HandleHelp, HandleList, HandleTool, HandleColour, HandleDraw,
         HandleSelect, HandleDelete, HandleUndo, HandleShow, HandleClear, HandleExit,
         Interrupted, PrintOnly, Done
<1> QED
  BY <1>1, <1>2, <1>3, <1>4

\* The handlers are given the tokens of maximal munch of the line that was
\* typed, or none (Parse_Input.cpp:11-21, Lexer.cpp:28-152).
THEOREM HandlersGetMunch == Spec => []LexerMunches
<1>1. Init => LexerMunches
  BY DEF Init, LexerMunches
<1> QED
  BY <1>1, NextLexerMunches, PTL DEF Spec

\* Every integer a handler is given.
HasNumerals ==
    message # NoLine =>
        \A k \in DOMAIN Tokens :
            Types[k] = "INTEGER" => HasForm("INTEGER", Tokens[k].lexeme_string)

\* As no keyword is an integer, every integer a handler converts has digits:
\* of the exceptions std::stoi may throw only the one for numbers out of range
\* is left, which is what Converts is about (Parse_Input.cpp:185, Create.cpp).
THEOREM NumbersConvert ==
  ASSUME "INTEGER" \notin KeywordTypes
  PROVE  Spec => []HasNumerals
<1>1. TypeOK /\ LexerMunches => HasNumerals
  <2> SUFFICES ASSUME TypeOK, LexerMunches, message # NoLine,
                      NEW k \in DOMAIN Tokens, Types[k] = "INTEGER"
               PROVE  HasForm("INTEGER", Tokens[k].lexeme_string)
    BY DEF HasNumerals
  <2>1. message \in Seq(Chars)
    BY LinesAssumption DEF TypeOK
  <2>2. Tokens = GenerateTokens(message).tokens
    BY <2>1, LexerCorrect DEF LexerMunches, Tokens
  <2>3. Tokens[k].token_type = "INTEGER"
    BY DEF Types
  <2> QED
    BY <2>1, <2>2, <2>3, NumbersHaveDigits
<1> QED
  BY <1>1, TypeCorrect, HandlersGetMunch, PTL
=============================================================================
