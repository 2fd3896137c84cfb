------------------------ MODULE ClientThreadsProofs ------------------------
(***************************************************************************)
(* The threads of a client, for any messages: types are right, main        *)
(* returns alone, the window shows the draw list, and a client with a      *)
(* window is a Display: each message is executed once and in order.        *)
(***************************************************************************)
EXTENDS ClientThreads, DrawListLaws, SequenceTheorems

USE MessagesAssumption, MaxMessagesAssumption

-----------------------------------------------------------------------------
(* Messages.                                                               *)

LEMMA KnownMessages == AllMessages \subseteq Command \union Bulk \union Notice
<1>1. Messages[TRUE] \subseteq Command \union Bulk \union Notice
  OBVIOUS
<1>2. Messages[FALSE] \subseteq Command \union Bulk \union Notice
  OBVIOUS
<1>3. Invalid \in Notice
  BY DEF Invalid, Notice
<1> QED
  BY <1>1, <1>2, <1>3 DEF AllMessages

LEMMA SentMessages ==
  ASSUME test_flag \in BOOLEAN
  PROVE  Messages[test_flag] \subseteq AllMessages
<1>1. CASE test_flag = TRUE
  BY <1>1 DEF AllMessages
<1>2. CASE test_flag = FALSE
  BY <1>2 DEF AllMessages
<1> QED
  BY <1>1, <1>2

LEMMA InvalidMessage == Invalid \in AllMessages /\ Numbered(Invalid, 0) = Invalid
BY DEF AllMessages, Invalid, Numbered, IsInsert

LEMMA NumberedMessage ==
  ASSUME NEW m \in AllMessages, NEW id \in 0..MaxMessages
  PROVE  Numbered(m, id) \in AnyMessage
BY DEF AnyMessage

\* What is in the queue is a command, a bulk message or a notice.
LEMMA MessageKind ==
  ASSUME NEW p \in AnyMessage
  PROVE  p \in Command \union Bulk \union Notice
<1>1. PICK m \in AllMessages, id \in 0..MaxMessages : p = Numbered(m, id)
  BY DEF AnyMessage
<1>2. CASE m \in Command
  BY <1>1, <1>2, NumberedType
<1>3. CASE m \in Bulk \union Notice
  BY <1>1, <1>3 DEF Numbered, IsInsert, Bulk, Notice
<1> QED
  BY <1>1, <1>2, <1>3, KnownMessages

LEMMA InvalidAny == Invalid \in AnyMessage
BY InvalidMessage, NumberedMessage

\* Executing a message leaves a draw list; a notice leaves it as it was.
LEMMA MessageExecutes ==
  ASSUME NEW m, IsDrawList(m), NEW p \in AnyMessage
  PROVE  IsDrawList(Execute(m, p)) /\ (p \in Notice => Execute(m, p) = m)
<1>1. p \in Command \union Bulk \union Notice
  BY MessageKind
<1>2. CASE p \in Command \union Bulk
  <2>1. p \notin Notice
    BY <1>2 DEF Command, Bulk, Notice
  <2> QED
    BY <1>2, <2>1, ExecuteIsDrawList
<1>3. CASE p \in Notice
  BY <1>3 DEF Execute, Notice
<1> QED
  BY <1>1, <1>2, <1>3

-----------------------------------------------------------------------------
(* The invariant.                                                          *)

\* Each filter draws a part of the draw list.
LEMMA PictureIsDrawList ==
  ASSUME IsDrawList(draw_list), NEW show
  PROVE  IsDrawList(Picture(show))
BY KeepIsDrawList, OwnedBy(draw_list, UserId) \subseteq DOMAIN draw_list
   DEF Picture, Rendered, OwnedBy

LEMMA InitIInv == Init => IInv
<1> SUFFICES ASSUME Init PROVE IInv
  OBVIOUS
<1>1. IsDrawList(draw_list) /\ IsDrawList(window.items)
      /\ window.show \in Filters \union {"nothing"} /\ current_show \in Filters
  BY EmptyIsDrawList DEF Init, NoWindow, Filters
<1>2. pc \in [Threads -> Labels]
  BY DEF Init, Threads, Labels
<1>3. sent \in 0..MaxMessages /\ toClient \in Seq(AnyMessage)
      /\ message_queue \in Seq(AnyMessage)
  BY DEF Init
<1>4. message \in AnyMessage /\ package \in AnyMessage
  BY InvalidAny DEF Init
<1>5. /\ test_flag \in BOOLEAN /\ closed \in BOOLEAN /\ kill_flag \in BOOLEAN
      /\ is_server_thread_dead \in BOOLEAN /\ is_render_thread_dead \in BOOLEAN
      /\ crashed \in BOOLEAN /\ should_render \in BOOLEAN
  BY DEF Init
<1>6. TypeOK
  BY <1>1, <1>2, <1>3, <1>4, <1>5 DEF TypeOK
<1>7. FlagsOK /\ DrawnOK
  BY DEF Init, FlagsOK, DrawnOK, Threads
<1> QED
  BY <1>6, <1>7 DEF IInv

LEMMA ServerStep ==
  ASSUME IInv, Arrive \/ HangUp
  PROVE  IInv'
<1> USE DEF IInv, TypeOK, FlagsOK, DrawnOK, Picture, netVars, deadVars, showVars
<1>1. CASE Arrive
  <2>1. PICK m \in Messages[test_flag] : toClient' = Append(toClient, Numbered(m, sent))
    BY <1>1 DEF Arrive
  <2>2. m \in AllMessages /\ sent \in 0..MaxMessages /\ sent' \in 0..MaxMessages
    BY <1>1, SentMessages DEF Arrive
  <2>3. toClient' \in Seq(AnyMessage)
    BY <2>1, <2>2, NumberedMessage
  <2> QED
    BY <1>1, <2>2, <2>3 DEF Arrive
<1>2. CASE HangUp
  BY <1>2 DEF HangUp
<1> QED
  BY <1>1, <1>2

\* The reader touches neither the draw list nor the window.
LEMMA ReaderStep ==
  ASSUME IInv, Reader
  PROVE  IInv'
<1> USE DEF IInv, TypeOK, FlagsOK, DrawnOK, Picture, netVars, deadVars, showVars, At, Goto, Threads, Labels
<1>1. CASE ReaderLoop
  BY <1>1 DEF ReaderLoop, WhileAlive
<1>2. CASE ReaderTimeout
  BY <1>2 DEF ReaderTimeout
<1>3. CASE ReaderError
  BY <1>3 DEF ReaderError
<1>4. CASE Receive
  BY <1>4 DEF Receive
<1>5. CASE ReceiveEnd
  BY <1>5, InvalidAny DEF ReceiveEnd
<1>6. CASE Push
  BY <1>6 DEF Push
<1>7. CASE ReaderEnd
  BY <1>7 DEF ReaderEnd
<1> QED
  BY <1>1, <1>2, <1>3, <1>4, <1>5, <1>6, <1>7 DEF Reader

\* Executing a package that changes the draw list asks for a rendering.
LEMMA ExecuteStep ==
  ASSUME IInv, ExecutePackage, pc["render"] \in {"execute", "drain"},
         Goto("render", "drain") \/ Goto("render", "loop")
  PROVE  IInv'
<1> USE DEF ExecutePackage, At, Goto, netVars, deadVars
<1>1. IsDrawList(draw_list') /\ (package \in Notice => draw_list' = draw_list)
  BY MessageExecutes DEF IInv, TypeOK
<1>2. /\ should_render' \in BOOLEAN /\ kill_flag' \in BOOLEAN
      /\ pc' \in [Threads -> Labels]
      /\ pc'["render"] \in {"drain", "loop"}
      /\ pc'["reader"] = pc["reader"] /\ pc'["main"] = pc["main"]
  BY DEF IInv, TypeOK, Threads, Labels
<1>3. TypeOK'
  BY <1>1, <1>2 DEF IInv, TypeOK
<1>4. FlagsOK'
  BY <1>2 DEF IInv, FlagsOK
<1>5. DrawnOK'
  BY <1>1, <1>2 DEF IInv, DrawnOK, Picture
<1> QED
  BY <1>3, <1>4, <1>5 DEF IInv

LEMMA RenderStep ==
  ASSUME IInv, RenderThread
  PROVE  IInv'
<1> USE DEF netVars, deadVars, showVars, At, Goto, Threads, Labels
<1>1. CASE Setup
  BY <1>1 DEF Setup, IInv, TypeOK, FlagsOK, DrawnOK, Picture
<1>2. CASE RenderLoop
  BY <1>2 DEF RenderLoop, WhileAlive, IInv, TypeOK, FlagsOK, DrawnOK, Picture
<1>3. CASE Pop
  BY <1>3 DEF Pop, IInv, TypeOK, FlagsOK, DrawnOK, Picture
<1>4. CASE ExecuteCommand \/ ExecuteAgain
  BY <1>4, ExecuteStep DEF ExecuteCommand, ExecuteAgain
<1>5. CASE PollSdl
  BY <1>5 DEF PollSdl, IInv, TypeOK, FlagsOK, DrawnOK, Picture
<1>6. CASE Render
  <2>1. IsDrawList(Picture(current_show))
    BY PictureIsDrawList DEF IInv, TypeOK
  <2> QED
    BY <1>6, <2>1 DEF Render, IInv, TypeOK, FlagsOK, DrawnOK, Picture
<1>7. CASE Reset
  BY <1>7 DEF Reset, IInv, TypeOK, FlagsOK, DrawnOK, Picture
<1>8. CASE RenderEnd
  BY <1>8 DEF RenderEnd, IInv, TypeOK, FlagsOK, DrawnOK, Picture
<1>9. CASE RenderCrash
  BY <1>9 DEF RenderCrash, IInv, TypeOK, FlagsOK, DrawnOK, Picture
<1> QED
  BY <1>1, <1>2, <1>3, <1>4, <1>5, <1>6, <1>7, <1>8, <1>9 DEF RenderThread

LEMMA MainStep ==
  ASSUME IInv, Main
  PROVE  IInv'
<1> USE DEF IInv, TypeOK, FlagsOK, DrawnOK, Picture, netVars, deadVars, showVars, At, Goto, Threads, Labels
<1>1. CASE MainLoop
  BY <1>1 DEF MainLoop, WhileAlive
<1>2. CASE MainTimeout
  BY <1>2 DEF MainTimeout
<1>3. CASE TypeExit
  BY <1>3 DEF TypeExit
<1>4. CASE TypeShow
  BY <1>4 DEF TypeShow
<1>5. CASE ShowCanvas
  BY <1>5 DEF ShowCanvas
<1>6. CASE Wait
  BY <1>6 DEF Wait
<1>7. CASE BrokenPipe
  BY <1>7 DEF BrokenPipe
<1> QED
  BY <1>1, <1>2, <1>3, <1>4, <1>5, <1>6, <1>7 DEF Main

LEMMA Invariance == Spec => []IInv
<1>1. IInv /\ UNCHANGED vars => IInv'
  BY DEF vars, netVars, deadVars, showVars, IInv, TypeOK, FlagsOK, DrawnOK, Picture
<1>2. IInv /\ [Next]_vars => IInv'
  BY <1>1, ServerStep, ReaderStep, RenderStep, MainStep DEF Next
<1> QED
  BY InitIInv, <1>2, PTL DEF Spec

-----------------------------------------------------------------------------
(* What it says.                                                           *)

\* Types of the client's state, for any messages and either mode.
THEOREM TypeCorrect == Spec => []TypeOK
BY Invariance, PTL DEF IInv

\* When main returns from client_loop both threads have ended (the wait for
\* is_server_thread_dead and is_render_thread_dead).
THEOREM Alone == Spec => []AloneAtReturn
<1>1. IInv => AloneAtReturn
  BY DEF IInv, FlagsOK, AloneAtReturn
<1> QED
  BY Invariance, <1>1, PTL

\* The window shows the items of the draw list unless should_render is set.
THEOREM Shown == Spec => []ItemsShown
<1>1. IInv => ItemsShown
  BY DEF IInv, DrawnOK, ItemsShown
<1> QED
  BY Invariance, <1>1, PTL

-----------------------------------------------------------------------------
(* A client with a window is a Display.  Its inbox is spread over four     *)
(* places: the render thread's hand, the queue, the reader's hand, and the *)
(* socket.  What moves from one to the next leaves the inbox as it is.     *)

RenderHand == IF pc["render"] = "execute" THEN <<package>> ELSE <<>>
ReaderHand == IF pc["reader"] = "push" THEN <<message>> ELSE <<>>

LEMMA InboxParts ==
  /\ Inbox = RenderHand \o message_queue \o ReaderHand \o toClient
  /\ Inbox' = RenderHand' \o message_queue' \o ReaderHand' \o toClient'
BY DEF Inbox, RenderHand, ReaderHand

LEMMA HandTypes ==
  ASSUME TypeOK
  PROVE  RenderHand \in Seq(AnyMessage) /\ ReaderHand \in Seq(AnyMessage)
BY DEF TypeOK, RenderHand, ReaderHand

\* Appending to the last part, moving a head on to the part before, taking a
\* head away.
LEMMA AppendLast ==
  ASSUME NEW S, NEW s \in Seq(S), NEW d \in Seq(S), NEW x \in S
  PROVE  s \o Append(d, x) = Append(s \o d, x)
<1>1. s \o Append(d, x) \in Seq(S) /\ Append(s \o d, x) \in Seq(S)
  OBVIOUS
<1>2. Len(s \o Append(d, x)) = Len(Append(s \o d, x))
  OBVIOUS
<1>3. \A i \in 1..Len(s \o Append(d, x)) :
         (s \o Append(d, x))[i] = Append(s \o d, x)[i]
  OBVIOUS
<1> QED
  BY <1>1, <1>2, <1>3, SeqEqual

LEMMA MoveHead ==
  ASSUME NEW S, NEW c \in Seq(S), c # <<>>
  PROVE  <<Head(c)>> \o Tail(c) = c
<1>1. <<Head(c)>> \in Seq(S) /\ Tail(c) \in Seq(S) /\ Len(Tail(c)) = Len(c) - 1
  BY HeadTailProperties
<1>2. <<Head(c)>> \o Tail(c) \in Seq(S) /\ Len(<<Head(c)>> \o Tail(c)) = Len(c)
  BY <1>1, EmptySeq
<1>3. \A i \in 1..Len(<<Head(c)>> \o Tail(c)) : (<<Head(c)>> \o Tail(c))[i] = c[i]
  BY <1>1, <1>2, HeadTailProperties
<1> QED
  BY <1>2, <1>3, SeqEqual

LEMMA TakeHead ==
  ASSUME NEW S, NEW x \in S, NEW t \in Seq(S), NEW s, s = <<x>> \o t
  PROVE  s # <<>> /\ Head(s) = x /\ Tail(s) = t
<1>1. <<x>> \in Seq(S) /\ Len(<<x>>) = 1
  OBVIOUS
<1>2. s \in Seq(S) /\ Len(s) = Len(t) + 1 /\ s # <<>> /\ s[1] = x
      /\ \A i \in 1..Len(t) : s[i + 1] = t[i]
  BY <1>1, ConcatProperties
<1>3. Tail(s) \in Seq(S) /\ Len(Tail(s)) = Len(t)
      /\ \A i \in 1..Len(t) : Tail(s)[i] = t[i]
  BY <1>2, HeadTailProperties
<1>4. Tail(s) = t
  BY <1>3, SeqEqual
<1>5. Head(s) = x
  BY <1>2
<1> QED
  BY <1>2, <1>4, <1>5

\* Display executes packages as the client does.
LEMMA SameNumbered ==
  ASSUME NEW m, NEW id
  PROVE  Promise!Numbered(m, id) = Numbered(m, id)
BY DEF Promise!Numbered, Numbered, Promise!IsInsert, IsInsert

LEMMA SameErase ==
  ASSUME NEW m, NEW id
  PROVE  Promise!Erase(m, id) = Erase(m, id)
BY DEF Promise!Erase, Erase, Promise!Keep, Keep

LEMMA SameExecute ==
  ASSUME NEW m, NEW p
  PROVE  Promise!Execute(m, p) = Execute(m, p)
<1>1. \A d : Promise!Insert(m, d) = Insert(m, d)
  BY DEF Promise!Insert, Insert
<1>2. \A i, d : Promise!Edit(m, i, d) = Edit(m, i, d)
  BY DEF Promise!Edit, Edit
<1>3. \A u : Promise!OwnedBy(m, u) = OwnedBy(m, u)
  BY DEF Promise!OwnedBy, OwnedBy
<1>4. \A u : Promise!Clear(m, u) = Clear(m, u)
  BY <1>3 DEF Promise!Clear, Clear, Promise!Keep, Keep, Promise!NoItems, NoItems,
              Promise!Everyone, Everyone
<1>5. \A u : Promise!Undo(m, u) = Undo(m, u)
  <2>1. \A ids : Promise!Newest(ids) = Newest(ids)
    BY DEF Promise!Newest, Newest
  <2> QED
    BY <1>3, <2>1, SameErase DEF Promise!Undo, Undo
<1>6. \A b : Promise!Load(b) = Load(b)
  BY DEF Promise!Load, Load
<1> QED
  BY <1>1, <1>2, <1>4, <1>5, <1>6, SameErase DEF Promise!Execute, Execute

\* The steps of the reader move a message from hand to hand, or add the end of
\* the stream to the inbox.
LEMMA ReaderRefines ==
  ASSUME TypeOK, Reader
  PROVE  [Promise!Next]_<<Inbox, draw_list>>
<1> USE DEF netVars, deadVars, showVars, At, Goto, Threads, Labels
<1>1. draw_list' = draw_list /\ RenderHand' = RenderHand
  BY DEF Reader, ReaderLoop, ReaderTimeout, ReaderError, Receive, ReceiveEnd,
         Push, ReaderEnd, RenderHand, TypeOK, WhileAlive
<1>2. /\ RenderHand \in Seq(AnyMessage) /\ message_queue \in Seq(AnyMessage)
      /\ toClient \in Seq(AnyMessage) /\ message \in AnyMessage
  BY HandTypes DEF TypeOK
<1>3. CASE ReaderLoop \/ ReaderTimeout \/ ReaderError \/ ReaderEnd
  <2>1. UNCHANGED <<message_queue, toClient>> /\ ReaderHand' = ReaderHand
    BY <1>3 DEF ReaderLoop, ReaderTimeout, ReaderError, ReaderEnd, ReaderHand,
                TypeOK, WhileAlive
  <2> QED
    BY <1>1, <2>1, InboxParts
<1>4. CASE Receive
  <2>1. /\ message_queue' = message_queue /\ toClient' = Tail(toClient)
        /\ toClient # <<>>
        /\ ReaderHand = <<>> /\ ReaderHand' = <<Head(toClient)>>
    BY <1>4 DEF Receive, ReaderHand, TypeOK
  <2> DEFINE q == RenderHand \o message_queue
  <2>2. q \in Seq(AnyMessage) /\ <<Head(toClient)>> \in Seq(AnyMessage)
        /\ Tail(toClient) \in Seq(AnyMessage)
    BY <1>2, <2>1
  <2> HIDE DEF q
  <2>3. q \o <<Head(toClient)>> \o Tail(toClient) = q \o toClient
    <3>1. <<Head(toClient)>> \o Tail(toClient) = toClient
      BY <1>2, <2>1, MoveHead
    <3>2. (q \o <<Head(toClient)>>) \o Tail(toClient)
            = q \o (<<Head(toClient)>> \o Tail(toClient))
      BY <2>2, ConcatAssociative
    <3> QED
      BY <3>1, <3>2
  <2>4. q \o <<>> \o toClient = q \o toClient
    BY <1>2, <2>2, ConcatEmptySeq
  <2> QED
    BY <1>1, <2>1, <2>3, <2>4, InboxParts DEF q
<1>5. CASE ReceiveEnd
  <2>1. /\ message_queue' = message_queue /\ toClient' = <<>> /\ toClient = <<>>
        /\ ReaderHand = <<>> /\ ReaderHand' = <<Invalid>>
    BY <1>5 DEF ReceiveEnd, ReaderHand, TypeOK
  <2> DEFINE q == RenderHand \o message_queue
  <2>2. q \in Seq(AnyMessage) /\ Invalid \in AnyMessage
    BY <1>2, InvalidAny
  <2> HIDE DEF q
  <2>3. q \o <<Invalid>> \o <<>> = Append(q \o <<>> \o <<>>, Invalid)
    BY <2>2, ConcatEmptySeq
  <2>4. Inbox' = Append(Inbox, Numbered(Invalid, 0))
    BY <1>1, <2>1, <2>3, InboxParts, InvalidMessage DEF q
  <2>5. 0 \in 0..MaxMessages
    OBVIOUS
  <2> QED
    BY <1>1, <2>4, <2>5, InvalidMessage, SameNumbered
       DEF Promise!Next, Promise!Arrive
<1>6. CASE Push
  <2>1. /\ message_queue' = Append(message_queue, message) /\ toClient' = toClient
        /\ ReaderHand = <<message>> /\ ReaderHand' = <<>>
    BY <1>6 DEF Push, ReaderHand, TypeOK
  <2> DEFINE q == RenderHand \o message_queue
  <2>2. q \in Seq(AnyMessage)
    BY <1>2
  <2>3. RenderHand \o Append(message_queue, message) \o <<>> = q \o <<message>>
    BY <1>2, ConcatEmptySeq
  <2> QED
    BY <1>1, <2>1, <2>3, InboxParts
<1> QED
  BY <1>3, <1>4, <1>5, <1>6 DEF Reader

LEMMA ServerRefines ==
  ASSUME TypeOK, Arrive \/ HangUp
  PROVE  [Promise!Next]_<<Inbox, draw_list>>
<1> USE DEF netVars, deadVars, showVars, At
<1>1. /\ draw_list' = draw_list /\ message_queue' = message_queue
      /\ RenderHand' = RenderHand /\ ReaderHand' = ReaderHand
  BY DEF Arrive, HangUp, RenderHand, ReaderHand
<1>2. CASE Arrive
  <2>1. PICK m \in Messages[test_flag] : toClient' = Append(toClient, Numbered(m, sent))
    BY <1>2 DEF Arrive
  <2>2. m \in AllMessages /\ sent \in 0..MaxMessages
    BY SentMessages DEF TypeOK
  <2> DEFINE q == RenderHand \o message_queue \o ReaderHand
  <2>3. q \in Seq(AnyMessage) /\ toClient \in Seq(AnyMessage)
        /\ Numbered(m, sent) \in AnyMessage
    BY <2>2, NumberedMessage, HandTypes DEF TypeOK
  <2>4. Inbox = q \o toClient /\ Inbox' = q \o Append(toClient, Numbered(m, sent))
    BY <1>1, <2>1, InboxParts
  <2> HIDE DEF q
  <2>5. Inbox' = Append(Inbox, Numbered(m, sent))
    BY <2>3, <2>4, AppendLast
  <2> QED
    BY <1>1, <2>2, <2>5, SameNumbered DEF Promise!Next, Promise!Arrive
<1>3. CASE HangUp
  BY <1>1, <1>3, InboxParts DEF HangUp
<1> QED
  BY <1>2, <1>3

LEMMA RenderRefines ==
  ASSUME TypeOK, ~ test_flag, RenderThread
  PROVE  [Promise!Next]_<<Inbox, draw_list>>
<1> USE DEF netVars, deadVars, showVars, At, Goto, Threads, Labels
<1>1. toClient' = toClient /\ ReaderHand' = ReaderHand
  BY DEF RenderThread, Setup, RenderLoop, Pop, ExecuteCommand, ExecuteAgain,
         ExecutePackage, PollSdl, Render, RenderCrash, Reset, RenderEnd, ReaderHand, TypeOK,
         WhileAlive
<1>2. /\ RenderHand \in Seq(AnyMessage) /\ ReaderHand \in Seq(AnyMessage)
      /\ message_queue \in Seq(AnyMessage) /\ toClient \in Seq(AnyMessage)
      /\ package \in AnyMessage
  BY HandTypes DEF TypeOK
<1>3. CASE Setup \/ RenderLoop \/ PollSdl \/ Render \/ RenderCrash \/ Reset \/ RenderEnd
  <2>1. UNCHANGED <<message_queue, draw_list>> /\ RenderHand' = RenderHand
    BY <1>3 DEF Setup, RenderLoop, PollSdl, Render, RenderCrash, Reset, RenderEnd, RenderHand,
                TypeOK, WhileAlive
  <2> QED
    BY <1>1, <2>1, InboxParts
<1>4. CASE Pop
  <2>1. /\ draw_list' = draw_list /\ message_queue' = Tail(message_queue)
        /\ message_queue # <<>>
        /\ RenderHand = <<>> /\ RenderHand' = <<Head(message_queue)>>
    BY <1>4 DEF Pop, RenderHand, TypeOK
  <2>2. <<Head(message_queue)>> \o Tail(message_queue) = <<>> \o message_queue
    BY <1>2, <2>1, MoveHead, ConcatEmptySeq
  <2> QED
    BY <1>1, <2>1, <2>2, InboxParts
<1>5. CASE ExecuteCommand
  <2>1. /\ draw_list' = Execute(draw_list, package) /\ message_queue' = message_queue
        /\ RenderHand = <<package>> /\ RenderHand' = <<>>
    BY <1>5 DEF ExecuteCommand, ExecutePackage, RenderHand, TypeOK
  <2>2. Inbox # <<>> /\ Head(Inbox) = package /\ Inbox' = Tail(Inbox)
    <3> DEFINE t == message_queue \o ReaderHand \o toClient
    <3>1. t \in Seq(AnyMessage)
      BY <1>2
    <3>2. Inbox = <<package>> \o t
      BY <1>2, <2>1, InboxParts, ConcatAssociative
    <3>3. Inbox' = t
      BY <1>1, <1>2, <2>1, InboxParts, ConcatEmptySeq
    <3> HIDE DEF t
    <3> QED
      BY <1>2, <3>1, <3>2, <3>3, TakeHead
  <2> QED
    BY <2>1, <2>2, SameExecute DEF Promise!Next, Promise!Apply
<1> QED
  BY <1>3, <1>4, <1>5 DEF RenderThread, ExecuteAgain

LEMMA MainRefines ==
  ASSUME TypeOK, Main \/ UNCHANGED vars
  PROVE  [Promise!Next]_<<Inbox, draw_list>>
<1> USE DEF netVars, deadVars, showVars, At, Goto, Threads
<1>1. UNCHANGED <<draw_list, toClient, message_queue>>
      /\ RenderHand' = RenderHand /\ ReaderHand' = ReaderHand
  BY DEF Main, MainLoop, MainTimeout, BrokenPipe, TypeExit, TypeShow, ShowCanvas, Wait, vars,
         RenderHand, ReaderHand, TypeOK, WhileAlive
<1> QED
  BY <1>1, InboxParts

\* A client with a window executes each message that arrives once and in the
\* order of arrival, whatever its threads do meanwhile (server_loop, the queue
\* and render_loop, seen through the mapping of ImplementsDisplay).
THEOREM WindowIsDisplay == Spec /\ ~ test_flag => ImplementsDisplay
<1>1. Init => Promise!Init
  <2> SUFFICES ASSUME Init PROVE Inbox = <<>> /\ draw_list = NoItems
    BY DEF Promise!Init, Promise!NoItems, NoItems
  <2> QED
    BY DEF Init, Inbox, Threads
<1>2. ~ test_flag /\ [Next]_vars => ~ test_flag'
  BY DEF Next, vars, netVars, Arrive, HangUp, Reader, ReaderLoop, ReaderTimeout,
         ReaderError, Receive, ReceiveEnd, Push, ReaderEnd, RenderThread, Setup,
         RenderLoop, Pop, ExecuteCommand, ExecuteAgain, ExecutePackage, PollSdl,
         Render, RenderCrash, Reset, RenderEnd, Main, MainLoop, MainTimeout, BrokenPipe,
         TypeExit, TypeShow,
         ShowCanvas, Wait
<1>3. IInv /\ ~ test_flag /\ [Next]_vars => [Promise!Next]_Promise!vars
  BY ServerRefines, ReaderRefines, RenderRefines, MainRefines
     DEF IInv, Next, Promise!vars
<1> QED
  BY Invariance, <1>1, <1>2, <1>3, PTL DEF Spec, ImplementsDisplay, Promise!Spec
=============================================================================
