------------------------- MODULE OneDrawListProofs -------------------------
(***************************************************************************)
(* The laws of a draw list hold in every state it can get into, for any    *)
(* users, items, targets and number of draws.                              *)
(***************************************************************************)
EXTENDS OneDrawList, DrawListLaws

LEMMA TypeStep == TypeOK /\ [Next]_vars => TypeOK'
<1> SUFFICES ASSUME TypeOK, [Next]_vars PROVE TypeOK'
  OBVIOUS
<1> USE MaxDrawIdAssumption DEF TypeOK
<1>1. ASSUME NEW u \in Users, Draw(u) PROVE TypeOK'
  <2>1. PICK p \in Issuable(u) :
           IsInsert(p) /\ draw_list' = Execute(draw_list, Numbered(p, glb_draw_id))
    BY <1>1 DEF Draw
  <2>2. /\ IsInsert(Numbered(p, glb_draw_id)) /\ Numbered(p, glb_draw_id) \in Command
        /\ Numbered(p, glb_draw_id).draw_data.draw_id = glb_draw_id
    BY <2>1, UsersAssumption, IssuableType
  <2>3. IsDrawList(draw_list')
    BY <2>1, <2>2, ExecuteIsDrawList
  <2>4. \A i \in DOMAIN draw_list' : i \in DOMAIN draw_list \/ i = glb_draw_id
    BY <2>1, <2>2, ExecuteKeys
  <2>5. glb_draw_id' = glb_draw_id + 1 /\ glb_draw_id < MaxDrawId
    BY <1>1 DEF Draw
  <2> QED
    BY <2>3, <2>4, <2>5 DEF IsDrawList
<1>2. ASSUME NEW u \in Users, Change(u) PROVE TypeOK'
  <2>1. PICK p \in Issuable(u) : ~ IsInsert(p) /\ draw_list' = Execute(draw_list, p)
    BY <1>2 DEF Change
  <2>2. p \in Command
    BY <2>1, UsersAssumption, IssuableType
  <2>3. IsDrawList(draw_list') /\ DOMAIN draw_list' \subseteq DOMAIN draw_list
    BY <2>1, <2>2, ExecuteIsDrawList, ExecuteKeys
  <2> QED
    BY <1>2, <2>3 DEF Change
<1>3. CASE UNCHANGED vars
  BY <1>3 DEF vars
<1> QED
  BY <1>1, <1>2, <1>3 DEF Next

\* In every state the keys are the items' own IDs, all below the counter.
THEOREM TypeCorrect == Spec => []TypeOK
<1>1. Init => TypeOK
  BY EmptyIsDrawList, MaxDrawIdAssumption DEF Init, TypeOK
<1> QED
  BY <1>1, TypeStep, PTL DEF Spec

\* A bulk message restores the draw list it was made from (serialize, load).
THEOREM BulkCorrect == Spec => []BulkRestores
<1>1. TypeOK => BulkRestores
  BY LoadSerialize DEF TypeOK, BulkRestores
<1> QED
  BY <1>1, TypeCorrect, PTL

\* undo takes back the user's last draw and nothing else.
THEOREM UndoCorrect == Spec => []UndoRevertsDraw
<1>1. TypeOK => UndoRevertsDraw
  <2> SUFFICES ASSUME TypeOK, NEW u \in Users, NEW s \in Shapes
               PROVE  LET item == [user_id |-> u, draw_id |-> glb_draw_id, shape |-> s]
                      IN  Undo(Insert(draw_list, item), u) = draw_list
    BY DEF UndoRevertsDraw
  <2> DEFINE item == [user_id |-> u, draw_id |-> glb_draw_id, shape |-> s]
  <2>1. item \in DrawData /\ item.draw_id = glb_draw_id /\ item.user_id = u
    BY UsersAssumption, MaxDrawIdAssumption DEF TypeOK, DrawData
  <2>2. IsDrawList(draw_list) /\ \A i \in DOMAIN draw_list : i < item.draw_id
    BY <2>1 DEF TypeOK
  <2> HIDE DEF item
  <2> QED
    BY <2>1, <2>2, UndoInsert DEF item
<1> QED
  BY <1>1, TypeCorrect, PTL

\* The commands two users give about their own items commute, whatever the
\* draw list (undo, clear, insert with the IDs client_handler gives).
THEOREM CommuteCorrect == Spec => []OwnCommandsCommute
<1>1. TypeOK => OwnCommandsCommute
  <2> SUFFICES ASSUME TypeOK, NEW u \in Users, NEW v \in Users, u # v,
                      NEW p \in OwnCommands(u, glb_draw_id),
                      NEW q \in OwnCommands(v, glb_draw_id + 1)
               PROVE  Execute(Execute(draw_list, p), q) = Execute(Execute(draw_list, q), p)
    BY DEF OwnCommandsCommute
  <2>1. /\ IsDrawList(draw_list) /\ glb_draw_id \in Nat
        /\ \A i \in DOMAIN draw_list : i < glb_draw_id
        /\ u \in Nat /\ v \in Nat
    BY UsersAssumption, MaxDrawIdAssumption DEF TypeOK
  <2>2. ASSUME NEW w \in Nat, NEW id \in Nat, NEW r \in OwnCommands(w, id)
        PROVE  \/ OfUser(r, w)
               \/ /\ IsInsert(r) /\ r.draw_data \in DrawData
                  /\ r.draw_data.draw_id = id
                  /\ r.draw_data.user_id \in {w, Everyone}
    <3>1. PICK o \in Issuable(w) :
             /\ r = Numbered(o, id)
             /\ IsInsert(o) \/ OfUser(o, w)
      BY <2>2 DEF OwnCommands, OfUser
    <3>2. CASE IsInsert(o)
      BY <3>1, <3>2, IssuableType
    <3>3. CASE ~ IsInsert(o)
      BY <3>1, <3>3 DEF Numbered
    <3> QED
      BY <3>2, <3>3
  <2>3. ASSUME NEW m, NEW r, IsInsert(r) PROVE Execute(m, r) = Insert(m, r.draw_data)
    BY <2>3 DEF Execute, IsInsert
  <2>4. CASE OfUser(p, u) /\ OfUser(q, v)
    BY <2>1, <2>4, ErasuresCommute
  <2>5. CASE IsInsert(p) /\ OfUser(q, v)
    <3>1. /\ p.draw_data \in DrawData /\ p.draw_data.draw_id \notin DOMAIN draw_list
          /\ p.draw_data.user_id # v
      BY <2>1, <2>2, <2>5 DEF OfUser, IsInsert, Everyone
    <3>2. Execute(Insert(draw_list, p.draw_data), q) = Insert(Execute(draw_list, q), p.draw_data)
      BY <2>1, <2>5, <3>1, InsertErasureCommute
    <3> QED
      BY <2>3, <2>5, <3>2
  <2>6. CASE OfUser(p, u) /\ IsInsert(q)
    <3>1. /\ q.draw_data \in DrawData /\ q.draw_data.draw_id \notin DOMAIN draw_list
          /\ q.draw_data.user_id # u
      BY <2>1, <2>2, <2>6 DEF OfUser, IsInsert, Everyone
    <3>2. Execute(Insert(draw_list, q.draw_data), p) = Insert(Execute(draw_list, p), q.draw_data)
      BY <2>1, <2>6, <3>1, InsertErasureCommute
    <3> QED
      BY <2>3, <2>6, <3>2
  <2>7. CASE IsInsert(p) /\ IsInsert(q)
    <3>1. p.draw_data.draw_id = glb_draw_id /\ q.draw_data.draw_id = glb_draw_id + 1
      BY <2>1, <2>2, <2>7 DEF OfUser, IsInsert
    <3> QED
      BY <2>1, <2>3, <2>7, <3>1, InsertsCommute
  <2> QED
    BY <2>1, <2>2, <2>4, <2>5, <2>6, <2>7
<1> QED
  BY <1>1, TypeCorrect, PTL
=============================================================================
