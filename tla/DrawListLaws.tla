---------------------------- MODULE DrawListLaws ----------------------------
(***************************************************************************)
(* Facts about the operations of a draw list, for any items, users and     *)
(* IDs: what each keeps, where its keys come from, that a bulk message     *)
(* restores the list it was made from, what undo takes back, and which     *)
(* commands commute.  The proofs about the modules that keep draw lists    *)
(* cite them by name.                                                      *)
(***************************************************************************)
EXTENDS Packages, NaturalsInduction, WellFoundedInduction, TLAPS

\* Membership in a draw list, one item at a time.
LEMMA DrawListItem ==
  ASSUME NEW m, IsDrawList(m), NEW i \in DOMAIN m
  PROVE  i \in Nat /\ m[i] \in DrawData /\ m[i].draw_id = i
BY DEF IsDrawList

LEMMA EmptyIsDrawList == IsDrawList(NoItems) /\ DOMAIN NoItems = {}
BY DEF IsDrawList, NoItems

LEMMA KeepIsDrawList ==
  ASSUME NEW m, IsDrawList(m), NEW ids, ids \subseteq DOMAIN m
  PROVE  IsDrawList(Keep(m, ids)) /\ DOMAIN Keep(m, ids) = ids
BY DEF IsDrawList, Keep

\* Inserting files the item under its ID and touches no other.
LEMMA InsertIsDrawList ==
  ASSUME NEW m, IsDrawList(m), NEW data \in DrawData
  PROVE  /\ IsDrawList(Insert(m, data))
         /\ DOMAIN Insert(m, data) = DOMAIN m \union {data.draw_id}
BY DEF IsDrawList, Insert, DrawData

\* Erasing takes away at most the item with that ID.
LEMMA EraseIsDrawList ==
  ASSUME NEW m, IsDrawList(m), NEW id
  PROVE  IsDrawList(Erase(m, id)) /\ DOMAIN Erase(m, id) = DOMAIN m \ {id}
BY KeepIsDrawList, DOMAIN m \ {id} \subseteq DOMAIN m DEF Erase

\* An edited item stays filed under the ID it had.
LEMMA EditIsDrawList ==
  ASSUME NEW m, IsDrawList(m), NEW id, NEW data \in DrawData
  PROVE  IsDrawList(Edit(m, id, data)) /\ DOMAIN Edit(m, id, data) = DOMAIN m
BY DEF IsDrawList, Edit, DrawData

LEMMA ClearIsDrawList ==
  ASSUME NEW m, IsDrawList(m), NEW u
  PROVE  IsDrawList(Clear(m, u)) /\ DOMAIN Clear(m, u) \subseteq DOMAIN m
BY EmptyIsDrawList, KeepIsDrawList, DOMAIN m \ OwnedBy(m, u) \subseteq DOMAIN m
   DEF Clear

LEMMA UndoIsDrawList ==
  ASSUME NEW m, IsDrawList(m), NEW u
  PROVE  IsDrawList(Undo(m, u)) /\ DOMAIN Undo(m, u) \subseteq DOMAIN m
BY EraseIsDrawList DEF Undo

LEMMA LoadIsDrawList ==
  ASSUME NEW bulk \in SUBSET DrawData
  PROVE  IsDrawList(Load(bulk))
<1> DEFINE of(i) == CHOOSE data \in bulk : data.draw_id = i
<1>1. ASSUME NEW i \in {data.draw_id : data \in bulk}
      PROVE  i \in Nat /\ of(i) \in DrawData /\ of(i).draw_id = i
  <2>1. PICK d \in bulk : d.draw_id = i
    OBVIOUS
  <2>2. of(i) \in bulk /\ of(i).draw_id = i
    BY <2>1
  <2> QED
    BY <2>1, <2>2 DEF DrawData
<1> QED
  BY <1>1 DEF IsDrawList, Load

\* Loading what was serialized gives the same draw list.
LEMMA LoadSerialize ==
  ASSUME NEW m, IsDrawList(m)
  PROVE  Load(Serialize(m)) = m /\ Serialize(m) \in SUBSET DrawData
<1>1. Serialize(m) \in SUBSET DrawData
  BY DrawListItem DEF Serialize
<1>2. {data.draw_id : data \in Serialize(m)} = DOMAIN m
  BY DrawListItem DEF Serialize
<1>3. ASSUME NEW i \in DOMAIN m
      PROVE  (CHOOSE data \in Serialize(m) : data.draw_id = i) = m[i]
  <2>1. m[i] \in Serialize(m) /\ m[i].draw_id = i
    BY DrawListItem DEF Serialize
  <2>2. \A data \in Serialize(m) : data.draw_id = i => data = m[i]
    BY DrawListItem DEF Serialize
  <2> QED
    BY <2>1, <2>2
<1>4. m = [i \in DOMAIN m |-> m[i]]
  BY DEF IsDrawList
<1> QED
  BY <1>1, <1>2, <1>3, <1>4 DEF Load

\* Executing any package leaves a draw list, and the only key it can add is
\* the draw ID of an INSERT or those of a BULK.
LEMMA ExecuteIsDrawList ==
  ASSUME NEW m, IsDrawList(m),
         NEW p, p \in Command \union Bulk \/ p.message_type \in {"ID", "INVALID", "ERROR", "GENERIC"}
  PROVE  IsDrawList(Execute(m, p))
<1>1. CASE p \in Command
  BY <1>1, InsertIsDrawList, EditIsDrawList, EraseIsDrawList, ClearIsDrawList,
     UndoIsDrawList DEF Execute, Command
<1>2. CASE p \in Bulk
  BY <1>2, LoadIsDrawList DEF Execute, Bulk
<1>3. CASE p.message_type \in {"ID", "INVALID", "ERROR", "GENERIC"}
  BY <1>3 DEF Execute
<1> QED
  BY <1>1, <1>2, <1>3

LEMMA ExecuteKeys ==
  ASSUME NEW m, IsDrawList(m), NEW p \in Command, NEW i \in DOMAIN Execute(m, p)
  PROVE  i \in DOMAIN m \/ (IsInsert(p) /\ i = p.draw_data.draw_id)
<1>1. CASE p.message_type = "INSERT"
  <2>1. p.draw_data \in DrawData /\ Execute(m, p) = Insert(m, p.draw_data)
    BY <1>1 DEF Execute, Command
  <2>2. i \in DOMAIN m \union {p.draw_data.draw_id}
    BY <2>1, InsertIsDrawList
  <2> QED
    BY <1>1, <2>2 DEF IsInsert
<1>2. CASE p.message_type = "EDIT"
  <2>1. p.draw_data \in DrawData /\ Execute(m, p) = Edit(m, p.draw_id, p.draw_data)
    BY <1>2 DEF Execute, Command
  <2> QED
    BY <2>1, EditIsDrawList
<1>3. CASE p.message_type = "REMOVE"
  <2>1. Execute(m, p) = Erase(m, p.draw_id)
    BY <1>3 DEF Execute
  <2>2. i \in DOMAIN m \ {p.draw_id}
    BY <2>1, EraseIsDrawList
  <2> QED
    BY <2>2
<1>4. CASE p.message_type = "CLEAR"
  BY <1>4, ClearIsDrawList DEF Execute
<1>5. CASE p.message_type = "UNDO"
  BY <1>5, UndoIsDrawList DEF Execute
<1> QED
  BY <1>1, <1>2, <1>3, <1>4, <1>5 DEF Command

\* A handler numbers the packages it receives, the INSERTs.
LEMMA NumberedType ==
  ASSUME NEW p \in Command, NEW id \in Nat
  PROVE  /\ Numbered(p, id) \in Command
         /\ IsInsert(Numbered(p, id)) <=> IsInsert(p)
         /\ IsInsert(p) => Numbered(p, id).draw_data.draw_id = id
<1>1. CASE IsInsert(p)
  <2>1. p \in [message_type : {"INSERT"}, draw_data : DrawData]
    BY <1>1 DEF IsInsert, Command
  <2>2. [p.draw_data EXCEPT !.draw_id = id] \in DrawData
    BY <2>1 DEF DrawData
  <2>3. Numbered(p, id) = [message_type |-> "INSERT",
                           draw_data |-> [p.draw_data EXCEPT !.draw_id = id]]
    BY <1>1, <2>1 DEF Numbered
  <2> QED
    BY <1>1, <2>1, <2>2, <2>3 DEF Command, IsInsert, DrawData
<1>2. CASE ~ IsInsert(p)
  BY <1>2 DEF Numbered
<1> QED
  BY <1>1, <1>2

\* What a user's commands are made of.
LEMMA IssuableType ==
  ASSUME NEW u \in Nat, NEW p \in Issuable(u), NEW id \in Nat
  PROVE  /\ p \in Command
         /\ Numbered(p, id) \in Command
         /\ IsInsert(Numbered(p, id)) <=> IsInsert(p)
         /\ IsInsert(p) => /\ Numbered(p, id).draw_data.draw_id = id
                           /\ Numbered(p, id).draw_data \in DrawData
                           /\ Numbered(p, id).draw_data.user_id \in {u, Everyone}
<1>1. Drawable(u) \subseteq DrawData /\ \A d \in Drawable(u) : d.user_id \in {u, Everyone}
  BY DEF Drawable, DrawData, Everyone
<1>2. PICK kind \in AllKinds : p \in OfKind(kind, u)
  BY KindsAssumption DEF Issuable
<1>3. CASE kind = "draw"
  <2>1. PICK d \in Drawable(u) : p = InsertPackage(d)
    BY <1>2, <1>3 DEF OfKind
  <2>2. [d EXCEPT !.draw_id = id] \in DrawData
    BY <1>1 DEF DrawData
  <2>3. Numbered(p, id) = InsertPackage([d EXCEPT !.draw_id = id])
    BY <2>1 DEF Numbered, IsInsert, InsertPackage
  <2> QED
    BY <1>1, <2>1, <2>2, <2>3 DEF Command, IsInsert, InsertPackage, DrawData
<1>4. CASE kind = "edit"
  <2>1. PICK t \in Targets, d \in Drawable(u) : p = EditPackage(t, d)
    BY <1>2, <1>4 DEF OfKind
  <2> QED
    BY <1>1, <2>1, TargetsAssumption DEF EditPackage, Command, IsInsert, Numbered
<1>5. CASE kind = "delete"
  <2>1. PICK t \in Targets : p = RemovePackage(t)
    BY <1>2, <1>5 DEF OfKind
  <2> QED
    BY <2>1, TargetsAssumption DEF RemovePackage, Command, IsInsert, Numbered
<1>6. CASE kind \in {"undo", "clear_mine", "clear_all"}
  <2>1. \/ p = UndoPackage(u) \/ p = ClearPackage(u) \/ p = ClearPackage(Everyone)
    BY <1>2, <1>6 DEF OfKind
  <2> QED
    BY <2>1 DEF UndoPackage, ClearPackage, Everyone, Command, IsInsert, Numbered
<1> QED
  BY <1>3, <1>4, <1>5, <1>6 DEF AllKinds

-----------------------------------------------------------------------------
(* Undo, and the commands that commute.                                    *)

\* A set of draw IDs below a bound has a highest one, which Newest chooses.
LEMMA NewestIsHighest ==
  ASSUME NEW bound \in Nat, NEW ids, ids # {},
         \A i \in ids : i \in Nat /\ i < bound
  PROVE  Newest(ids) \in ids /\ \A j \in ids : j <= Newest(ids)
<1> DEFINE gaps == {bound - i : i \in ids}
<1>1. gaps \subseteq Nat /\ gaps # {}
  OBVIOUS
<1>2. PICK g \in gaps : \A h \in gaps : ~ (<<h, g>> \in OpToRel(<, Nat))
  BY <1>1, NatLessThanWellFounded, WFMin
<1>3. \A h \in gaps : g <= h
  <2>1. SUFFICES ASSUME NEW h \in gaps, ~ (g <= h) PROVE FALSE
    OBVIOUS
  <2>2. h < g /\ <<h, g>> \in Nat \X Nat
    BY <1>1, <2>1
  <2>3. <<h, g>> \in {ss \in Nat \X Nat : ss[1] < ss[2]}
    BY <2>2
  <2>4. <<h, g>> \in OpToRel(<, Nat)
    BY <2>3 DEF OpToRel
  <2> QED
    BY <1>2, <2>4
<1>4. PICK i \in ids : g = bound - i
  OBVIOUS
<1>5. \A j \in ids : j <= i
  <2>1. SUFFICES ASSUME NEW j \in ids PROVE j <= i
    OBVIOUS
  <2>2. bound - j \in gaps
    OBVIOUS
  <2>3. bound - i <= bound - j
    BY <1>3, <1>4, <2>2
  <2> QED
    BY <2>3
<1> QED
  BY <1>4, <1>5 DEF Newest

\* Undoing right after inserting an item with an ID above all others gives the
\* list before, for the user whose item it is.
LEMMA UndoInsert ==
  ASSUME NEW m, IsDrawList(m), NEW d \in DrawData,
         \A i \in DOMAIN m : i < d.draw_id
  PROVE  Undo(Insert(m, d), d.user_id) = m
<1> DEFINE n == Insert(m, d)
<1> DEFINE own == OwnedBy(n, d.user_id)
<1>1. /\ DOMAIN n = DOMAIN m \union {d.draw_id}
      /\ n[d.draw_id] = d
      /\ \A i \in DOMAIN m : n[i] = m[i]
      /\ d.draw_id \notin DOMAIN m
  BY DEF Insert, DrawData, IsDrawList
<1>2. d.draw_id \in own /\ \A j \in own : j <= d.draw_id
  BY <1>1 DEF OwnedBy, IsDrawList, DrawData
<1>3. Newest(own) = d.draw_id
  <2>1. \A i \in own : (\A j \in own : j <= i) => i = d.draw_id
    BY <1>1, <1>2 DEF OwnedBy, IsDrawList, DrawData
  <2> QED
    BY <1>2, <2>1 DEF Newest
<1>4. Undo(n, d.user_id) = Erase(n, d.draw_id)
  BY <1>2, <1>3 DEF Undo
<1>5. Erase(n, d.draw_id) = [i \in DOMAIN m |-> m[i]]
  BY <1>1 DEF Erase, Keep
<1> QED
  BY <1>4, <1>5 DEF IsDrawList

\* What UNDO and CLEAR of one user erase, of the items the user owns.
Erased(p, own) ==
    IF p.message_type = "CLEAR" THEN own ELSE IF own = {} THEN {} ELSE {Newest(own)}

OfUser(p, u) == p.message_type \in {"UNDO", "CLEAR"} /\ p.user_id = u

\* UNDO and CLEAR of a user erase some of that user's items, and which ones
\* depends on what the user owns only.
LEMMA ErasesOwn ==
  ASSUME NEW m, IsDrawList(m), NEW bound \in Nat, \A i \in DOMAIN m : i < bound,
         NEW u \in Nat, NEW p, OfUser(p, u)
  PROVE  /\ Erased(p, OwnedBy(m, u)) \subseteq OwnedBy(m, u)
         /\ Execute(m, p) = Keep(m, DOMAIN m \ Erased(p, OwnedBy(m, u)))
<1> DEFINE own == OwnedBy(m, u)
<1>1. \A i \in own : i \in Nat /\ i < bound
  BY DEF OwnedBy, IsDrawList
<1>2. CASE p.message_type = "CLEAR"
  BY <1>2 DEF OfUser, Erased, Execute, Clear, Everyone
<1>3. CASE p.message_type = "UNDO" /\ own = {}
  <2>1. Execute(m, p) = m /\ Erased(p, own) = {}
    BY <1>3 DEF OfUser, Erased, Execute, Undo
  <2>2. m = Keep(m, DOMAIN m \ {})
    BY DEF IsDrawList, Keep
  <2> QED
    BY <2>1, <2>2
<1>4. CASE p.message_type = "UNDO" /\ own # {}
  <2>1. Newest(own) \in own
    BY <1>1, <1>4, NewestIsHighest
  <2>2. Execute(m, p) = Erase(m, Newest(own)) /\ Erased(p, own) = {Newest(own)}
    BY <1>4 DEF OfUser, Erased, Execute, Undo
  <2> QED
    BY <2>1, <2>2 DEF Erase
<1> QED
  BY <1>2, <1>3, <1>4 DEF OfUser

\* UNDO and CLEAR of two users commute.
LEMMA ErasuresCommute ==
  ASSUME NEW m, IsDrawList(m), NEW bound \in Nat, \A i \in DOMAIN m : i < bound,
         NEW u \in Nat, NEW v \in Nat, u # v, NEW p, OfUser(p, u), NEW q, OfUser(q, v)
  PROVE  Execute(Execute(m, p), q) = Execute(Execute(m, q), p)
<1> DEFINE X == Erased(p, OwnedBy(m, u))
<1> DEFINE Y == Erased(q, OwnedBy(m, v))
<1>1. X \subseteq OwnedBy(m, u) /\ Execute(m, p) = Keep(m, DOMAIN m \ X)
  BY ErasesOwn
<1>2. Y \subseteq OwnedBy(m, v) /\ Execute(m, q) = Keep(m, DOMAIN m \ Y)
  BY ErasesOwn
<1> DEFINE mp == Keep(m, DOMAIN m \ X)
<1> DEFINE mq == Keep(m, DOMAIN m \ Y)
<1>3. /\ IsDrawList(mp) /\ DOMAIN mp = DOMAIN m \ X
      /\ OwnedBy(mp, v) = OwnedBy(m, v)
      /\ IsDrawList(mq) /\ DOMAIN mq = DOMAIN m \ Y
      /\ OwnedBy(mq, u) = OwnedBy(m, u)
  <2>1. IsDrawList(mp) /\ DOMAIN mp = DOMAIN m \ X
    BY KeepIsDrawList, DOMAIN m \ X \subseteq DOMAIN m
  <2>2. IsDrawList(mq) /\ DOMAIN mq = DOMAIN m \ Y
    BY KeepIsDrawList, DOMAIN m \ Y \subseteq DOMAIN m
  <2>3. OwnedBy(mp, v) = OwnedBy(m, v)
    \* Erasing items of one user changes nothing about what another owns.
    <3> HIDE DEF X
    <3> QED
      BY <1>1 DEF OwnedBy, Keep
  <2>4. OwnedBy(mq, u) = OwnedBy(m, u)
    <3> HIDE DEF Y
    <3> QED
      BY <1>2 DEF OwnedBy, Keep
  <2> QED
    BY <2>1, <2>2, <2>3, <2>4
<1>4. Execute(mp, q) = Keep(mp, (DOMAIN m \ X) \ Y)
  BY <1>3, ErasesOwn
<1>5. Execute(mq, p) = Keep(mq, (DOMAIN m \ Y) \ X)
  BY <1>3, ErasesOwn
<1>6. Keep(mp, (DOMAIN m \ X) \ Y) = Keep(mq, (DOMAIN m \ Y) \ X)
  BY DEF Keep
<1> QED
  BY <1>1, <1>2, <1>4, <1>5, <1>6

\* An INSERT of a new item commutes with UNDO and CLEAR of a user who does not
\* own it.
LEMMA InsertErasureCommute ==
  ASSUME NEW m, IsDrawList(m), NEW bound \in Nat, \A i \in DOMAIN m : i < bound,
         NEW d \in DrawData, d.draw_id \notin DOMAIN m,
         NEW v \in Nat, d.user_id # v, NEW q, OfUser(q, v)
  PROVE  Execute(Insert(m, d), q) = Insert(Execute(m, q), d)
<1> DEFINE n == Insert(m, d)
<1> DEFINE Y == Erased(q, OwnedBy(m, v))
<1>1. IsDrawList(n) /\ DOMAIN n = DOMAIN m \union {d.draw_id}
  BY InsertIsDrawList
<1>2. PICK higher \in Nat : \A i \in DOMAIN n : i < higher
  <2>1. bound + d.draw_id + 1 \in Nat
    BY DEF DrawData
  <2>2. \A i \in DOMAIN n : i < bound + d.draw_id + 1
    BY <1>1 DEF DrawData, IsDrawList
  <2> QED
    BY <2>1, <2>2
<1>3. OwnedBy(n, v) = OwnedBy(m, v)
  BY DEF OwnedBy, Insert
<1>4. Y \subseteq OwnedBy(m, v) /\ Execute(m, q) = Keep(m, DOMAIN m \ Y)
  BY ErasesOwn
<1>5. Execute(n, q) = Keep(n, DOMAIN n \ Y)
  BY <1>1, <1>2, <1>3, ErasesOwn
<1>6. d.draw_id \notin Y
  BY <1>4 DEF OwnedBy
<1>7. Keep(n, DOMAIN n \ Y) = Insert(Keep(m, DOMAIN m \ Y), d)
  BY <1>6 DEF Keep, Insert
<1> QED
  BY <1>4, <1>5, <1>7

\* Two INSERTs with different draw IDs commute.
LEMMA InsertsCommute ==
  ASSUME NEW m, NEW d, NEW e, d.draw_id # e.draw_id
  PROVE  Insert(Insert(m, d), e) = Insert(Insert(m, e), d)
BY DEF Insert
=============================================================================
