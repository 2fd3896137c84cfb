------------------------------ MODULE DrawList ------------------------------
(***************************************************************************)
(* The draw list (Common/DrawList.cpp): the std::map from draw IDs to draw *)
(* items that the server and every client keep.  Every operation of the    *)
(* class takes access_mutex for its whole body, so each is one operator    *)
(* from the old map to the new one.  A map is a function whose domain is   *)
(* the set of keys.  Of the oneof draw_item only the kind is kept.         *)
(***************************************************************************)
LOCAL INSTANCE Integers
LOCAL INSTANCE FiniteSets

CONSTANT Shapes        \* the kinds of draw item, create_empty()'s included

Everyone == -1         \* the user_id that stands for "all users"

\* PB_DrawData of Serialize.proto; draw IDs are counted up from 0.
DrawData == [user_id : Int, draw_id : Nat, shape : Shapes]

NoItems == [i \in {} |-> i]

\* A map of draw items in which every item is filed under its own draw ID.
IsDrawList(m) ==
    /\ m = [i \in DOMAIN m |-> m[i]]
    /\ DOMAIN m \subseteq Nat
    /\ \A i \in DOMAIN m : m[i] \in DrawData /\ m[i].draw_id = i

OwnedBy(m, user_id) == {i \in DOMAIN m : m[i].user_id = user_id}

Keep(m, ids) == [i \in ids |-> m[i]]

Newest(ids) == CHOOSE i \in ids : \A j \in ids : j <= i

-----------------------------------------------------------------------------
\* Mutant of Insert: the item is filed under the size of the map.
InsertAtEnd(m, data) ==
    LET last == Cardinality(DOMAIN m)
    IN  [i \in DOMAIN m \union {last} |-> IF i = last THEN data ELSE m[i]]

Insert(m, data) ==
    [i \in DOMAIN m \union {data.draw_id} |->
        IF i = data.draw_id THEN data ELSE m[i]]

Erase(m, id) == Keep(m, DOMAIN m \ {id})

\* Mutant of Edit: the draw ID of the new data is kept.
EditWithoutID(m, id, new_data) ==
    [i \in DOMAIN m |-> IF i = id THEN new_data ELSE m[i]]

\* CopyFrom overwrites the whole item, its owner included; only the draw ID
\* is put back.
Edit(m, id, new_data) ==
    [i \in DOMAIN m |->
        IF i = id THEN [new_data EXCEPT !.draw_id = m[i].draw_id] ELSE m[i]]

Clear(m, user_id) ==
    IF user_id = Everyone
    THEN NoItems
    ELSE Keep(m, DOMAIN m \ OwnedBy(m, user_id))

\* Mutants of Undo: the traversal runs forwards; it ignores the user.
UndoOldest(m, user_id) ==
    IF OwnedBy(m, user_id) = {}
    THEN m
    ELSE Erase(m, CHOOSE i \in OwnedBy(m, user_id) :
                     \A j \in OwnedBy(m, user_id) : i <= j)

UndoOfAnyone(m, user_id) ==
    IF DOMAIN m = {} THEN m ELSE Erase(m, Newest(DOMAIN m))

\* The reverse traversal stops at the first item of the user, the one with
\* the highest draw ID.
Undo(m, user_id) ==
    IF OwnedBy(m, user_id) = {}
    THEN m
    ELSE Erase(m, Newest(OwnedBy(m, user_id)))

\* Mutant of Serialize: items that draw nothing are not sent.
SerializeOwned(m) == {m[i] : i \in DOMAIN m \ OwnedBy(m, Everyone)}

\* The repeated field is filled in key order; as the receiver files the items
\* by draw ID, the set of items says as much as the sequence.
Serialize(m) == {m[i] : i \in DOMAIN m}

Load(bulk_data) ==
    [i \in {data.draw_id : data \in bulk_data} |->
        CHOOSE data \in bulk_data : data.draw_id = i]

\* add_to_renderer: the items that are drawn.
Rendered(m, user_id) ==
    IF user_id = Everyone THEN m ELSE Keep(m, OwnedBy(m, user_id))
=============================================================================
