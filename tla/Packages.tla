------------------------------ MODULE Packages ------------------------------
(***************************************************************************)
(* PB_Package (Serialize.proto), the packages a user's commands become     *)
(* (Client/User_Functionality/Parse_Input.cpp), and what executing one     *)
(* does to a draw list.  The server's switch in execute_and_broadcast and  *)
(* the client's switch in execute_command agree on the five draw commands; *)
(* BULK is known to the client only, and a type that touches no draw list  *)
(* leaves it as it is.                                                     *)
(***************************************************************************)
EXTENDS DrawList, Integers

CONSTANTS Kinds,       \* the commands users type, of AllKinds
          Targets      \* the draw IDs they name in select and delete

AllKinds == {"draw", "edit", "delete", "undo", "clear_mine", "clear_all"}

ASSUME KindsAssumption == Kinds \subseteq AllKinds
ASSUME TargetsAssumption == Targets \subseteq Int

\* The shape of create_empty(): what an ill-formed draw command produces.
NoShape == "none"

\* The shape of a text item with an empty text.
EmptyText == "empty text"

InsertPackage(data)    == [message_type |-> "INSERT", draw_data |-> data]
EditPackage(id, data)  == [message_type |-> "EDIT", draw_id |-> id,
                           draw_data |-> data]
RemovePackage(id)      == [message_type |-> "REMOVE", draw_id |-> id]
ClearPackage(user_id)  == [message_type |-> "CLEAR", user_id |-> user_id]
UndoPackage(user_id)   == [message_type |-> "UNDO", user_id |-> user_id]
BulkPackage(bulk_data) == [message_type |-> "BULK",
                           bulk_draw_data |-> bulk_data]

\* The packages that carry a command, and the one that carries a draw list.
Command ==
    [message_type : {"INSERT"}, draw_data : DrawData]
      \union [message_type : {"EDIT"}, draw_id : Int, draw_data : DrawData]
      \union [message_type : {"REMOVE"}, draw_id : Int]
      \union [message_type : {"CLEAR", "UNDO"}, user_id : Int]

Bulk == [message_type : {"BULK"}, bulk_draw_data : SUBSET DrawData]

IsInsert(package) == package.message_type = "INSERT"

-----------------------------------------------------------------------------
\* create_draw_item: an item of the user's, or the empty item, whose user_id
\* is -1.  The client leaves draw_id at its default, 0.
Drawable(user_id) ==
    {[user_id |-> IF s = NoShape THEN Everyone ELSE user_id,
      draw_id |-> 0, shape |-> s] : s \in Shapes}

\* handle_draw (with and without a selected item), handle_delete, handle_undo
\* and handle_clear: they send whatever create_draw_item returns, and any ID.
OfKind(kind, user_id) ==
    CASE kind = "draw"       -> {InsertPackage(d) : d \in Drawable(user_id)}
      [] kind = "edit"       -> {EditPackage(i, d) : i \in Targets, d \in Drawable(user_id)}
      [] kind = "delete"     -> {RemovePackage(i) : i \in Targets}
      [] kind = "undo"       -> {UndoPackage(user_id)}
      [] kind = "clear_mine" -> {ClearPackage(user_id)}
      [] kind = "clear_all"  -> {ClearPackage(Everyone)}

Issuable(user_id) == UNION {OfKind(kind, user_id) : kind \in Kinds}

\* client_handler gives an INSERT its draw ID, and leaves the rest alone.
Numbered(package, id) ==
    IF IsInsert(package)
    THEN [package EXCEPT !.draw_data.draw_id = id]
    ELSE package

\* Client::execute_command, and the switch of Server::execute_and_broadcast
\* (which knows no BULK).
Execute(m, package) ==
    CASE package.message_type = "INSERT" -> Insert(m, package.draw_data)
      [] package.message_type = "EDIT"   -> Edit(m, package.draw_id, package.draw_data)
      [] package.message_type = "REMOVE" -> Erase(m, package.draw_id)
      [] package.message_type = "CLEAR"  -> Clear(m, package.user_id)
      [] package.message_type = "UNDO"   -> Undo(m, package.user_id)
      [] package.message_type = "BULK"   -> Load(package.bulk_draw_data)
      [] OTHER                           -> m
=============================================================================
