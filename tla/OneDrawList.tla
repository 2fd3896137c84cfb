---------------------------- MODULE OneDrawList ----------------------------
(***************************************************************************)
(* One DrawList object and its callers: the commands of any users, executed*)
(* one after the other, on a list that only ever gets items through the    *)
(* server's counter of draw IDs.  The laws below are those the rest of the *)
(* system relies on: the bulk message (Serialize, then Load), undo, and    *)
(* the commands whose order between two users does not matter.             *)
(***************************************************************************)
EXTENDS Packages

CONSTANTS Users,          \* user IDs
          MaxDrawId       \* bound on the counter of draw IDs

ASSUME UsersAssumption == Users \subseteq Nat
ASSUME MaxDrawIdAssumption == MaxDrawId \in Nat

VARIABLES draw_list, glb_draw_id

vars == <<draw_list, glb_draw_id>>

Init == draw_list = NoItems /\ glb_draw_id = 0

\* An INSERT takes the next draw ID, as in client_handler.
Draw(u) ==
    /\ glb_draw_id < MaxDrawId
    /\ \E p \in Issuable(u) :
          /\ IsInsert(p)
          /\ draw_list' = Execute(draw_list, Numbered(p, glb_draw_id))
    /\ glb_draw_id' = glb_draw_id + 1

Change(u) ==
    /\ \E p \in Issuable(u) :
          /\ ~ IsInsert(p)
          /\ draw_list' = Execute(draw_list, p)
    /\ UNCHANGED glb_draw_id

Next == \E u \in Users : Draw(u) \/ Change(u)

Spec == Init /\ [][Next]_vars

-----------------------------------------------------------------------------
\* The map's keys are the draw IDs of its items, all given out already.
TypeOK ==
    /\ glb_draw_id \in 0..MaxDrawId
    /\ IsDrawList(draw_list)
    /\ \A i \in DOMAIN draw_list : i < glb_draw_id

\* What a joining client loads is what the server serialized: no item is
\* lost, duplicated or filed under another ID on the way (serialize, load).
BulkRestores == Load(Serialize(draw_list)) = draw_list

\* undo takes back exactly the user's last draw: inserting an item with the
\* next draw ID and undoing leaves every other item, whoever drew it, as it
\* was (undo's reverse traversal, client_handler's counter).
UndoRevertsDraw ==
    \A u \in Users, s \in Shapes :
        LET item == [user_id |-> u, draw_id |-> glb_draw_id, shape |-> s]
        IN  Undo(Insert(draw_list, item), u) = draw_list

\* The commands a user gives about their own items, an INSERT with the draw
\* ID it was given.
OwnCommands(u, id) ==
    {Numbered(p, id) : p \in {q \in Issuable(u) :
        \/ IsInsert(q)
        \/ q.message_type \in {"UNDO", "CLEAR"} /\ q.user_id = u}}

\* Two users' own commands commute: whichever of them a draw list executes
\* first, it ends up the same.  Everything the relay does to the order of
\* commands of different users is harmless exactly because of this.
OwnCommandsCommute ==
    \A u, v \in Users :
        u # v =>
          \A p \in OwnCommands(u, glb_draw_id), q \in OwnCommands(v, glb_draw_id + 1) :
              Execute(Execute(draw_list, p), q) = Execute(Execute(draw_list, q), p)
=============================================================================
