----------------------------- MODULE Whiteboard -----------------------------
(***************************************************************************)
(* What the system promises its users, with no server in sight: one        *)
(* whiteboard with a history of states.  Every command a client issues     *)
(* changes the board exactly once, in the order that client issued its     *)
(* commands; an item drawn gets a draw ID that was never on the board      *)
(* before; and every client shows the states of the board one after the    *)
(* other, skipping none and making up none.                                *)
(***************************************************************************)
EXTENDS Packages, Sequences

CONSTANTS Clients,        \* clients, named by their user IDs
          DrawIds         \* draw IDs

VARIABLES pending,        \* [Clients -> Seq(Command)]: issued, not on the board
          history,        \* the states of the board so far
          pos,            \* [Clients -> Nat]: the state each client shows, by index
          shown           \* [Clients -> draw lists]: and that state itself

vars == <<pending, history, pos, shown>>

Init ==
    /\ pending = [c \in Clients |-> <<>>]
    /\ history = <<NoItems>>
    /\ pos     = [c \in Clients |-> 1]
    /\ shown   = [c \in Clients |-> NoItems]

Board == history[Len(history)]

NeverUsed(id) == \A k \in DOMAIN history : id \notin DOMAIN history[k]

\* A client gives a command.
Issue(c) ==
    /\ \E p \in Issuable(c) : pending' = [pending EXCEPT ![c] = Append(@, p)]
    /\ UNCHANGED <<history, pos, shown>>

\* The client's oldest pending command changes the board.
Publish(c) ==
    /\ pending[c] # <<>>
    /\ \E id \in DrawIds :
          /\ IsInsert(Head(pending[c])) => NeverUsed(id)
          /\ history' = Append(history,
                               Execute(Board, Numbered(Head(pending[c]), id)))
    /\ pending' = [pending EXCEPT ![c] = Tail(@)]
    /\ UNCHANGED <<pos, shown>>

\* The client's display moves on to the next state of the board.
Show(c) ==
    /\ pos[c] < Len(history)
    /\ pos'   = [pos EXCEPT ![c] = @ + 1]
    /\ shown' = [shown EXCEPT ![c] = history[pos[c] + 1]]
    /\ UNCHANGED <<pending, history>>

Next == \E c \in Clients : Issue(c) \/ Publish(c) \/ Show(c)

Fairness == \A c \in Clients : WF_vars(Publish(c)) /\ WF_vars(Show(c))

Spec == Init /\ [][Next]_vars

FairSpec == Spec /\ Fairness
=============================================================================
