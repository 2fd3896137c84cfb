------------------------------ MODULE Channel ------------------------------
(***************************************************************************)
(* What a connection promises to those who send and receive whole messages *)
(* over it: they arrive complete, once and in order, and after the last    *)
(* one the receiver may be told that the connection is gone.  Relay and    *)
(* ClientThreads take connections to be like this.                         *)
(***************************************************************************)
EXTENDS Sequences

CONSTANT Messages

VARIABLES queue,          \* messages under way
          delivered,      \* messages received
          over            \* the receiver was told of a disconnection

vars == <<queue, delivered, over>>

Init ==
    /\ queue = <<>>
    /\ delivered = <<>>
    /\ over = FALSE

Put ==
    /\ \E m \in Messages : queue' = Append(queue, m)
    /\ UNCHANGED <<delivered, over>>

Take ==
    /\ ~ over
    /\ queue # <<>>
    /\ delivered' = Append(delivered, Head(queue))
    /\ queue' = Tail(queue)
    /\ UNCHANGED over

Disconnect ==
    /\ over' = TRUE
    /\ UNCHANGED <<queue, delivered>>

Next == Put \/ Take \/ Disconnect

Spec == Init /\ [][Next]_vars
=============================================================================
