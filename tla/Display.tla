------------------------------ MODULE Display ------------------------------
(***************************************************************************)
(* What a client promises, and what Relay takes it to be: messages arrive  *)
(* in an inbox, and each is executed on the client's draw list exactly     *)
(* once, in the order of arrival.  A client may stop at any time.          *)
(***************************************************************************)
EXTENDS Packages, Sequences

CONSTANTS Messages,       \* what the server sends
          DrawIds         \* the draw IDs it gives to items

VARIABLES inbox, client_list

vars == <<inbox, client_list>>

Init ==
    /\ inbox = <<>>
    /\ client_list = NoItems

Arrive ==
    /\ \E m \in Messages, id \in DrawIds : inbox' = Append(inbox, Numbered(m, id))
    /\ UNCHANGED client_list

Apply ==
    /\ inbox # <<>>
    /\ client_list' = Execute(client_list, Head(inbox))
    /\ inbox' = Tail(inbox)

Next == Arrive \/ Apply

Spec == Init /\ [][Next]_vars
=============================================================================
