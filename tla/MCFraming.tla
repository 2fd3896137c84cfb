----------------------------- MODULE MCFraming -----------------------------
(* Framing with a message of one byte and one of three, in chunks of two.  *)
EXTENDS Framing

MCSize == [m \in Messages |-> IF m = "short" THEN 1 ELSE 3]
=============================================================================
