----------------------------- MODULE MCRegistry -----------------------------
EXTENDS Registry
Two == {1, 2}
Three == {1, 2, 3}
MCNames == {"ann", "bob"}
AnnBob == [h \in {1, 2} |-> IF h = 1 THEN "ann" ELSE "bob"]
AnnBobAnn == [h \in {1, 2, 3} |-> IF h = 2 THEN "bob" ELSE "ann"]
=============================================================================
