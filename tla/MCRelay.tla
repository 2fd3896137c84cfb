------------------------------ MODULE MCRelay ------------------------------
EXTENDS Relay
MCTwo == {0, 1}
MCThree == {0, 1, 2}
MCFirst == {0}
MCCircle == {"circle"}
MCTargets == {0}
MCDraw == {"draw"}
MCOwn == {"draw", "undo", "clear_mine"}
MCAny == AllKinds
MCDrawEdit == {"draw", "edit"}
=============================================================================
