--------------------------- MODULE MCOneDrawList ---------------------------
EXTENDS OneDrawList
MCUsers == {0, 1}
MCShapes == {"circle", NoShape}
MCTargets == {0, 2}
MCKinds == AllKinds
=============================================================================
