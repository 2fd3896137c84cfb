\* A client joins while another one draws.
SPECIFICATION Spec
CONSTANTS
    Clients <- MCTwo
    Started <- MCFirst
    Shapes <- MCCircle
    Targets <- MCTargets
    Kinds <- MCDraw
    MaxCommands = 2
INVARIANT JoinersCatchUp
\* The bound on commands is reached and everything has been delivered.
CHECK_DEADLOCK FALSE
