\* A client joins while two others draw, undo and clear their own items.
SPECIFICATION Spec
CONSTANTS
    Clients <- MCThree
    Started <- MCTwo
    Shapes <- MCCircle
    Targets <- MCTargets
    Kinds <- MCOwn
    MaxCommands = 3
INVARIANT ServerMatchesClients
\* The bound on commands is reached and everything has been delivered.
CHECK_DEADLOCK FALSE
