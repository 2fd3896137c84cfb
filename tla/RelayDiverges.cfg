\* Two clients edit the same item.
SPECIFICATION Spec
CONSTANTS
    Clients <- MCTwo
    Started <- MCTwo
    Shapes <- MCCircle
    Targets <- MCTargets
    Kinds <- MCDrawEdit
    MaxCommands = 3
INVARIANT ServerMatchesClients
\* The bound on commands is reached and everything has been delivered.
CHECK_DEADLOCK FALSE
