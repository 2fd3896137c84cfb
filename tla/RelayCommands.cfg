\* Two connected clients, every command.
SPECIFICATION FairSpec
CONSTANTS
    Clients <- MCTwo
    Started <- MCTwo
    Shapes <- MCCircle
    Targets <- MCTargets
    Kinds <- MCAny
    MaxCommands = 3
INVARIANTS TypeOK DrawIdsFresh ClientsAgree
PROPERTIES ImplementsWhiteboard EveryCommandArrives
\* The bound on commands is reached and everything has been delivered.
CHECK_DEADLOCK FALSE
