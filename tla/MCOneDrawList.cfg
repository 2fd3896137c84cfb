\* Two users, every command, well-formed and empty items, four draw IDs.
SPECIFICATION Spec
CONSTANTS
    Users <- MCUsers
    Shapes <- MCShapes
    Targets <- MCTargets
    Kinds <- MCKinds
    MaxDrawId = 4
INVARIANTS TypeOK BulkRestores UndoRevertsDraw OwnCommandsCommute
