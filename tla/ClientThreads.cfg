\* A client with a window or with --test, but no undo for the latter.
SPECIFICATION FairSpec
CONSTANTS
    Shapes <- MCShapes
    UserId = 0
    Kinds = {}
    Targets = {}
    Messages <- MCMessages
    MaxMessages = 2
INVARIANTS TypeOK AloneAtReturn ItemsShown
PROPERTIES ImplementsDisplay EverythingShown ClientTerminates
\* The client may have terminated.
CHECK_DEADLOCK FALSE
