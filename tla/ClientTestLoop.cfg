\* A client, started with --test or not, that is sent draws and undos.
SPECIFICATION FairSpec
CONSTANTS
    Shapes <- MCShapes
    UserId = 0
    Kinds = {}
    Targets = {}
    Messages <- MCUndos
    MaxMessages = 3
PROPERTY ImplementsDisplay
\* The client may have terminated.
CHECK_DEADLOCK FALSE
