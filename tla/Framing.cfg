SPECIFICATION FairSpec
CONSTANTS
    Threads = {handler, other}
    Owner = handler
    Messages = {"short", "long"}
    Size <- MCSize
    PrefixSize = 2
    BUFFER_SIZE = 2
    Capacity = 3
    MaxSent = 3
    MaxGarbage = 2
INVARIANT TypeOK
PROPERTIES
    ImplementsChannel
    EveryMessageArrives
    BroadcastEnds
CHECK_DEADLOCK FALSE
