\* Three connections, two of them under one username; two are open at a time.
SPECIFICATION Spec
CONSTANTS
    Threads <- Three
    Fds <- Two
    Names <- MCNames
    Login <- AnnBobAnn
INVARIANTS TypeOK NoDanglingEntry OneHandlerPerUser
\* The main thread may have returned, or every client may have left.
CHECK_DEADLOCK FALSE
