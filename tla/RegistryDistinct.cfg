\* Two connections under two usernames, with fairness.
SPECIFICATION FairSpec
CONSTANTS
    Threads <- Two
    Fds <- Two
    Names <- MCNames
    Login <- AnnBob
PROPERTIES LoginAnswered NameFreed ShutdownCompletes
\* The main thread may have returned, or every client may have left.
CHECK_DEADLOCK FALSE
