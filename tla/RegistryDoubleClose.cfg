\* Two connections under two usernames, and a descriptor used again.
SPECIFICATION Spec
CONSTANTS
    Threads <- Two
    Fds <- Two
    Names <- MCNames
    Login <- AnnBob
PROPERTY HangsUpOwnUser
\* The main thread may have returned, or every client may have left.
CHECK_DEADLOCK FALSE
