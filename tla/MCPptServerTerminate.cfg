\* A client that leaves at once ends the process: one client is enough.
CONSTANTS
    Sessions = {s1}
    MaxPosts = 2
    MaxRecv = 1
    Chunks <- MCChunks
SPECIFICATION Spec
INVARIANTS
    SessionDiesElsewhere
CHECK_DEADLOCK FALSE
