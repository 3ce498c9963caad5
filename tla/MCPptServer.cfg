\* Safety and liveness: two clients, one chunk from each, three
\* posted tasks.
CONSTANTS
    Sessions = {s1, s2}
    MaxPosts = 3
    MaxRecv = 1
    Chunks <- MCChunks
SPECIFICATION FairSpec
INVARIANTS
    TypeOK
    ChunksContiguous
    StopIsLast
    TerminateCauses
PROPERTIES
    CommandTaken
    StopTaskReturns
    ClosedSessionReaped
\* The process may end by std::terminate(), crash or hang in Stop().
CHECK_DEADLOCK FALSE
