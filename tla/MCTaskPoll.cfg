\* Safety, refinement and liveness: three workers and four tasks.
CONSTANTS
    Workers = {w1, w2, w3}
    MaxPosts = 4
SPECIFICATION FairSpec
INVARIANTS
    TypeOK
    Monitor
    Fifo
PROPERTIES
    ImplementsExecutor
    EveryTaskServed
\* With no worker created, or all of them waiting, nothing is left to do.
CHECK_DEADLOCK FALSE
