\* Safety, refinement and liveness: three workers, batches of up to two, three callbacks.
CONSTANTS
    Threads = {t1, t2, t3}
    BatchSize = 2
    MaxPosts = 3
SPECIFICATION FairSpec
INVARIANTS
    TypeOK
    Ownership
    StopSound
PROPERTIES
    ImplementsExecutor
    StopReturns
    QueueServed
\* The program ends with the destructor, and hangs in it after a missed APC.
CHECK_DEADLOCK FALSE
