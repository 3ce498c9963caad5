\* Stop() does not return: one worker, as ControlCenter::Init() creates.
CONSTANTS
    Workers = {w1}
    MaxPosts = 2
SPECIFICATION FairSpec
PROPERTIES
    StopReturns
CHECK_DEADLOCK FALSE
