CONSTANT Calls <- SmallBlocks
SPECIFICATION Spec
CHECK_DEADLOCK FALSE
INVARIANT EveryBlockValid
