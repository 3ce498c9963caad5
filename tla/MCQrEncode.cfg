CONSTANT Calls <- MCCalls
SPECIFICATION Spec
CHECK_DEADLOCK FALSE
INVARIANT InBounds
INVARIANT TablesConsistent
INVARIANT SymbolReadable
INVARIANT PatternsIntact
INVARIANT BlocksValid
PROPERTY SegmentsAdvance
