\* Two beats before the first answer, which arrives whole.
CONSTANTS
    MaxTicks = 2
    Segments = {3}
SPECIFICATION Spec
INVARIANTS
    HeaderIsHeader
CHECK_DEADLOCK FALSE
