\* Safety and liveness: three beats, answers in segments of any size up to two
\* messages.
CONSTANTS
    MaxTicks = 3
    Segments = {1, 2, 3, 4, 5, 6}
SPECIFICATION FairSpec
INVARIANTS
    TypeOK
    AnswersInTurn
PROPERTIES
    TickTaken
    MutexReleased
\* The process ends by an assertion or an exception, or its timer stops.
CHECK_DEADLOCK FALSE
