\* Safety and liveness: one client with three messages, one that only connects.
\* A body may come in part, and the stack holds two of the three messages, so that
\* a burst exhausts it as well as a closed stream does.
CONSTANTS
    c1 = c1
    c2 = c2
    Clients = {c1, c2}
    BodyUnits = 2
    MaxMessages <- MCMaxMessages
    StackDepth = 2
SPECIFICATION FairSpec
INVARIANTS
    TypeOK
    OneRead
    EchoOnce
    BurstOrder
    Framing
PROPERTIES
    ClientServed
    MessageEchoed
\* The process ends by an assertion, by exhausting its stack or by the user.
CHECK_DEADLOCK FALSE
