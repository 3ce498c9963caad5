\* A header that arrives in two segments fails the assertion.
CONSTANTS
    c1 = c1
    c2 = c2
    Clients = {c1, c2}
    BodyUnits = 1
    MaxMessages <- MCMaxMessages
    StackDepth = 4
SPECIFICATION Spec
INVARIANTS
    HeaderWhole
CHECK_DEADLOCK FALSE
