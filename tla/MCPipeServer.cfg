\* Safety and liveness: two clients, each of which may send two messages, the
\* owner stops the server at most twice.
CONSTANTS
    MaxClients = 2
    MaxMessages = 2
    MaxSession = 3
SPECIFICATION FairSpec
INVARIANTS
    TypeOK
    OneAccept
    SessionsClosable
    AssertCauses
PROPERTIES
    MessageReceived
\* The process ends by an assertion, by the release of its manager or in time.
CHECK_DEADLOCK FALSE
