\* Two connections, on one of which a client may send two requests at once.
SPECIFICATION FairSpec
CONSTANTS
    Conns = {c1, c2}
    Requests <- MCRequests
    MaxRequests <- MCMaxRequests
    Workers = 1
    TestingMode = TRUE
    c1 = c1
    c2 = c2
    BadToken = BadToken
INVARIANTS
    TypeOK
    JoinsAreTold
    AllowedMethodsAreNotRefused
PROPERTIES
    ImplementsConversation
    RequestsEnd
    SilentClientsAreDropped
CHECK_DEADLOCK FALSE
