CONSTANTS
    Clients = {c1, c2}
    Modes = {"preserve", "drain"}
    RelayLimit = 1
    MaxProcs = 3
    MaxBackends = 2
SPECIFICATION FairSpec
INVARIANTS
    TypeOK
    RelaysWithinLimit
    SomeoneAnswers
PROPERTIES
    RetainedSessionsLast
    OperationsResume
CHECK_DEADLOCK FALSE
