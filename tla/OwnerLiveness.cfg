SPECIFICATION FairSpec
CONSTANTS
    a = a
    b = b
    Instances <- MCInstances
    Writers <- OnlyA
    NoInstance = NoInstance
    Second = 1
    TTL = 1
    TruncatesClock = FALSE
    MaxTime = 2
    MaxFaults = 1
CHECK_DEADLOCK FALSE
PROPERTIES
    LeaseIsTakenUp
    ShutdownCompletes
