SPECIFICATION Spec
CONSTANTS
    a = a
    b = b
    Instances <- MCInstances
    Writers <- MCInstances
    NoInstance = NoInstance
    Second = 1
    TTL = 2
    TruncatesClock = FALSE
    MaxTime = 3
    MaxFaults = 2
SYMMETRY Symmetry
CHECK_DEADLOCK FALSE
INVARIANTS
    TypeOK
    EpochsAreUnique
    SpanKeepsItsEpoch
    AdmissionNeedsCurrentSpan
    
PROPERTIES
    WritesInEpochOrder
    
    ImplementsLease
