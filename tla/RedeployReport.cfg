SPECIFICATION Spec
CONSTANTS
    a = a
    b = b
    Instances <- OnlyA
    NoInstance = NoInstance
    Edits <- FewEdits
    SharedDir = TRUE
    Snapshots = FALSE
    LateTicks = FALSE
    MaxSeq = 2
    MaxEpoch = 1
    MaxFaults = 0
    MaxCrashes = 0
CHECK_DEADLOCK FALSE
INVARIANT
    ReportIsTrue
