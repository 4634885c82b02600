SPECIFICATION FairSpec
CONSTANTS
    a = a
    b = b
    Instances <- OnlyA
    NoInstance = NoInstance
    Edits <- AllEdits
    SharedDir = TRUE
    Snapshots = TRUE
    LateTicks = FALSE
    MaxSeq = 2
    MaxEpoch = 2
    MaxFaults = 0
    MaxCrashes = 1
CHECK_DEADLOCK FALSE
PROPERTIES
    EverySeqIsServed
