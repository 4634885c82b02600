SPECIFICATION Spec
CONSTANTS
    a = a
    b = b
    Instances <- MCInstances
    NoInstance = NoInstance
    Edits <- ShapeEdits
    SharedDir = TRUE
    Snapshots = FALSE
    LateTicks = TRUE
    MaxSeq = 2
    MaxEpoch = 2
    MaxFaults = 1
    MaxCrashes = 0
SYMMETRY Symmetry
CHECK_DEADLOCK FALSE
INVARIANTS
    TypeOK
    StructureStaysOwed
    LeaseholderKeepsItsClaim
PROPERTIES
    OneOutcomePerSeq
