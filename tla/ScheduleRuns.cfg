CONSTANTS
    Managers = {m1, m2}
    Schedules = {1, 2}
    Publishing = {1}
    Queueing = {1}
    Concurrent = {2}
    Versions = {v1, v2}
    Runs = {1, 2, 3}
    None = None
    MaxCalls = 2
    MaxDeploys = 1
    MaxWakes = 1
    MaxRequests = 3
    MaxFaults = 1
SPECIFICATION Spec
SYMMETRY Alike
INVARIANTS
    TypeOK
    OneWriter
    BootsOnItsData
    FencedIsAlone
    DamageIsRecorded
    QuarantinedIsDown
    NoStandstill
CHECK_DEADLOCK FALSE
