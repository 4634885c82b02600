SPECIFICATION FairSpec
CONSTANTS
  Clients = {c1}
  NoClient = noClient
  Requests = {r1}
  Burst = FALSE
  MaxEvents = 2
  MaxSlots = 2
  Cap = 1
  MaxWorkers = 1
  WarmTargets = {0, 1}
  Snapshots = TRUE
  StopsFail = TRUE
  Lifetime = TRUE
INVARIANTS TypeOK 
PROPERTIES GhostsLeave WorkersSettle
CHECK_DEADLOCK FALSE
