SPECIFICATION Spec
CONSTANTS
  Clients = {c1, c2}
  NoClient = noClient
  Requests = {r1, r2}
  Burst = FALSE
  MaxEvents = 1
  MaxSlots = 2
  Cap = 1
  MaxWorkers = 2
  WarmTargets = {1}
  Snapshots = TRUE
  StopsFail = TRUE
  Lifetime = FALSE
SYMMETRY Symmetry
INVARIANTS  BindingsAreRoutable
PROPERTY DrainAdmitsNoOne
CHECK_DEADLOCK FALSE
