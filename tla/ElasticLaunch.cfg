SPECIFICATION Spec
CONSTANTS
    NoInstance = NoInstance
    NoClient = NoClient
    NoNode = NoNode
    NoRequest = NoRequest
    Instances = {a}
    Nodes = {m, n}
    Calls = {c1, c2}
    Clients = {x}
    Requests = {q}
    Slots = {0}
    Containers = {1, 2}
    MaxWorkers = 1
    MaxDeploy = 1
    MaxEpoch = 2
SYMMETRY Symmetry
INVARIANTS
    TypeOK
    StoppedIsGone
    RunsAlone
    ExecutesOnce
