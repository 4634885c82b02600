SPECIFICATION Spec
CONSTANTS
    NoInstance = NoInstance
    NoClient = NoClient
    NoNode = NoNode
    NoRequest = NoRequest
    Instances = {a}
    Nodes = {m}
    Calls = {c1, c2}
    Clients = {x}
    Requests = {q}
    Slots = {0, 1}
    Containers = {1}
    MaxWorkers = 1
    MaxDeploy = 1
    MaxEpoch = 2
SYMMETRY Symmetry
PROPERTIES
    ImplementsSlots
    StaleOwnerIsFenced
