SPECIFICATION Spec
CONSTANTS
    local = local
    remote = remote
    e1 = e1
    e2 = e2
    a1 = a1
    a2 = a2
    Clusters <- MCClusters
    Endpoints <- MCEndpoints
    Account <- MCAccount
    Changing <- MCClusters
    InitialKube <- MCInitialKube
    EndpointSets <- MCEndpointSets
    Local = local
    NoEntry = NoEntry
    NoAssignment = NoAssignment
    MaxControllers = 3
    MaxChanges = 3
INVARIANT SecureNaming
CHECK_DEADLOCK FALSE
