SPECIFICATION FairServerSpec
CONSTANTS
    Services = {}
    Namespaces = {}
    ConfigTypes = {}
    Contexts = {0, 1}
    NoReq = NoReq
    Absent = Absent
    NoConn = NoConn
    Conns = {c1, c2}
    Dequeuers = {sendPushes}
    Jobs = {j1}
    Requests = {}
    PushThrottle = 1
    Goroutines = {g1}
    MaxVersion = 1
    Failures = {c1}
INVARIANTS
    ServerTypeOK
    TokensCountPushes
    DoneOncePerEvent
    StaleOnlyByKnownCause
CHECK_DEADLOCK FALSE
PROPERTIES
    PushesArrive
    ClosedConnectionsDrain
