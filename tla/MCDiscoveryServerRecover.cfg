SPECIFICATION FairServerSpec
CONSTANTS
    Services = {}
    Namespaces = {}
    ConfigTypes = {}
    Contexts = {0, 1, 2}
    NoReq = NoReq
    Absent = Absent
    NoConn = NoConn
    Conns = {c1}
    Dequeuers = {sendPushes}
    Jobs = {j1, j2}
    Requests = {}
    PushThrottle = 1
    Goroutines = {g1, g2}
    MaxVersion = 2
    Failures = {}
CHECK_DEADLOCK FALSE
PROPERTY StaleClientsRecover
