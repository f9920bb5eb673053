SPECIFICATION FairSpec
CONSTANTS
    Services = {"svc"}
    Namespaces = {"ns1", "ns2"}
    ConfigTypes = {"ServiceEntry", "VirtualService"}
    Contexts <- MCContexts
    NoReq = NoReq
    Absent = Absent
    Conns = {c1, c2}
    Dequeuers = {d1, d2}
    Jobs = {j1, j2}
    Requests <- MCRequests
INVARIANTS
    TypeOK
    OrderMatchesMap
    OnePushPerConnection
    NoLostWakeup
PROPERTIES
    EventuallyPushed
    ImplementsCoalescer
