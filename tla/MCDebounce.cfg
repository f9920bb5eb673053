SPECIFICATION FairSpec
CONSTANTS
    Services = {"svc"}
    Namespaces = {"ns1"}
    ConfigTypes = {}
    Contexts = {0}
    NoReq = NoReq
    DebounceAfter = 2
    DebounceMax = 3
    ChanCap = 1
    Callers = {c1, c2}
    Requests <- MCRequests
    MaxBurst = 1
    MaxImmediate = 1
    Off = Off
    Nobody = Nobody
    PushGoroutine = PushGoroutine
INVARIANTS
    TypeOK
    OnePushAtATime
    NeverStuck
    DelayBound
PROPERTIES
    ImplementsCoalescer
    EventuallyPushed
    CallersReturn
