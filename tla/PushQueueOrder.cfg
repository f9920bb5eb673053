SPECIFICATION OrderSpec
CONSTANTS
    Services = {}
    Namespaces = {}
    ConfigTypes = {}
    Contexts = {0, 1, 2, 3}
    MaxContext = 3
    NoReq = NoReq
    Absent = Absent
    Conns = {c1}
    Dequeuers = {d1}
    Jobs = {j1, j2}
    Requests = {}
INVARIANT MergeKeepsNewest
CHECK_DEADLOCK FALSE
