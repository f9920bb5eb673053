SPECIFICATION Spec
CONSTANTS
    Configs = {c1, c2}
    MaxEpoch = 3
    NoConfig = NoConfig
INVARIANTS TypeOK NoOrphans
PROPERTIES AgentStopsItsProxies RestartsStart
CHECK_DEADLOCK FALSE
