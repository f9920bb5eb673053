SPECIFICATION Spec
CONSTANTS
    Collections <- MCCollections
    IncSource <- MCInc
    IncSink <- MCInc
    Contents <- MCContents
    MaxBreaks = 1
    MaxNacks = 1
    NoSnapshot = NoSnapshot
INVARIANTS TypeOK OneTurn NoStaleRequests NoLeakedWatches SyncedMeansHeld
PROPERTY SinkConverges
CHECK_DEADLOCK FALSE
