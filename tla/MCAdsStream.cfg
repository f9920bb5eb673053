SPECIFICATION Spec
CONSTANTS
    c1 = c1
    c2 = c2
    r1 = r1
    r2 = r2
    Clusters <- MCClusters
    Routes <- MCRoutes
    ClustersOf <- MCClustersOf
    RoutesOf <- MCRoutesOf
    Faulty = {1}
    MaxConfig = 2
    MaxStreams = 2
    MaxRejects = 1
INVARIANTS TypeOK SubscriptionsServed
PROPERTY ComesToRest
CHECK_DEADLOCK FALSE
