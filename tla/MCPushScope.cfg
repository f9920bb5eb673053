SPECIFICATION Spec
CONSTANTS
    Services = {"a", "b"}
    Namespaces = {"ns1", "ns2"}
    ConfigTypes = {"ServiceEntry", "VirtualService", "Gateway", "DestinationRule", "Sidecar", "QuotaSpec", "AuthenticationPolicy", "AuthorizationPolicy"}
    Contexts = {0}
    NoReq = NoReq
    Proxies = {"side1", "side2", "gw"}
    Kind <- MCKind
    Home <- MCHome
    Egress <- MCEgress
    NamespaceOf <- MCNamespaceOf
    MaxEvents = 3
INVARIANTS
    TypeOK
    CoalescingKeepsPushes
    ClustersComeWithEndpoints
    NewServicesReachProxies
