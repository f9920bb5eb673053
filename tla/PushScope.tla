------------------------------ MODULE PushScope ------------------------------
(***************************************************************************)
(* Which proxies a push reaches and what it sends them: ProxyNeedsPush and *)
(* PushTypeFor (pilot/pkg/proxy/envoy/v2/ads_common.go) as pushConnection  *)
(* (ads.go) uses them, over requests coalesced by Merge.                   *)
(*                                                                         *)
(* Events are those the callers of ConfigUpdate report; each is merged     *)
(* into one pending request, and PushAll pushes it to every connected      *)
(* proxy.  The queueing in between is PushQueue's and is not repeated.     *)
(* Proxies are connected and watch all four resource types.                *)
(***************************************************************************)
EXTENDS PushRequest, FiniteSets

CONSTANTS
    Proxies,
    Kind,         \* proxy -> "sidecar" or "router"
    Home,         \* proxy -> the service its workload belongs to
    Egress,       \* proxy -> namespaces its Sidecar's egress hosts allow
    NamespaceOf,  \* service -> namespace
    MaxEvents     \* bound: events merged into one request

ASSUME PushScopeAssumption ==
    /\ Kind \in [Proxies -> {"sidecar", "router"}]
    /\ Home \in [Proxies -> Services]
    /\ Egress \in [Proxies -> SUBSET Namespaces]
    /\ NamespaceOf \in [Services -> Namespaces]
    /\ MaxEvents \in Nat
    /\ "ServiceEntry" \in ConfigTypes
    /\ 0 \in Contexts

VARIABLES
    services,  \* services that exist in the registries
    req,       \* the coalesced request, or NoReq
    asked,     \* the requests that were merged into req
    known,     \* proxy -> services it was last sent clusters for
    context    \* services of the last push context (node.SidecarScope)

scopeVars == <<services, req, asked, known, context>>

-----------------------------------------------------------------------------
(* node.SidecarScope.Services: a sidecar's scope is selected by its egress *)
(* hosts, a router has the default scope, which selects everything. The    *)
(* destinations that virtual services add to a scope are left out.         *)
Visible(p, svcs) ==
    IF Kind[p] = "router" THEN svcs
    ELSE {s \in svcs : NamespaceOf[s] \in Egress[p]}

(* func DependsOnNamespace, over namespaceDependencies, which is collected *)
(* from the services the scope selected.                                   *)
DependsOnNamespace(p, svcs, ns) == \E s \in Visible(p, svcs) : NamespaceOf[s] = ns

(* Mutant: the services the sidecar imports are not looked at. *)
InNamespaceScopeHome(p, ev, svcs) ==
    \/ ev.namespaces = {}
    \/ Home[p] \in svcs /\ NamespaceOf[Home[p]] \in ev.namespaces

(* func ProxyNeedsPush, from "If no only namespaces specified" on.         *)
InNamespaceScope(p, ev, svcs) ==
    \/ ev.namespaces = {}
    \/ Home[p] \in svcs /\ NamespaceOf[Home[p]] \in ev.namespaces
    \/ \E ns \in ev.namespaces : DependsOnNamespace(p, svcs, ns)

(* Config types ProxyNeedsPush treats specially: for the proxy kind they   *)
(* concern they force the push, for the other kind they do not count.      *)
KindOnly(t) ==
    CASE t = "Gateway" -> "router"
      [] t = "QuotaSpec" -> "sidecar"
      [] OTHER -> "any"

(* func ProxyNeedsPush: the set of answers it can give.  It ranges over a  *)
(* Go map and leaves the loop at the first type that forces the push or    *)
(* that makes the update apply, so the order of the map may matter.        *)
ProxyNeedsPush(p, ev, svcs) ==
    LET forcing  == {t \in ev.configs : KindOnly(t) = Kind[p]}
        applying == {t \in ev.configs : KindOnly(t) = "any"}
    IN  (IF forcing # {} THEN {TRUE} ELSE {})
          \cup (IF applying # {} \/ ev.configs = {}
                THEN {InNamespaceScope(p, ev, svcs)} ELSE {})
          \cup (IF forcing = {} /\ applying = {} /\ ev.configs # {}
                THEN {FALSE} ELSE {})

(* func PushTypeFor *)
XdsTypes == {"CDS", "EDS", "LDS", "RDS"}

(* Mutant: a DestinationRule pushes clusters only. *)
TypesOfNoEds(t, kind) ==
    CASE t = "DestinationRule" -> {"CDS"}
      [] t = "VirtualService" -> {"LDS", "RDS"}
      [] t = "Gateway" -> IF kind = "router" THEN {"LDS", "RDS"} ELSE {}
      [] t = "Sidecar" -> IF kind = "sidecar" THEN XdsTypes ELSE {}
      [] t = "QuotaSpec" -> IF kind = "sidecar" THEN {"LDS", "RDS"} ELSE {}
      [] t = "AuthenticationPolicy" -> {"CDS", "EDS", "LDS"}
      [] t = "AuthorizationPolicy" -> {"LDS"}
      [] OTHER -> XdsTypes

TypesOf(t, kind) ==
    CASE t = "VirtualService" -> {"LDS", "RDS"}
      [] t = "Gateway" -> IF kind = "router" THEN {"LDS", "RDS"} ELSE {}
      [] t = "DestinationRule" -> {"CDS", "EDS"}
      [] t = "Sidecar" -> IF kind = "sidecar" THEN XdsTypes ELSE {}
      [] t = "QuotaSpec" -> IF kind = "sidecar" THEN {"LDS", "RDS"} ELSE {}
      [] t = "AuthenticationPolicy" -> {"CDS", "EDS", "LDS"}
      [] t = "AuthorizationPolicy" -> {"LDS"}
      [] OTHER -> XdsTypes

PushTypeFor(p, ev) ==
    IF ev.configs = {} THEN XdsTypes
    ELSE UNION {TypesOf(t, Kind[p]) : t \in ev.configs}

(* func pushConnection: what it may send to p for ev, one set of resources *)
(* for each answer ProxyNeedsPush may give.                                *)
Resources(p, ev) ==
    IF ~ev.full THEN Tagged("EDS", ev.eds)
    ELSE UNION {Tagged(x, IF x = "EDS" THEN Services ELSE {"all"}) : x \in PushTypeFor(p, ev)}

Outcomes(p, ev, svcs) ==
    {IF needs THEN Resources(p, ev) ELSE {} : needs \in ProxyNeedsPush(p, ev, svcs)}

-----------------------------------------------------------------------------
Request(full, eds, namespaces, configs) ==
    [full |-> full, push |-> 0, eds |-> eds, namespaces |-> namespaces, configs |-> configs]

(* ConfigUpdate as the debouncer sees it. *)
ConfigUpdate(r) ==
    /\ Cardinality(asked) < MaxEvents
    /\ req' = Merge(req, r)
    /\ asked' = asked \cup {r}
    /\ UNCHANGED <<known, context>>

(* Mutant: the service's name is reported instead of its namespace. *)
ServiceEventByName(s) ==
    /\ services' = IF s \in services THEN services \ {s} ELSE services \cup {s}
    /\ ConfigUpdate(Request(TRUE, {}, {s}, {"ServiceEntry"}))

(* A service appears or disappears: serviceHandler (bootstrap/server.go)   *)
(* and the ServiceEntry handler (serviceregistry/external).                *)
ServiceEvent(s) ==
    /\ services' = IF s \in services THEN services \ {s} ELSE services \cup {s}
    /\ ConfigUpdate(Request(TRUE, {}, {NamespaceOf[s]}, {"ServiceEntry"}))

(* Any other config changes: configHandler. *)
ConfigEvent(t) ==
    /\ ConfigUpdate(Request(TRUE, {}, {}, {t}))
    /\ UNCHANGED services

(* Mesh config or networks change: the handlers of initDiscoveryService. *)
MeshEvent ==
    /\ ConfigUpdate(Request(TRUE, {}, {}, {}))
    /\ UNCHANGED services

(* Endpoints of a known service change, or go away: edsUpdate. *)
EndpointEvent(s) ==
    /\ s \in services
    /\ \E configs \in {{"ServiceEntry"}, {}} :
          ConfigUpdate(Request(FALSE, {s}, {NamespaceOf[s]}, configs))
    /\ UNCHANGED services

(* The services a push of r is decided with.  A full push builds a context *)
(* from the services there are and updateProxy gives every proxy its scope *)
(* before it decides; an incremental one decides with the scope the last   *)
(* full push gave.                                                         *)
ScopeOf(r) == IF r.full THEN services ELSE context

(* The request is pushed. *)
PushAll ==
    /\ req # NoReq
    /\ context' = ScopeOf(req)
    /\ \E sent \in [Proxies -> UNION {Outcomes(p, req, context') : p \in Proxies}] :
         /\ \A p \in Proxies : sent[p] \in Outcomes(p, req, context')
         /\ known' = [p \in Proxies |-> IF <<"CDS", "all">> \in sent[p]
                                        THEN Visible(p, context') ELSE known[p]]
    /\ req' = NoReq
    /\ asked' = {}
    /\ UNCHANGED services

Init ==
    /\ services = Services
    /\ context = Services
    /\ known = [p \in Proxies |-> Visible(p, Services)]
    /\ req = NoReq
    /\ asked = {}

Next ==
    \/ \E s \in Services : ServiceEvent(s) \/ EndpointEvent(s)
    \/ \E t \in ConfigTypes \ {"ServiceEntry"} : ConfigEvent(t)
    \/ MeshEvent
    \/ PushAll

Spec == Init /\ [][Next]_scopeVars

-----------------------------------------------------------------------------
TypeOK ==
    /\ services \subseteq Services
    /\ context \subseteq Services
    /\ known \in [Proxies -> SUBSET Services]
    /\ req \in PushRequests \cup {NoReq}
    /\ asked \subseteq PushRequests

(* Coalescing costs a proxy nothing it could use: whatever a request would *)
(* have sent to a proxy by itself, the request it was merged into sends    *)
(* for sure, in whatever order Go walks the map of config types.  The one  *)
(* exception are the endpoints of a service the proxy no longer sees: the  *)
(* incremental request alone is decided with the scope of the last full    *)
(* push, the full one it was merged into with the scope it brings.         *)
CoalescingKeepsPushes ==
    \A r \in asked, p \in Proxies :
        \A alone \in Outcomes(p, r, ScopeOf(r)), merged \in Outcomes(p, req, ScopeOf(req)) :
            \/ alone \subseteq merged
            \/ /\ ~r.full /\ req.full
               /\ alone \ merged \subseteq Tagged("EDS", Services \ Visible(p, services))

(* PushTypeFor: "CDS push must be followed by EDS, otherwise after Cluster *)
(* is warmed, no ClusterLoadAssignment is retained."                       *)
ClustersComeWithEndpoints ==
    req # NoReq =>
        \A p \in Proxies : \A sent \in Outcomes(p, req, ScopeOf(req)) :
            <<"CDS", "all">> \in sent => Tagged("EDS", Services) \subseteq sent

(* Once nothing is pending, every proxy has been sent every service that   *)
(* exists in the namespaces it imports: scoping pushes by namespace and by *)
(* config type never hides a new service from a proxy.                     *)
NewServicesReachProxies ==
    req = NoReq => \A p \in Proxies : Visible(p, services) \subseteq known[p]

(* PushRequest.NamespacesUpdated: "If this is present, then only proxies   *)
(* that import this namespace will get an update"; with a Sidecar's        *)
(* imports "determined from the egress config" (sidecar.go), a proxy that  *)
(* imports a namespace would also be told of a service removed from it.    *)
RemovedServicesLeaveProxies ==
    req = NoReq => \A p \in Proxies : known[p] \subseteq services

=============================================================================
