--------------------------- MODULE PushScopeProofs ---------------------------
(***************************************************************************)
(* Theorems about PushScope for any mesh: any services, namespaces, config *)
(* types, proxies and imports, and any number of coalesced events.         *)
(***************************************************************************)
EXTENDS PushScope, PushRequestProofs

(* The requests the handlers make: only a service or its endpoints are     *)
(* reported with a namespace, an incremental request is never about        *)
(* another config type, and it names the namespaces of its services.       *)
EventRequests ==
    {r \in PushRequests :
        /\ (r.namespaces # {} \/ ~r.full) => r.configs \subseteq {"ServiceEntry"}
        /\ ~r.full => /\ r.namespaces # {}
                      /\ \A s \in r.eds : NamespaceOf[s] \in r.namespaces}

ScopeCovers(wide, narrow) == wide = {} \/ (narrow # {} /\ narrow \subseteq wide)

(* q asks for everything r asks for. *)
Covers(q, r) ==
    /\ r.full => q.full
    /\ q.full \/ r.eds \subseteq q.eds
    /\ ScopeCovers(q.namespaces, r.namespaces)
    /\ ScopeCovers(q.configs, r.configs)

(* A push of req tells every proxy that sees s of it. *)
Announces(s) ==
    /\ req # NoReq
    /\ req.full
    /\ ScopeCovers(req.namespaces, {NamespaceOf[s]})
    /\ ScopeCovers(req.configs, {"ServiceEntry"})

(* The inductive invariant: the pending request covers each of the         *)
(* requests merged into it, and announces every service that some proxy    *)
(* should know and does not.                                               *)
PendingCoversAsked ==
    /\ req # NoReq => req \in EventRequests
    /\ \A r \in asked : req # NoReq /\ r \in EventRequests /\ Covers(req, r)

NewServicesPending ==
    \A p \in Proxies : \A s \in Visible(p, services) : s \in known[p] \/ Announces(s)

ScopeInv == TypeOK /\ PendingCoversAsked /\ NewServicesPending

(* Merging event requests gives one that covers both. *)
LEMMA MergeCovers ==
    ASSUME NEW q \in EventRequests \cup {NoReq}, NEW r \in EventRequests
    PROVE  /\ Merge(q, r) \in EventRequests
           /\ Merge(q, r) # NoReq
           /\ Covers(Merge(q, r), r)
           /\ q # NoReq => Covers(Merge(q, r), q)
<1>0. q \in PushRequests \cup {NoReq} /\ r \in PushRequests /\ r # NoReq
  BY PushRequestAssumption DEF EventRequests
<1>1. Merge(q, r) \in PushRequests /\ Merge(q, r) # NoReq
  BY <1>0, MergeType, PushRequestAssumption
<1>2. CASE q = NoReq
  BY <1>0, <1>1, <1>2 DEF Merge, Covers, ScopeCovers, EventRequests, PushRequests
<1>3. CASE q # NoReq
  <2>0. q \in PushRequests /\ q \in EventRequests
    BY <1>0, <1>3
  <2> DEFINE m == Merge(q, r)
  <2>1. /\ m.full = (q.full \/ r.full)
        /\ m.eds = IF m.full THEN {} ELSE q.eds \cup r.eds
        /\ m.namespaces = MergeScope(q.namespaces, r.namespaces)
        /\ m.configs = MergeScope(q.configs, r.configs)
    BY <1>0, <1>3 DEF Merge
  <2>2. \A a, b : ScopeCovers(MergeScope(a, b), a) /\ ScopeCovers(MergeScope(a, b), b)
    BY DEF ScopeCovers, MergeScope
  <2>3. Covers(m, q) /\ Covers(m, r)
    BY <1>0, <2>0, <2>1, <2>2 DEF Covers, PushRequests
  <2>4. m.namespaces # {} \/ ~m.full => m.configs \subseteq {"ServiceEntry"}
    BY <1>0, <2>0, <2>1 DEF MergeScope, EventRequests, PushRequests
  <2>5. ASSUME ~m.full
        PROVE  m.namespaces # {} /\ \A s \in m.eds : NamespaceOf[s] \in m.namespaces
    <3>1. ~q.full /\ ~r.full
      BY <1>0, <2>0, <2>1, <2>5 DEF PushRequests
    <3>2. /\ m.namespaces = q.namespaces \cup r.namespaces /\ m.namespaces # {}
          /\ m.eds = q.eds \cup r.eds
      BY <2>0, <2>1, <2>5, <3>1 DEF MergeScope, EventRequests
    <3> QED BY <2>0, <3>1, <3>2 DEF EventRequests
  <2> QED BY <1>1, <2>3, <2>4, <2>5 DEF EventRequests
<1> QED BY <1>2, <1>3

(* Covering is transitive. *)
LEMMA CoversTransitive ==
    ASSUME NEW a \in PushRequests, NEW b \in PushRequests, NEW c \in PushRequests,
           Covers(a, b), Covers(b, c)
    PROVE  Covers(a, c)
  BY DEF Covers, ScopeCovers, PushRequests

-----------------------------------------------------------------------------
(* What PushTypeFor selects.  A wider set of config types selects at least *)
(* as much; services select everything; clusters come with endpoints.      *)
LEMMA PushTypesGrow ==
    ASSUME NEW p \in Proxies, NEW q \in PushRequests, NEW r \in PushRequests,
           ScopeCovers(q.configs, r.configs)
    PROVE  PushTypeFor(p, r) \subseteq PushTypeFor(p, q)
<1>1. \A t, k : TypesOf(t, k) \subseteq XdsTypes
  BY DEF TypesOf, XdsTypes
<1>2. PushTypeFor(p, r) \subseteq XdsTypes
  BY <1>1 DEF PushTypeFor
<1> QED BY <1>2 DEF ScopeCovers, PushTypeFor

(* A request about services selects all four resource types. *)
LEMMA ServicesPushEverything ==
    ASSUME NEW p \in Proxies, NEW q \in PushRequests,
           ScopeCovers(q.configs, {"ServiceEntry"})
    PROVE  XdsTypes \subseteq PushTypeFor(p, q)
<1>1. \A k : TypesOf("ServiceEntry", k) = XdsTypes
  BY DEF TypesOf
<1> QED BY <1>1 DEF ScopeCovers, PushTypeFor

(* What selects clusters selects endpoints. *)
LEMMA ClustersSelectEndpoints ==
    ASSUME NEW p \in Proxies, NEW q \in PushRequests, "CDS" \in PushTypeFor(p, q)
    PROVE  "EDS" \in PushTypeFor(p, q)
<1>1. \A t, k : "CDS" \in TypesOf(t, k) => "EDS" \in TypesOf(t, k)
  BY DEF TypesOf, XdsTypes
<1> QED BY <1>1 DEF PushTypeFor, XdsTypes

(* The resources of a full push, type by type. *)
LEMMA FullResources ==
    ASSUME NEW p \in Proxies, NEW q \in PushRequests, q.full, NEW x
    PROVE  x \in Resources(p, q) <=>
             \/ "EDS" \in PushTypeFor(p, q) /\ x \in Tagged("EDS", Services)
             \/ \E t \in PushTypeFor(p, q) : t # "EDS" /\ x = <<t, "all">>
  BY DEF Resources, Tagged

(* A request sends whatever a request it covers would send. *)
LEMMA CoveringSendsMore ==
    ASSUME NEW p \in Proxies, NEW q \in EventRequests, NEW r \in EventRequests, Covers(q, r)
    PROVE  Resources(p, r) \subseteq Resources(p, q)
<1>0. q \in PushRequests /\ r \in PushRequests
  BY DEF EventRequests
<1>1. CASE r.full
  <2>1. q.full /\ PushTypeFor(p, r) \subseteq PushTypeFor(p, q)
    BY <1>0, <1>1, PushTypesGrow DEF Covers
  <2> QED BY <1>0, <1>1, <2>1, FullResources
<1>2. CASE ~r.full /\ q.full
  <2>1. ScopeCovers(q.configs, {"ServiceEntry"})
    BY <1>2 DEF Covers, ScopeCovers, EventRequests
  <2>2. "EDS" \in PushTypeFor(p, q)
    BY <1>0, <2>1, ServicesPushEverything DEF XdsTypes
  <2>3. Resources(p, r) \subseteq Tagged("EDS", Services)
    BY <1>0, <1>2 DEF Resources, Tagged, PushRequests
  <2> QED BY <1>0, <1>2, <2>2, <2>3, FullResources
<1>3. CASE ~r.full /\ ~q.full
  BY <1>3 DEF Covers, Resources, Tagged
<1> QED BY <1>1, <1>2, <1>3 DEF EventRequests, PushRequests

(* A request reaches every proxy that a request it covers could reach, in  *)
(* whatever order the config types are looked at.                          *)
LEMMA CoveringReachesMore ==
    ASSUME NEW p \in Proxies, NEW q \in EventRequests, NEW r \in EventRequests, Covers(q, r),
           NEW svcs \in SUBSET Services, TRUE \in ProxyNeedsPush(p, r, svcs)
    PROVE  ProxyNeedsPush(p, q, svcs) = {TRUE}
<1> DEFINE forcing(e) == {t \in e.configs : KindOnly(t) = Kind[p]}
           applying(e) == {t \in e.configs : KindOnly(t) = "any"}
<1>0. q \in PushRequests /\ r \in PushRequests
  BY DEF EventRequests
<1>1. KindOnly("ServiceEntry") = "any"
  BY DEF KindOnly
<1>2. Kind[p] # "any"
  BY PushScopeAssumption
<1>3. CASE q.namespaces = {}
  <2>1. InNamespaceScope(p, q, svcs) = TRUE
    BY <1>3 DEF InNamespaceScope
  <2>2. ~(forcing(q) = {} /\ applying(q) = {} /\ q.configs # {})
    BY DEF Covers, ScopeCovers, ProxyNeedsPush
  <2> QED BY <2>1, <2>2 DEF ProxyNeedsPush
<1>4. CASE q.namespaces # {}
  <2>1. /\ q.configs \subseteq {"ServiceEntry"} /\ r.configs \subseteq {"ServiceEntry"}
        /\ r.namespaces # {} /\ r.namespaces \subseteq q.namespaces
    BY <1>4 DEF Covers, ScopeCovers, EventRequests
  <2>2. forcing(q) = {} /\ forcing(r) = {}
    BY <1>1, <1>2, <2>1
  <2>3. InNamespaceScope(p, r, svcs)
    BY <2>2 DEF ProxyNeedsPush
  <2>4. InNamespaceScope(p, q, svcs) = TRUE
    BY <1>4, <2>1, <2>3 DEF InNamespaceScope
  <2>5. applying(q) # {} \/ q.configs = {}
    BY <1>1, <2>1
  <2> QED BY <2>2, <2>4, <2>5 DEF ProxyNeedsPush
<1> QED BY <1>3, <1>4

-----------------------------------------------------------------------------
(* Nothing is pending at first and every proxy knows what it should. *)
LEMMA ScopeInit == Init => ScopeInv
  BY PushScopeAssumption DEF Init, ScopeInv, TypeOK, PendingCoversAsked, NewServicesPending, Visible

(* Merging an event's request keeps what the pending request covers. *)
LEMMA ConfigUpdateCovers ==
    ASSUME ScopeInv, NEW r \in EventRequests, ConfigUpdate(r)
    PROVE  /\ req' \in PushRequests /\ asked' \subseteq PushRequests
           /\ PendingCoversAsked'
           /\ req' # NoReq /\ Covers(req', r)
           /\ req # NoReq => Covers(req', req)
<1>1. req \in EventRequests \cup {NoReq}
  BY DEF ScopeInv, PendingCoversAsked
<1>2. /\ req' \in EventRequests /\ req' # NoReq /\ Covers(req', r)
      /\ req # NoReq => Covers(req', req)
  BY <1>1, MergeCovers DEF ConfigUpdate
<1>3. req' \in PushRequests /\ asked' \subseteq PushRequests
  BY <1>2 DEF EventRequests, ConfigUpdate, ScopeInv, TypeOK
<1>4. \A a \in asked' : req' # NoReq /\ a \in EventRequests /\ Covers(req', a)
  <2> SUFFICES ASSUME NEW a \in asked' PROVE a \in EventRequests /\ Covers(req', a)
    BY <1>2
  <2>1. CASE a = r
    BY <1>2, <2>1
  <2>2. CASE a \in asked
    <3>1. req # NoReq /\ a \in EventRequests /\ Covers(req, a)
      BY <2>2 DEF ScopeInv, PendingCoversAsked
    <3> QED BY <1>1, <1>2, <3>1, CoversTransitive DEF EventRequests
  <2> QED BY <2>1, <2>2 DEF ConfigUpdate
<1> QED BY <1>2, <1>3, <1>4 DEF PendingCoversAsked

(* An event that creates no service keeps the invariant. *)
LEMMA EventStep ==
    ASSUME ScopeInv, NEW r \in EventRequests, ConfigUpdate(r),
           services' \subseteq Services,
           \A s \in services' \ services :
              r.full /\ r.namespaces = {NamespaceOf[s]} /\ r.configs = {"ServiceEntry"}
    PROVE  ScopeInv'
<1>1. TypeOK' /\ PendingCoversAsked'
  BY ConfigUpdateCovers DEF ScopeInv, TypeOK, ConfigUpdate
<1>2. ASSUME NEW p \in Proxies, NEW s \in Visible(p, services')
      PROVE  s \in known'[p] \/ Announces(s)'
  <2>1. known' = known
    BY DEF ConfigUpdate
  <2>2. s \in services'
    BY DEF Visible
  <2>3. CASE s \in services
    <3>1. s \in Visible(p, services)
      BY <2>2, <2>3 DEF Visible
    <3>2. s \in known[p] \/ Announces(s)
      BY <3>1 DEF ScopeInv, NewServicesPending
    <3>3. ASSUME Announces(s) PROVE Announces(s)'
      <4>1. req # NoReq /\ req' # NoReq /\ Covers(req', req)
        BY <3>3, ConfigUpdateCovers DEF Announces
      <4> QED BY <3>3, <4>1 DEF Announces, Covers, ScopeCovers
    <3> QED BY <2>1, <3>2, <3>3
  <2>4. CASE s \notin services
    BY <2>2, <2>4, ConfigUpdateCovers DEF Announces, Covers
  <2> QED BY <2>3, <2>4
<1> QED BY <1>1, <1>2 DEF ScopeInv, NewServicesPending

(* A push reaches every proxy that lacks a service. *)
LEMMA PushAllStep ==
    ASSUME ScopeInv, PushAll
    PROVE  ScopeInv'
<1>0. req \in PushRequests /\ req \in EventRequests /\ req # NoReq /\ services \subseteq Services
  BY DEF ScopeInv, TypeOK, PendingCoversAsked, PushAll
<1>1. /\ context' = IF req.full THEN services ELSE context
      /\ req' = NoReq /\ asked' = {} /\ services' = services
  BY DEF PushAll, ScopeOf
<1>2. context' \subseteq Services
  BY <1>1 DEF ScopeInv, TypeOK
<1>3. PICK sent : /\ \A p \in Proxies : sent[p] \in Outcomes(p, req, context')
                  /\ known' = [p \in Proxies |-> IF <<"CDS", "all">> \in sent[p]
                                                 THEN Visible(p, context') ELSE known[p]]
  BY DEF PushAll
<1>4. TypeOK'
  BY <1>1, <1>2, <1>3 DEF ScopeInv, TypeOK, Visible
<1>5. PendingCoversAsked'
  BY <1>1 DEF PendingCoversAsked
<1>6. ASSUME NEW p \in Proxies, NEW s \in Visible(p, services)
      PROVE  s \in known'[p]
  <2>1. s \in services /\ s \in Services
    BY <1>0 DEF Visible
  <2>2. CASE ~Announces(s)
    <3>1. s \in known[p]
      BY <2>2 DEF ScopeInv, NewServicesPending
    <3>2. CASE <<"CDS", "all">> \in sent[p]
      <4>1. req.full
        <5>1. sent[p] \subseteq Resources(p, req)
          BY <1>3 DEF Outcomes
        <5>2. <<"CDS", "all">> \notin Tagged("EDS", req.eds)
          BY DEF Tagged
        <5> QED BY <3>2, <5>1, <5>2 DEF Resources
      <4> QED BY <1>1, <1>3, <3>2, <4>1
    <3> QED BY <1>3, <3>1, <3>2
  <2>3. CASE Announces(s)
    <3>1. /\ req.full /\ ScopeCovers(req.configs, {"ServiceEntry"})
          /\ ScopeCovers(req.namespaces, {NamespaceOf[s]})
      BY <2>3 DEF Announces
    <3>2. InNamespaceScope(p, req, services) = TRUE
      BY <3>1 DEF InNamespaceScope, DependsOnNamespace, ScopeCovers
    <3>3. KindOnly("ServiceEntry") = "any"
      BY DEF KindOnly
    <3>4. ProxyNeedsPush(p, req, services) = {TRUE}
      BY <3>1, <3>2, <3>3 DEF ProxyNeedsPush, ScopeCovers
    <3>5. sent[p] = Resources(p, req)
      BY <1>1, <1>3, <3>1, <3>4 DEF Outcomes
    <3>6. "CDS" \in PushTypeFor(p, req)
      BY <1>0, <3>1, ServicesPushEverything DEF XdsTypes
    <3>7. <<"CDS", "all">> \in sent[p]
      BY <1>0, <3>1, <3>5, <3>6, FullResources
    <3> QED BY <1>1, <1>3, <3>1, <3>7
  <2> QED BY <2>2, <2>3
<1> QED BY <1>1, <1>4, <1>5, <1>6 DEF ScopeInv, NewServicesPending

(* Every step keeps the invariant. *)
LEMMA ScopeNext == ScopeInv /\ [Next]_scopeVars => ScopeInv'
<1> SUFFICES ASSUME ScopeInv, [Next]_scopeVars PROVE ScopeInv'
  OBVIOUS
<1>0. services \subseteq Services
  BY DEF ScopeInv, TypeOK
<1>1. ASSUME NEW s \in Services, ServiceEvent(s) PROVE ScopeInv'
  <2> DEFINE r == Request(TRUE, {}, {NamespaceOf[s]}, {"ServiceEntry"})
  <2>1. r \in EventRequests
    BY PushScopeAssumption DEF Request, EventRequests, PushRequests
  <2>2. ConfigUpdate(r) /\ services' \subseteq Services /\ services' \ services \subseteq {s}
    BY <1>0, <1>1 DEF ServiceEvent
  <2>3. r.full /\ r.namespaces = {NamespaceOf[s]} /\ r.configs = {"ServiceEntry"}
    BY DEF Request
  <2> HIDE DEF r
  <2> QED BY <2>1, <2>2, <2>3, EventStep
<1>2. ASSUME NEW s \in Services, EndpointEvent(s) PROVE ScopeInv'
  <2>1. PICK configs \in {{"ServiceEntry"}, {}} :
           ConfigUpdate(Request(FALSE, {s}, {NamespaceOf[s]}, configs))
    BY <1>2 DEF EndpointEvent
  <2> DEFINE r == Request(FALSE, {s}, {NamespaceOf[s]}, configs)
  <2>2. r \in EventRequests
    BY PushScopeAssumption DEF Request, EventRequests, PushRequests
  <2>3. services' = services
    BY <1>2 DEF EndpointEvent
  <2> HIDE DEF r
  <2> QED BY <1>0, <2>1, <2>2, <2>3, EventStep DEF r
<1>3. ASSUME NEW t \in ConfigTypes \ {"ServiceEntry"}, ConfigEvent(t) PROVE ScopeInv'
  <2> DEFINE r == Request(TRUE, {}, {}, {t})
  <2>1. r \in EventRequests
    BY PushScopeAssumption DEF Request, EventRequests, PushRequests
  <2>2. ConfigUpdate(r) /\ services' = services
    BY <1>3 DEF ConfigEvent
  <2> HIDE DEF r
  <2> QED BY <1>0, <2>1, <2>2, EventStep
<1>4. ASSUME MeshEvent PROVE ScopeInv'
  <2> DEFINE r == Request(TRUE, {}, {}, {})
  <2>1. r \in EventRequests
    BY PushScopeAssumption DEF Request, EventRequests, PushRequests
  <2>2. ConfigUpdate(r) /\ services' = services
    BY <1>4 DEF MeshEvent
  <2> HIDE DEF r
  <2> QED BY <1>0, <2>1, <2>2, EventStep
<1>5. ASSUME PushAll PROVE ScopeInv'
  BY <1>5, PushAllStep
<1>6. ASSUME UNCHANGED scopeVars PROVE ScopeInv'
  BY <1>6 DEF scopeVars, ScopeInv, TypeOK, PendingCoversAsked, NewServicesPending, Announces
<1> QED BY <1>1, <1>2, <1>3, <1>4, <1>5, <1>6 DEF Next

(* The invariant holds in every behaviour. *)
LEMMA ScopeInvariant == Spec => []ScopeInv
  BY ScopeInit, ScopeNext, PTL DEF Spec

(* The mesh, the pending request and what the proxies know keep their      *)
(* types.                                                                  *)
THEOREM ScopeTypeCorrect == Spec => []TypeOK
  BY ScopeInvariant, PTL DEF ScopeInv

(* A full request that covers one for the endpoints of s reaches every     *)
(* proxy that sees s.                                                      *)
LEMMA CoveringReachesVisible ==
    ASSUME NEW p \in Proxies, NEW q \in EventRequests, NEW r \in EventRequests, Covers(q, r),
           ~r.full, NEW svcs \in SUBSET Services, NEW s \in r.eds, s \in Visible(p, svcs)
    PROVE  ProxyNeedsPush(p, q, svcs) = {TRUE}
<1>1. /\ r.configs \subseteq {"ServiceEntry"} /\ NamespaceOf[s] \in r.namespaces
      /\ ScopeCovers(q.namespaces, {NamespaceOf[s]})
  BY DEF EventRequests, Covers, ScopeCovers
<1>2. ScopeCovers(q.configs, {"ServiceEntry"})
  BY <1>1 DEF Covers, ScopeCovers
<1>3. InNamespaceScope(p, q, svcs) = TRUE
  BY <1>1 DEF InNamespaceScope, DependsOnNamespace, ScopeCovers
<1>4. KindOnly("ServiceEntry") = "any"
  BY DEF KindOnly
<1> QED BY <1>2, <1>3, <1>4 DEF ProxyNeedsPush, ScopeCovers

(* Coalescing costs a proxy nothing it could use, for any number of merged *)
(* events: whatever one of them could have sent to a proxy on its own, the *)
(* request they were merged into sends, although ProxyNeedsPush may leave  *)
(* its loop at any of the merged config types.  Only the endpoints of a    *)
(* service that the proxy has ceased to see, asked for incrementally, may  *)
(* be missing: the full push decides with the scope it brings.             *)
THEOREM CoalescingIsSafe == Spec => []CoalescingKeepsPushes
<1>1. ScopeInv => CoalescingKeepsPushes
  <2> SUFFICES ASSUME ScopeInv, NEW r \in asked, NEW p \in Proxies,
                      NEW alone \in Outcomes(p, r, ScopeOf(r)),
                      NEW merged \in Outcomes(p, req, ScopeOf(req))
               PROVE  \/ alone \subseteq merged
                      \/ /\ ~r.full /\ req.full
                         /\ alone \ merged \subseteq Tagged("EDS", Services \ Visible(p, services))
    BY DEF CoalescingKeepsPushes
  <2>1. /\ req \in EventRequests /\ r \in EventRequests /\ Covers(req, r)
        /\ services \in SUBSET Services /\ context \in SUBSET Services
        /\ r \in PushRequests /\ req \in PushRequests
    BY DEF ScopeInv, PendingCoversAsked, TypeOK, EventRequests
  <2>2. CASE alone = {}
    BY <2>2
  <2>3. CASE alone # {} /\ ScopeOf(r) = ScopeOf(req)
    <3>0. ScopeOf(req) \in SUBSET Services
      BY <2>1 DEF ScopeOf
    <3>1. alone = Resources(p, r) /\ TRUE \in ProxyNeedsPush(p, r, ScopeOf(req))
      BY <2>3 DEF Outcomes, ProxyNeedsPush
    <3>2. ProxyNeedsPush(p, req, ScopeOf(req)) = {TRUE}
      BY <2>1, <3>0, <3>1, CoveringReachesMore
    <3>3. merged = Resources(p, req)
      BY <3>2 DEF Outcomes
    <3> QED BY <2>1, <3>1, <3>3, CoveringSendsMore
  <2>4. CASE alone # {} /\ ~r.full /\ req.full
    <3>1. alone = Tagged("EDS", r.eds) /\ alone = Resources(p, r) /\ r.eds \subseteq Services
      BY <2>1, <2>4 DEF Outcomes, Resources, PushRequests
    <3>2. ASSUME NEW s \in r.eds, s \in Visible(p, services) PROVE alone \subseteq merged
      <4>1. ProxyNeedsPush(p, req, ScopeOf(req)) = {TRUE}
        BY <2>1, <2>4, <3>2, CoveringReachesVisible DEF ScopeOf
      <4>2. merged = Resources(p, req)
        BY <4>1 DEF Outcomes
      <4> QED BY <2>1, <3>1, <4>2, CoveringSendsMore
    <3>3. ASSUME \A s \in r.eds : s \notin Visible(p, services)
          PROVE  alone \subseteq Tagged("EDS", Services \ Visible(p, services))
      BY <3>1, <3>3 DEF Tagged
    <3> QED BY <2>4, <3>2, <3>3
  <2>5. ScopeOf(r) = ScopeOf(req) \/ (~r.full /\ req.full)
    BY <2>1 DEF ScopeOf, Covers, PushRequests
  <2> QED BY <2>2, <2>3, <2>4, <2>5
<1> QED BY <1>1, ScopeInvariant, PTL

(* A push that sends clusters to a proxy sends it all endpoints as well.   *)
THEOREM ClustersAreWarmed == Spec => []ClustersComeWithEndpoints
<1>1. ScopeInv => ClustersComeWithEndpoints
  <2> SUFFICES ASSUME ScopeInv, req # NoReq, NEW p \in Proxies,
                      NEW sent \in Outcomes(p, req, ScopeOf(req)), <<"CDS", "all">> \in sent
               PROVE  Tagged("EDS", Services) \subseteq sent
    BY DEF ClustersComeWithEndpoints
  <2>1. req \in PushRequests
    BY DEF ScopeInv, TypeOK
  <2>2. sent = Resources(p, req)
    BY DEF Outcomes
  <2>3. <<"CDS", "all">> \notin Tagged("EDS", req.eds) /\ <<"CDS", "all">> \notin Tagged("EDS", Services)
    BY DEF Tagged
  <2>4. req.full
    BY <2>2, <2>3 DEF Resources
  <2>5. "CDS" \in PushTypeFor(p, req)
    BY <2>1, <2>2, <2>3, <2>4, FullResources
  <2> QED BY <2>1, <2>2, <2>4, <2>5, ClustersSelectEndpoints, FullResources
<1> QED BY <1>1, ScopeInvariant, PTL

(* Once nothing is pending every proxy has been sent every service in the  *)
(* namespaces it imports, whatever the events, their order and the way     *)
(* they were coalesced.                                                    *)
THEOREM ServicesReachProxies == Spec => []NewServicesReachProxies
<1>1. ScopeInv => NewServicesReachProxies
  BY DEF ScopeInv, NewServicesPending, NewServicesReachProxies, Announces
<1> QED BY <1>1, ScopeInvariant, PTL

=============================================================================
