------------------------------ MODULE AdsStream ------------------------------
(***************************************************************************)
(* The xDS protocol on an ADS stream (StreamAggregatedResources,           *)
(* pushConnection and send in v2/ads.go, the EDS clients in v2/eds.go):    *)
(* which requests are subscriptions and which are acknowledgements, for    *)
(* clusters (CDS), endpoints (EDS), listeners (LDS) and routes (RDS).      *)
(*                                                                         *)
(* Envoy is external: it applies responses in order or rejects them,       *)
(* acknowledges each, asks for the endpoints of its clusters and for the   *)
(* routes its listeners name, and reconnects when the stream breaks, which *)
(* the old stream's handler notices later.                                 *)
(*                                                                         *)
(* A config is the number of the Push that published its context; it is    *)
(* also the version that Push sets.  A response to a sidecar is made from  *)
(* the services and rules of con.node's scope (what is read of the global  *)
(* context besides it is left out) and stamped with the version of the     *)
(* moment, which only RDS reads again.  Pushes here are full pushes of     *)
(* every type that do not fail, and stand in a queue of which a connection *)
(* sees one merged event; Debounce, PushQueue, PushScope and               *)
(* DiscoveryServer have what is left out of it.                            *)
(* Only RDS compares nonces: 0 is no nonce, n the nth RDS response of the  *)
(* stream; for EDS 1 is any nonce.                                         *)
(***************************************************************************)
EXTENDS Naturals, Sequences

CONSTANTS
    Clusters, Routes,
    ClustersOf,   \* config -> the EDS clusters it has
    RoutesOf,     \* config -> the routes its listeners name
    Faulty,       \* the configs of which Envoy may reject responses
    MaxConfig,    \* bound: the last config
    MaxStreams,   \* bound: streams Envoy opens
    MaxRejects    \* bound: responses Envoy rejects

VARIABLES
    config,       \* of globalPushContext
    version,      \* versionInfo
    launched,     \* AdsPushAll calls that have not copied adsClients yet
    todo,         \* stream -> the configs they still have to enqueue for it
    due,          \* stream -> the config of its event in the push queue, or None
    excused,      \* stream -> a known cause of stale config struck (for properties)
    con,          \* stream -> its XdsConnection
    EdsClients,   \* cluster -> the streams watching it; no EdsCluster if empty
    stream,       \* Envoy's stream, 0 before the first and after a break
    opened,       \* streams opened
    requests,     \* under way to Pilot on that stream
    responses,    \* under way to Envoy
    envoy,        \* what Envoy has and wants
    rejects       \* responses rejected

pushVars == <<config, version, launched, todo, due, excused>>
pilotVars == <<pushVars, con, EdsClients>>
netVars == <<stream, opened, requests, responses>>
vars == <<pilotVars, netVars, envoy, rejects>>

Configs == 0 .. MaxConfig
None == MaxConfig + 1
Streams == 1 .. MaxStreams
Types == {"CDS", "EDS", "LDS", "RDS"}

ASSUME AdsStreamAssumption ==
    /\ MaxConfig \in Nat /\ MaxStreams \in Nat /\ MaxRejects \in Nat
    /\ Faulty \subseteq Configs
    /\ ClustersOf \in [Configs -> SUBSET Clusters]
    /\ RoutesOf \in [Configs -> SUBSET Routes]

Names == SUBSET (Clusters \cup Routes)
Request == [type : Types, names : Names, nonce : Nat, version : Configs \cup {None},
            nack : BOOLEAN]
Response == [type : Types, names : Names, nonce : Nat, context : Configs, version : Configs]

(* Where StreamAggregatedResources is: waiting for the first request,      *)
(* between initProxy and addCon, answering the first request, or in its    *)
(* select.                                                                 *)
Handlers == {"new", "register", "first", "select"}

(* In adsClients. *)
Tracked(c) == c.handler \in {"first", "select"}

(* Every variable has its type; only open connections are clients. *)
TypeOK ==
    /\ config \in Configs /\ version \in Configs /\ launched \subseteq Configs
    /\ todo \in [Streams -> SUBSET Configs]
    /\ due \in [Streams -> Configs \cup {None}]
    /\ excused \in [Streams -> BOOLEAN]
    /\ con \in [Streams ->
           [open : BOOLEAN, handler : Handlers, scope : Configs \cup {None},
            CDSWatch : BOOLEAN, LDSWatch : BOOLEAN,
            Clusters : SUBSET Clusters, Routes : SUBSET Routes,
            RouteNonceSent : Nat, RouteVersionInfoSent : Configs \cup {None}]]
    /\ EdsClients \in [Clusters -> SUBSET {s \in Streams : con[s].open}]
    /\ stream \in 0 .. MaxStreams /\ opened \in 0 .. MaxStreams
    /\ requests \in Seq(Request) /\ responses \in Seq(Response)
    /\ envoy \in
           [cds : Configs \cup {None}, lds : Configs \cup {None},
            clusters : SUBSET Clusters, routes : SUBSET Routes,
            eds : [Clusters -> Configs \cup {None}], rds : [Routes -> Configs \cup {None}],
            wantsLDS : BOOLEAN, edsNonce : {0, 1}, rdsNonce : Nat,
            rdsVersion : Configs \cup {None}, rejected : SUBSET Types]
    /\ rejects \in 0 .. MaxRejects

NewConnection(open) ==
    [open |-> open, handler |-> "new", scope |-> None, CDSWatch |-> FALSE,
     LDSWatch |-> FALSE, Clusters |-> {}, Routes |-> {}, RouteNonceSent |-> 0,
     RouteVersionInfoSent |-> None]

Init ==
    /\ config = 0 /\ version = 0 /\ launched = {}
    /\ todo = [s \in Streams |-> {}]
    /\ due = [s \in Streams |-> None]
    /\ excused = [s \in Streams |-> FALSE]
    /\ con = [s \in Streams |-> NewConnection(FALSE)]
    /\ EdsClients = [c \in Clusters |-> {}]
    /\ stream = 0 /\ opened = 0
    /\ requests = <<>> /\ responses = <<>>
    /\ envoy = [cds |-> None, lds |-> None, clusters |-> {}, routes |-> {},
                eds |-> [c \in Clusters |-> None], rds |-> [r \in Routes |-> None],
                wantsLDS |-> FALSE, edsNonce |-> 0, rdsNonce |-> 0, rdsVersion |-> None,
                rejected |-> {}]
    /\ rejects = 0

-----------------------------------------------------------------------------
(* Pilot.  Each push* builds a response for connection c and sends it. *)

Answer(c, type, names, nonce) ==
    [type |-> type, names |-> names, nonce |-> nonce, context |-> c.scope,
     version |-> version]

pushCds(c) == <<Answer(c, "CDS", {}, 1)>>
pushLds(c) == <<Answer(c, "LDS", {}, 1)>>
pushEds(c) == <<Answer(c, "EDS", c.Clusters, 1)>>
pushRoute(c) == <<Answer(c, "RDS", c.Routes, c.RouteNonceSent + 1)>>

(* send remembers nonce and version of an RDS response. *)
RouteSent(c) ==
    [c EXCEPT !.RouteNonceSent = @ + 1, !.RouteVersionInfoSent = version]

(* updateEdsClients *)
updateEdsClients(s, added, removed) ==
    EdsClients' = [c \in Clusters |->
        IF c \in added THEN EdsClients[c] \cup {s}
        ELSE IF c \in removed THEN EdsClients[c] \ {s} ELSE EdsClients[c]]

Reply(s, connection, sent) ==
    /\ con' = [con EXCEPT ![s] = connection]
    /\ responses' = responses \o sent

(* Requests for clusters and listeners: the first one is the subscription, *)
(* all others are acknowledgements.                                        *)
ClusterRequest(s, c) ==
    /\ IF c.CDSWatch THEN Reply(s, c, <<>>)
       ELSE Reply(s, [c EXCEPT !.CDSWatch = TRUE], pushCds(c))
    /\ UNCHANGED EdsClients

ListenerRequest(s, c) ==
    /\ IF c.LDSWatch THEN Reply(s, c, <<>>)
       ELSE Reply(s, [c EXCEPT !.LDSWatch = TRUE], pushLds(c))
    /\ UNCHANGED EdsClients

(* Mutant: the list of routes is not compared. *)
RouteIgnoredUncompared(c, req) ==
    \/ req.nack
    \/ /\ req.nonce # 0
       /\ \/ c.RouteNonceSent # 0 /\ c.RouteNonceSent # req.nonce
          \/ req.version = c.RouteVersionInfoSent
          \/ req.names = {}

(* Requests for routes that change nothing: rejections, expired nonces,    *)
(* acknowledgements, and empty requests that name another version.         *)
RouteIgnored(c, req) ==
    \/ req.nack
    \/ /\ req.nonce # 0
       /\ \/ c.RouteNonceSent # 0 /\ c.RouteNonceSent # req.nonce
          \/ IF req.version = c.RouteVersionInfoSent
             THEN req.names = c.Routes ELSE req.names = {}

RouteRequest(s, c, req) ==
    /\ IF RouteIgnored(c, req) THEN Reply(s, c, <<>>)
       ELSE LET new == [c EXCEPT !.Routes = req.names]
            IN  Reply(s, RouteSent(new), pushRoute(new))
    /\ UNCHANGED EdsClients

(* Mutant: an acknowledgement that names its clusters counts as a request. *)
EndpointIgnoredUnnamed(c, req) ==
    req.nack \/ (req.names = {} /\ (req.nonce # 0 \/ c.Clusters = {}))

(* Requests for endpoints that change nothing: rejections, no list with a  *)
(* nonce, nothing asked and nothing watched, the list that is watched.     *)
EndpointIgnored(c, req) ==
    \/ req.nack
    \/ req.names = {} /\ (req.nonce # 0 \/ c.Clusters = {})
    \/ req.names = c.Clusters

EndpointRequest(s, c, req) ==
    IF EndpointIgnored(c, req) THEN Reply(s, c, <<>>) /\ UNCHANGED EdsClients
    ELSE /\ updateEdsClients(s, req.names \ c.Clusters, c.Clusters \ req.names)
         /\ LET new == [c EXCEPT !.Clusters = req.names] IN Reply(s, new, pushEds(new))

(* initConnection, for the first request: initProxy gives con.node a scope *)
(* of the global context; addCon adds the connection to adsClients.  If a  *)
(* newer context was published in between and its AdsPushAll has copied    *)
(* adsClients already, no push brings the connection up to date.           *)
InitProxy(s) ==
    /\ stream = s
    /\ con[s].open
    /\ con[s].handler = "new"
    /\ requests # <<>>
    /\ con' = [con EXCEPT ![s].handler = "register", ![s].scope = config]
    /\ UNCHANGED <<pushVars, EdsClients, netVars, envoy, rejects>>

AddCon(s) ==
    /\ con[s].open
    /\ con[s].handler = "register"
    /\ con' = [con EXCEPT ![s].handler = "first"]
    /\ excused' = [excused EXCEPT ![s] =
           stream = s /\ con[s].scope # config /\ version = config /\ config \notin launched]
    /\ UNCHANGED <<config, version, launched, todo, due, EdsClients, netVars, envoy, rejects>>

(* The handler receives a request, or goes on with the first one. *)
HandleRequest(s) ==
    LET req == Head(requests)
        c == [con[s] EXCEPT !.handler = "select"]
    IN  /\ stream = s
        /\ con[s].open
        /\ Tracked(con[s])
        /\ requests # <<>>
        /\ requests' = Tail(requests)
        /\ CASE req.type = "CDS" -> ClusterRequest(s, c)
             [] req.type = "LDS" -> ListenerRequest(s, c)
             [] req.type = "RDS" -> RouteRequest(s, c, req)
             [] req.type = "EDS" -> EndpointRequest(s, c, req)
        /\ UNCHANGED <<pushVars, stream, opened, envoy, rejects>>

(* pushConnection: updateProxy gives con.node a scope of the event's       *)
(* context; sent is what the connection watches at this moment.            *)
HandlePush(s) ==
    LET c == [con[s] EXCEPT !.scope = due[s]]
    IN  /\ stream = s
        /\ con[s].open
        /\ con[s].handler = "select"
        /\ due[s] # None
        /\ due' = [due EXCEPT ![s] = None]
        /\ excused' = [excused EXCEPT ![s] = @ /\ due[s] < config]
        /\ Reply(s, IF c.Routes # {} THEN RouteSent(c) ELSE c,
                 (IF c.CDSWatch THEN pushCds(c) ELSE <<>>)
                     \o (IF c.Clusters # {} THEN pushEds(c) ELSE <<>>)
                     \o (IF c.LDSWatch THEN pushLds(c) ELSE <<>>)
                     \o (IF c.Routes # {} THEN pushRoute(c) ELSE <<>>))
        /\ UNCHANGED <<config, version, launched, todo, EdsClients, stream, opened,
                       requests, envoy, rejects>>

(* Mutant: the connection's clusters keep it as a client. *)
HandlerReturnsTracked(s) ==
    /\ con[s].open
    /\ con[s].handler # "register"
    /\ stream # s
    /\ con' = [con EXCEPT ![s] = NewConnection(FALSE)]
    /\ UNCHANGED <<pushVars, EdsClients, netVars, envoy, rejects>>

(* The handler of a broken stream returns: removeCon. *)
HandlerReturns(s) ==
    /\ con[s].open
    /\ con[s].handler # "register"
    /\ stream # s
    /\ con' = [con EXCEPT ![s] = NewConnection(FALSE)]
    /\ EdsClients' = [c \in Clusters |->
           IF c \in con[s].Clusters THEN EdsClients[c] \ {s} ELSE EdsClients[c]]
    /\ UNCHANGED <<pushVars, netVars, envoy, rejects>>

(* DiscoveryServer.Push publishes a new context, then sets the version and *)
(* starts AdsPushAll on a goroutine; the debouncer calls it again after it *)
(* returned.                                                               *)
Publish ==
    /\ config < MaxConfig
    /\ version = config
    /\ config' = config + 1
    /\ UNCHANGED <<version, launched, todo, due, excused, con, EdsClients, netVars,
                   envoy, rejects>>

Launch ==
    /\ version # config
    /\ version' = config
    /\ launched' = launched \cup {config}
    /\ UNCHANGED <<config, todo, due, excused, con, EdsClients, netVars, envoy, rejects>>

(* startPush: the copy of adsClients, then one Enqueue for each.  What is  *)
(* enqueued for a broken stream reaches nobody and is left out.            *)
StartPush(n) ==
    /\ n \in launched
    /\ launched' = launched \ {n}
    /\ todo' = [s \in Streams |->
           IF s = stream /\ Tracked(con[s]) THEN todo[s] \cup {n} ELSE todo[s]]
    /\ UNCHANGED <<config, version, due, excused, con, EdsClients, netVars, envoy, rejects>>

(* The event joins the one in the queue, if any: Merge keeps the context   *)
(* that was enqueued last, but one that comes in between MarkDone's two    *)
(* critical sections counts as the earlier.  Either may be the older.      *)
EnqueueClient(s, n) ==
    /\ n \in todo[s]
    /\ todo' = [todo EXCEPT ![s] = @ \ {n}]
    /\ \E kept \in {n, due[s]} \ {None} :
         /\ due' = [due EXCEPT ![s] = kept]
         /\ excused' = [excused EXCEPT ![s] =
                @ \/ \E other \in {n, due[s], con[s].scope} \ {None} : kept < other]
    /\ UNCHANGED <<config, version, launched, con, EdsClients, netVars, envoy, rejects>>

-----------------------------------------------------------------------------
(* External: Envoy. *)

Ask(type, names, nonce, known) ==
    [type |-> type, names |-> names, nonce |-> nonce, version |-> known, nack |-> FALSE]

When(cond, req) == IF cond THEN <<req>> ELSE <<>>

(* A new stream starts with a request for all that Envoy is subscribed to. *)
Connect ==
    /\ stream = 0
    /\ opened < MaxStreams
    /\ opened' = opened + 1
    /\ stream' = opened'
    /\ con' = [con EXCEPT ![opened'] = NewConnection(TRUE)]
    /\ envoy' = [envoy EXCEPT !.edsNonce = 0, !.rdsNonce = 0, !.rejected = {}]
    /\ requests' = <<Ask("CDS", {}, 0, None)>>
           \o When(envoy.clusters # {}, Ask("EDS", envoy.clusters, 0, None))
           \o When(envoy.wantsLDS, Ask("LDS", {}, 0, None))
           \o When(envoy.routes # {}, Ask("RDS", envoy.routes, 0, envoy.rdsVersion))
    /\ UNCHANGED <<pushVars, EdsClients, responses, rejects>>

Disconnect ==
    /\ stream # 0
    /\ opened < MaxStreams
    /\ stream' = 0
    /\ requests' = <<>>
    /\ responses' = <<>>
    /\ todo' = [todo EXCEPT ![stream] = {}]
    /\ due' = [due EXCEPT ![stream] = None]
    /\ excused' = [excused EXCEPT ![stream] = FALSE]
    /\ UNCHANGED <<config, version, launched, con, EdsClients, opened, envoy, rejects>>

(* Envoy applies a response.  New clusters need endpoints and new          *)
(* listeners need routes: they are asked for; what is gone is forgotten.   *)
Applied(r) ==
    CASE r.type = "CDS" ->
           [envoy EXCEPT !.cds = r.context, !.clusters = ClustersOf[r.context],
                         !.eds = [c \in Clusters |->
                             IF c \in ClustersOf[r.context] THEN envoy.eds[c] ELSE None]]
      [] r.type = "EDS" ->
           [envoy EXCEPT !.edsNonce = 1,
                         !.eds = [c \in Clusters |-> IF c \in r.names \cap envoy.clusters
                                                   THEN r.context ELSE envoy.eds[c]]]
      [] r.type = "LDS" ->
           [envoy EXCEPT !.lds = r.context, !.routes = RoutesOf[r.context],
                         !.rds = [x \in Routes |->
                             IF x \in RoutesOf[r.context] THEN envoy.rds[x] ELSE None]]
      [] r.type = "RDS" ->
           [envoy EXCEPT !.rdsNonce = r.nonce, !.rdsVersion = r.version,
                         !.rds = [x \in Routes |-> IF x \in r.names \cap envoy.routes
                                                 THEN r.context ELSE envoy.rds[x]]]

(* The requests after it: the acknowledgement, and a changed subscription. *)
(* Pilot reads the version of requests for routes only.                    *)
Follows(r, e) ==
    CASE r.type = "CDS" ->
           <<Ask("CDS", {}, 1, None)>>
             \o When(e.clusters # envoy.clusters, Ask("EDS", e.clusters, e.edsNonce, None))
      [] r.type = "EDS" -> <<Ask("EDS", e.clusters, 1, None)>>
      [] r.type = "LDS" ->
           <<Ask("LDS", {}, 1, None)>>
             \o When(e.routes # envoy.routes, Ask("RDS", e.routes, e.rdsNonce, e.rdsVersion))
      [] r.type = "RDS" -> <<Ask("RDS", e.routes, r.nonce, r.version)>>

ApplyResponse ==
    LET r == Head(responses)
        e == [Applied(r) EXCEPT !.rejected = @ \ {r.type}]
    IN  /\ responses # <<>>
        /\ responses' = Tail(responses)
        /\ envoy' = e
        /\ requests' = requests \o Follows(r, e)
        /\ UNCHANGED <<pilotVars, stream, opened, rejects>>

(* Envoy rejects a response, with the nonce of it and the version it has. *)
RejectResponse ==
    LET r == Head(responses)
        e == [envoy EXCEPT !.rejected = @ \cup {r.type},
                           !.edsNonce = IF r.type = "EDS" THEN 1 ELSE @,
                           !.rdsNonce = IF r.type = "RDS" THEN r.nonce ELSE @]
        names == CASE r.type = "EDS" -> e.clusters
                   [] r.type = "RDS" -> e.routes
                   [] OTHER -> {}
    IN  /\ responses # <<>>
        /\ r.context \in Faulty
        /\ rejects < MaxRejects
        /\ rejects' = rejects + 1
        /\ responses' = Tail(responses)
        /\ envoy' = e
        /\ requests' = Append(requests,
               [Ask(r.type, names, r.nonce, e.rdsVersion) EXCEPT !.nack = TRUE])
        /\ UNCHANGED <<pilotVars, stream, opened>>

(* Once its clusters have endpoints, Envoy asks for listeners. *)
ClustersWarm ==
    /\ ~envoy.wantsLDS
    /\ envoy.cds # None
    /\ \A c \in envoy.clusters : envoy.eds[c] # None

SubscribeListeners ==
    /\ stream # 0
    /\ ClustersWarm
    /\ envoy' = [envoy EXCEPT !.wantsLDS = TRUE]
    /\ requests' = Append(requests, Ask("LDS", {}, 0, None))
    /\ UNCHANGED <<pilotVars, stream, opened, responses, rejects>>

-----------------------------------------------------------------------------
Next ==
    \/ \E s \in Streams : \/ InitProxy(s) \/ AddCon(s) \/ HandleRequest(s) \/ HandlePush(s)
                          \/ HandlerReturns(s) \/ \E n \in Configs : EnqueueClient(s, n)
    \/ Publish \/ Launch \/ \E n \in Configs : StartPush(n)
    \/ Connect \/ Disconnect \/ ApplyResponse \/ RejectResponse \/ SubscribeListeners

(* What runs goes on: Push and AdsPushAll, and the handler, which notices  *)
(* a broken stream and whose select takes requests and pushes alike.       *)
(* Envoy reads, reconnects and goes on.                                    *)
Fairness ==
    /\ WF_vars(Launch)
    /\ \A n \in Configs : WF_vars(StartPush(n))
    /\ \A s \in Streams : /\ WF_vars(InitProxy(s)) /\ WF_vars(AddCon(s))
                          /\ WF_vars(HandleRequest(s)) /\ WF_vars(HandlePush(s))
                          /\ WF_vars(HandlerReturns(s))
                          /\ WF_vars(\E n \in Configs : EnqueueClient(s, n))
    /\ WF_vars(Connect) /\ WF_vars(ApplyResponse) /\ WF_vars(SubscribeListeners)

Spec == Init /\ [][Next]_vars /\ Fairness

-----------------------------------------------------------------------------
(* Connected, and nothing is under way. *)
Quiet ==
    /\ stream # 0
    /\ requests = <<>> /\ responses = <<>>
    /\ version = config /\ launched = {} /\ todo[stream] = {} /\ due[stream] = None
    /\ \A s \in Streams : con[s].open => s = stream
    /\ ~ClustersWarm

(* When all is quiet, Pilot watches for the stream what Envoy is           *)
(* subscribed to, and Envoy has all of it from one config, that of the     *)
(* last push or of initProxy, although the subscriptions cross the pushes  *)
(* that change them and are told from acknowledgements by comparing lists, *)
(* nonces and versions: a push between LDS and RDS misses the routes, but  *)
(* the request that follows is answered from the scope the push left.  And *)
(* it is the latest config unless a known cause struck: the connection was *)
(* added after its push had copied adsClients, or an older context was     *)
(* enqueued after a newer one or took its place in a merge.                *)
(*                                                                         *)
(* Excepted are types whose last response Envoy rejected, and Pilot may    *)
(* still watch the endpoints of clusters after the last one has gone: the  *)
(* empty list counts as an acknowledgement.  The clusters' clients are the *)
(* watchers.                                                               *)
SubscriptionsServed ==
    Quiet =>
        LET c == con[stream]
            Ok(type) == type \notin envoy.rejected
        IN  /\ Ok("CDS") => envoy.cds = c.scope
            /\ (Ok("LDS") /\ envoy.wantsLDS) => envoy.lds = c.scope
            /\ envoy.clusters # {} => c.Clusters = envoy.clusters
            /\ Ok("EDS") => \A x \in envoy.clusters : envoy.eds[x] = c.scope
            /\ Ok("RDS") => /\ c.Routes = envoy.routes
                            /\ \A r \in envoy.routes : envoy.rds[r] = c.scope
            /\ c.scope = config \/ excused[stream]
            /\ \A x \in Clusters :
                   EdsClients[x] = {s \in Streams : con[s].open /\ x \in con[s].Clusters}

(* Requests and responses do not chase each other for ever: a connection   *)
(* comes to rest after the last config change.                             *)
ComesToRest == <>[]Quiet
=============================================================================
