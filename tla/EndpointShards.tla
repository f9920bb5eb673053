--------------------------- MODULE EndpointShards ---------------------------
(***************************************************************************)
(* Endpoints in the discovery server (v2/eds.go): the endpoints of one     *)
(* service by the cluster that reported them, the push requests an update  *)
(* makes, the load assignment cached for a watched Envoy cluster, and what *)
(* a proxy is served.                                                      *)
(*                                                                         *)
(* One service, with one port and no subsets, and one proxy that may see   *)
(* it.  EndpointShardsByService is keyed by a string: the Kubernetes       *)
(* registry passes EDSUpdate the hostname and SvcUpdate the bare name, so  *)
(* both keys are here.  The debouncer and the push queue are Debounce and  *)
(* PushQueue; here they are the merged request that pending holds.         *)
(***************************************************************************)
CONSTANTS
    Clusters,     \* Kubernetes clusters, the keys of Shards
    Endpoints,    \* addresses
    Account,      \* endpoint -> its service account
    NoEntry,      \* no EndpointShards for the key
    NoAssignment  \* an EdsCluster whose LoadAssignment is nil, or no EdsCluster

VARIABLES
    EndpointShardsByService, \* key -> NoEntry or an EndpointShards
    pending,      \* the debounced push request
    LoadAssignment, \* cached for the proxy's Envoy cluster
    proxy,        \* what the proxy has been sent, and whether it watches EDS
    announced     \* history: accounts in the shards at a full push request

shardVars == <<EndpointShardsByService, announced>>
pushVars == <<pending, LoadAssignment, proxy>>
serverVars == <<shardVars, pushVars>>

Accounts == {Account[e] : e \in Endpoints}

Keys == {"name", "hostname"}
Requests == {"none", "eds", "full"}

(* A cluster without a key in Shards has the empty set: edsUpdate never    *)
(* stores an empty list.                                                   *)
Entry == [Shards : [Clusters -> SUBSET Endpoints], ServiceAccounts : SUBSET Accounts]

ASSUME EndpointShardsAssumption ==
    /\ Account \in [Endpoints -> Accounts]
    /\ NoEntry \notin Entry

ServerTypeOK ==
    /\ EndpointShardsByService \in [Keys -> {NoEntry} \cup Entry]
    /\ pending \in Requests
    /\ LoadAssignment \in {NoAssignment} \cup SUBSET (Clusters \X Endpoints)
    /\ proxy \in [cds : BOOLEAN, accounts : SUBSET Accounts, watching : BOOLEAN,
                  eps : SUBSET (Clusters \X Endpoints)]
    /\ announced \subseteq Accounts

ServerInit ==
    /\ EndpointShardsByService = [k \in Keys |-> NoEntry]
    /\ pending = "none"
    /\ LoadAssignment = NoAssignment
    /\ proxy = [cds |-> FALSE, accounts |-> {}, watching |-> FALSE, eps |-> {}]
    /\ announced = {}

-----------------------------------------------------------------------------
(* PushRequest.Merge, of the one field that matters here. *)
Merge(r, s) == IF "full" \in {r, s} THEN "full" ELSE IF r = "none" THEN s ELSE r

(* ConfigUpdate *)
ConfigUpdate(req) == pending' = Merge(pending, req)

NewShards == [Shards |-> [c \in Clusters |-> {}], ServiceAccounts |-> {}]

AccountsOf(eps) == {Account[e] : e \in eps}

(* Mutant: the shard stays. *)
deleteEndpointShardsKeeps(entry, c) == entry

(* deleteEndpointShards *)
deleteEndpointShards(entry, c) ==
    IF entry = NoEntry THEN NoEntry ELSE [entry EXCEPT !.Shards[c] = {}]

(* Mutant: the accounts are not compared. *)
requireFullNewOnly(found, eps) == found = NoEntry

(* A service not seen before, or other accounts than the last report's. *)
requireFull(found, eps) == found = NoEntry \/ AccountsOf(eps) # found.ServiceAccounts

(* edsUpdate with internal = FALSE.  No endpoints: the shard goes, the     *)
(* entry and its accounts stay, and nothing is pushed if there was none.   *)
(* Otherwise the shard is replaced, the accounts become the ones of this   *)
(* cluster, and a new entry or other accounts than before need a full push.*)
edsUpdate(c, key, eps) ==
    LET found == EndpointShardsByService[key]
        ep == IF found = NoEntry THEN NewShards ELSE found
    IN  IF eps = {}
        THEN IF found # NoEntry
             THEN /\ EndpointShardsByService' = [EndpointShardsByService EXCEPT
                         ![key] = deleteEndpointShards(found, c)]
                  /\ ConfigUpdate("eds")
                  /\ UNCHANGED announced
             ELSE UNCHANGED <<EndpointShardsByService, announced, pending>>
        ELSE /\ EndpointShardsByService' = [EndpointShardsByService EXCEPT ![key] =
                    [ep EXCEPT !.Shards[c] = eps, !.ServiceAccounts = AccountsOf(eps)]]
             /\ announced' = IF requireFull(found, eps) THEN announced \cup AccountsOf(eps)
                          ELSE announced
             /\ ConfigUpdate(IF requireFull(found, eps) THEN "full" ELSE "eds")

(* deleteService: the entry goes with its last shard. *)
deleteService(entry, c) ==
    LET left == deleteEndpointShards(entry, c)
    IN  IF left # NoEntry /\ \A d \in Clusters : left.Shards[d] = {}
        THEN NoEntry ELSE left

(* SvcUpdate *)
SvcUpdate(c, key, deleted) ==
    EndpointShardsByService' = IF deleted
        THEN [EndpointShardsByService EXCEPT ![key] = deleteService(@, c)]
        ELSE EndpointShardsByService

-----------------------------------------------------------------------------
(* What a proxy is served.  instances stands for                           *)
(* ServiceDiscovery.InstancesByPort, which reads the registries.           *)

(* buildLocalityLbEndpointsFromShards *)
FromShards(entry) == UNION {{c} \X entry.Shards[c] : c \in Clusters}

(* updateCluster: the registries' instances, none if the push context does *)
(* not know the service.                                                   *)
updateCluster(known, instances) == IF known THEN instances ELSE {}

(* updateClusterInc *)
updateClusterInc(known, instances) ==
    LET entry == EndpointShardsByService["hostname"]
    IN  IF known /\ entry # NoEntry
        THEN FromShards(entry) ELSE updateCluster(known, instances)

(* loadAssignmentsForClusterLegacy: the cached assignment, if there is one.*)
Legacy(known, cached, instances) ==
    IF cached = NoAssignment THEN updateCluster(known, instances) ELSE cached

(* pushEds with loadAssignmentsForClusterIsolated: the shards, if the      *)
(* proxy's sidecar scope has the service and there are any.  The legacy    *)
(* path fills the cache.                                                   *)
pushEds(known, cached, instances) ==
    LET entry == EndpointShardsByService["hostname"]
        isolated == known /\ entry # NoEntry
        legacy == Legacy(known, cached, instances)
    IN  [eps |-> IF isolated THEN FromShards(entry) ELSE legacy,
         cache |-> IF isolated THEN cached ELSE legacy]

(* DiscoveryServer.Push up to the proxy's pushConnection.  A full push     *)
(* builds a push context from the registries, gives the proxy its scope    *)
(* and sends CDS.  Before that the assignment cached for a watched cluster *)
(* is recomputed: by a full push (AdsPushAll) from the registries, by an   *)
(* incremental one (edsIncremental) from the shards.  Both send EDS to a   *)
(* proxy that watches the cluster.  Envoy forgets the endpoints of a       *)
(* cluster that is no longer in CDS.                                       *)
Push(services, accounts, instances) ==
    LET isFull == pending = "full"
        known == IF isFull THEN services ELSE proxy.cds
        cached == IF ~proxy.watching THEN LoadAssignment
                  ELSE IF isFull THEN updateCluster(known, instances)
                  ELSE updateClusterInc(known, instances)
        sent == pushEds(known, cached, instances)
    IN  /\ pending # "none"
        /\ pending' = "none"
        /\ proxy' = [proxy EXCEPT
               !.cds = known,
               !.accounts = IF isFull THEN accounts ELSE @,
               !.eps = IF ~known THEN {} ELSE IF proxy.watching THEN sent.eps ELSE @]
        /\ LoadAssignment' = IF proxy.watching THEN sent.cache ELSE LoadAssignment
        /\ UNCHANGED shardVars

(* Envoy asks for the endpoints of the clusters it has: updateEdsClients   *)
(* makes or drops the EdsCluster, pushEds answers.                         *)
EDSRequest(instances) ==
    /\ proxy.watching # proxy.cds
    /\ IF proxy.cds
       THEN LET sent == pushEds(TRUE, NoAssignment, instances)
            IN  /\ proxy' = [proxy EXCEPT !.watching = TRUE, !.eps = sent.eps]
                /\ LoadAssignment' = sent.cache
       ELSE /\ proxy' = [proxy EXCEPT !.watching = FALSE]
            /\ LoadAssignment' = NoAssignment
    /\ UNCHANGED <<pending, shardVars>>
=============================================================================
