------------------------- MODULE KubeRegistryProofs --------------------------
(***************************************************************************)
(* Theorems about KubeRegistry for any clusters, endpoints, accounts and   *)
(* number of controllers.                                                  *)
(***************************************************************************)
EXTENDS KubeRegistry, TLAPS

(* func Push of the work queue never leaves a task behind a Run that waits. *)
LEMMA QueuePush ==
    ASSUME NEW T, NEW q \in WQ!QueueOf(T), NEW t \in T
    PROVE  WQ!Push(q, t) \in WQ!QueueOf(T)
<1>1. CASE q.closing
  BY <1>1 DEF WQ!Push, WQ!signal, WQ!QueueOf
<1>2. CASE ~q.closing
  <2> DEFINE longer == [q EXCEPT !.tasks = Append(@, t)]
  <2>1. q.tasks \in Seq(T) /\ Append(q.tasks, t) \in Seq(T)
    BY DEF WQ!QueueOf
  <2>2. longer \in [tasks : Seq(T), closing : BOOLEAN, run : {"ready", "waiting", "returned"}]
    BY <2>1 DEF WQ!QueueOf
  <2>3. q.run # "returned"
    BY <1>2 DEF WQ!QueueOf
  <2> QED
    BY <1>2, <2>2, <2>3 DEF WQ!Push, WQ!signal, WQ!QueueOf
<1> QED BY <1>1, <1>2

(* Run waits or returns only when it sees no task. *)
LEMMA QueueLook ==
    ASSUME NEW T, NEW q \in WQ!QueueOf(T)
    PROVE  WQ!Look(q) \in WQ!QueueOf(T)
  BY DEF WQ!Look, WQ!QueueOf

(* Taking a task leaves a queue that is well formed. *)
LEMMA QueueTake ==
    ASSUME NEW T, NEW q \in WQ!QueueOf(T), WQ!CanTake(q)
    PROVE  WQ!Take(q) \in WQ!QueueOf(T) /\ Head(q.tasks) \in T
<1>1. q.tasks \in Seq(T) /\ q.tasks # <<>> /\ q.run = "ready"
  BY DEF WQ!CanTake, WQ!QueueOf
<1>2. Tail(q.tasks) \in Seq(T) /\ Head(q.tasks) \in T
  BY <1>1
<1>3. [q EXCEPT !.tasks = Tail(@)] \in WQ!QueueOf(T)
  BY <1>1, <1>2 DEF WQ!QueueOf
<1> QED
  BY <1>2, <1>3, QueueLook DEF WQ!Take

(* Closing a queue touches no task. *)
LEMMA QueueStop ==
    ASSUME NEW T, NEW q \in WQ!QueueOf(T)
    PROVE  WQ!Stop(q) \in WQ!QueueOf(T)
  BY DEF WQ!Stop, WQ!QueueOf

-----------------------------------------------------------------------------
ShardsType == EndpointShardsByService \in [Keys -> {NoEntry} \cup Entry]

(* edsUpdate keeps the shards and the accounts well formed, and every      *)
(* account it stores has been announced by a request for a full push.      *)
LEMMA EdsUpdateStep ==
    ASSUME ServerTypeOK, AccountsAnnounced,
           NEW c \in Clusters, NEW eps \in SUBSET Endpoints,
           edsUpdate(c, "hostname", eps)
    PROVE  ShardsType' /\ pending' \in Requests /\ announced' \subseteq Accounts
           /\ AccountsAnnounced'
<1> DEFINE found == EndpointShardsByService["hostname"]
<1>1. /\ found \in {NoEntry} \cup Entry /\ pending \in Requests /\ announced \subseteq Accounts
      /\ "hostname" \in Keys
  BY DEF ServerTypeOK, Keys
<1>2. AccountsOf(eps) \subseteq Accounts
  BY DEF AccountsOf, Accounts
<1>3. CASE eps = {} /\ found = NoEntry
  BY <1>3 DEF edsUpdate, ServerTypeOK, ShardsType, AccountsAnnounced
<1>4. CASE eps = {} /\ found # NoEntry
  <2>1. /\ EndpointShardsByService' =
             [EndpointShardsByService EXCEPT !["hostname"] = [found EXCEPT !.Shards[c] = {}]]
        /\ announced' = announced /\ pending' \in Requests
    BY <1>1, <1>4 DEF edsUpdate, deleteEndpointShards, ConfigUpdate, Merge, Requests
  <2>2. [found EXCEPT !.Shards[c] = {}] \in Entry
    BY <1>1, <1>4 DEF Entry
  <2>3. ShardsType'
    BY <1>1, <2>1, <2>2 DEF ServerTypeOK, ShardsType
  <2>4. EndpointShardsByService'["hostname"] = [found EXCEPT !.Shards[c] = {}]
    BY <1>1, <2>1 DEF ServerTypeOK
  <2>5. AccountsAnnounced'
    BY <1>1, <1>4, <2>1, <2>4 DEF AccountsAnnounced, AccountsOf, Entry
  <2> QED BY <1>1, <2>1, <2>3, <2>5
<1>5. CASE eps # {}
  <2> DEFINE ep == IF found = NoEntry THEN NewShards ELSE found
             new == [ep EXCEPT !.Shards[c] = eps, !.ServiceAccounts = AccountsOf(eps)]
  <2>1. /\ EndpointShardsByService' = [EndpointShardsByService EXCEPT !["hostname"] = new]
        /\ announced' = IF requireFull(found, eps) THEN announced \cup AccountsOf(eps)
                        ELSE announced
        /\ pending' \in Requests
    BY <1>1, <1>5 DEF edsUpdate, ConfigUpdate, Merge, Requests
  <2>2. ep \in Entry
    BY <1>1 DEF NewShards, Entry
  <2>3. new \in Entry
    BY <1>2, <2>2 DEF Entry
  <2>4. ShardsType' /\ EndpointShardsByService'["hostname"] = new
    BY <1>1, <2>1, <2>3 DEF ServerTypeOK, ShardsType
  <2>5. announced' \subseteq Accounts /\ announced \subseteq announced'
    BY <1>1, <1>2, <2>1
  <2>6. AccountsOf(eps) \subseteq announced'
    BY <1>1, <2>1 DEF requireFull, AccountsAnnounced
  <2>7. \A d \in Clusters : AccountsOf(ep.Shards[d]) \subseteq announced
    BY <1>1 DEF AccountsAnnounced, NewShards, AccountsOf
  <2>8. \A d \in Clusters : AccountsOf(new.Shards[d]) \subseteq announced'
    BY <2>2, <2>5, <2>6, <2>7 DEF Entry
  <2>9. new.ServiceAccounts = AccountsOf(eps)
    BY <2>2 DEF Entry
  <2>10. AccountsAnnounced'
    BY <2>4, <2>6, <2>8, <2>9 DEF AccountsAnnounced
  <2> QED BY <2>1, <2>4, <2>5, <2>10
<1> QED BY <1>3, <1>4, <1>5

(* onServiceEvent touches the shards under the bare name only. *)
LEMMA ServiceEventStep ==
    ASSUME ServerTypeOK, AccountsAnnounced,
           NEW k \in Controllers, NEW svc \in BOOLEAN, cluster[k] \in Clusters,
           onServiceEvent(k, svc)
    PROVE  ShardsType' /\ pending' \in Requests /\ announced' \subseteq Accounts
           /\ AccountsAnnounced'
<1> DEFINE entry == EndpointShardsByService["name"]
           left == deleteEndpointShards(entry, cluster[k])
<1>1. entry \in {NoEntry} \cup Entry /\ "name" \in Keys /\ "hostname" \in Keys
  BY DEF ServerTypeOK, Keys
<1>2. left \in {NoEntry} \cup Entry
  <2>1. CASE entry = NoEntry
    BY <2>1 DEF deleteEndpointShards
  <2>2. CASE entry # NoEntry
    <3>1. [entry EXCEPT !.Shards[cluster[k]] = {}] \in Entry
      BY <1>1, <2>2 DEF Entry
    <3> QED BY <2>2, <3>1 DEF deleteEndpointShards
  <2> QED BY <2>1, <2>2
<1>3. deleteService(entry, cluster[k]) \in {NoEntry} \cup Entry
  BY <1>2 DEF deleteService
<1>4. /\ pending' \in Requests /\ announced' = announced
      /\ \/ EndpointShardsByService' = EndpointShardsByService
         \/ EndpointShardsByService' = [EndpointShardsByService EXCEPT
                !["name"] = deleteService(entry, cluster[k])]
  BY DEF onServiceEvent, SvcUpdate, ConfigUpdate, Merge, Requests, ServerTypeOK
<1>5. ShardsType'
  BY <1>1, <1>3, <1>4 DEF ServerTypeOK, ShardsType
<1>6. EndpointShardsByService'["hostname"] = EndpointShardsByService["hostname"]
  BY <1>1, <1>4 DEF ServerTypeOK
<1> QED
  BY <1>4, <1>5, <1>6 DEF AccountsAnnounced, ServerTypeOK

(* What a proxy is served are endpoints of clusters. *)
LEMMA ServedType ==
    ASSUME ServerTypeOK, NEW known \in BOOLEAN,
           NEW cached \in {NoAssignment} \cup SUBSET (Clusters \X Endpoints),
           NEW instances \in SUBSET (Clusters \X Endpoints)
    PROVE  /\ updateClusterInc(known, instances) \in SUBSET (Clusters \X Endpoints)
           /\ pushEds(known, cached, instances).eps \in SUBSET (Clusters \X Endpoints)
           /\ pushEds(known, cached, instances).cache
                 \in {NoAssignment} \cup SUBSET (Clusters \X Endpoints)
<1> DEFINE entry == EndpointShardsByService["hostname"]
<1>1. entry \in {NoEntry} \cup Entry
  BY DEF ServerTypeOK, Keys
<1>2. entry # NoEntry => FromShards(entry) \in SUBSET (Clusters \X Endpoints)
  BY <1>1 DEF FromShards, Entry
<1>3. updateCluster(known, instances) \in SUBSET (Clusters \X Endpoints)
  BY DEF updateCluster
<1>4. Legacy(known, cached, instances) \in SUBSET (Clusters \X Endpoints)
  BY <1>3 DEF Legacy
<1> QED
  BY <1>1, <1>2, <1>3, <1>4 DEF updateClusterInc, pushEds

-----------------------------------------------------------------------------
RegistryInv == TypeOK /\ AccountsAnnounced

(* Nothing is known at the start. *)
LEMMA RegistryInit == Init => RegistryInv
<1> SUFFICES ASSUME Init PROVE RegistryInv
  OBVIOUS
<1> USE KubeRegistryAssumption, EndpointShardsAssumption
<1>1. ServerTypeOK
  BY DEF Init, ServerInit, ServerTypeOK, Requests
<1>2. Missing \in Objects
  BY DEF Missing, Objects
<1>3. WQ!NewQueue \in WQ!QueueOf(Tasks)
  BY DEF WQ!NewQueue, WQ!QueueOf
<1>4. TypeOK
  BY <1>1, <1>2, <1>3 DEF Init, TypeOK
<1>5. AccountsAnnounced
  BY DEF Init, ServerInit, AccountsAnnounced, Keys
<1> QED BY <1>4, <1>5 DEF RegistryInv

(* The tasks the informers' handlers make are tasks. *)
LEMMA TaskTypes ==
    /\ \A svc \in BOOLEAN : ServiceTask(svc) \in Tasks
    /\ \A eps \in SUBSET Endpoints : EndpointsTask(eps) \in Tasks
  BY DEF ServiceTask, EndpointsTask, Tasks

(* Steps of a controller's informers: what they queue is well formed, and  *)
(* the discovery server is left alone.                                     *)
LEMMA InformerStep ==
    ASSUME RegistryInv, NEW k \in Controllers,
           Sync(k) \/ ServiceEvent(k) \/ EndpointsEvent(k)
    PROVE  RegistryInv'
<1> USE DEF RegistryInv
<1>1. /\ kube[cluster[k]] \in Objects /\ queue[k] \in WQ!QueueOf(Tasks)
      /\ store[k] \in Objects
  BY DEF TypeOK
<1>2. AccountsAnnounced' /\ ServerTypeOK'
  <2>1. UNCHANGED serverVars
    BY DEF Sync, ServiceEvent, EndpointsEvent
  <2> QED
    BY <2>1 DEF TypeOK, ServerTypeOK, AccountsAnnounced, serverVars, shardVars, pushVars
<1>3. CASE Sync(k)
  <2> DEFINE now == kube[cluster[k]]
             svc == IF now.svc THEN {ServiceTask(TRUE)} ELSE {}
             eps == IF now.eps # {} THEN {EndpointsTask(now.eps)} ELSE {}
             PushAll(q, ts) == IF ts = {} THEN q ELSE WQ!Push(q, CHOOSE t \in ts : TRUE)
  <2>1. svc \subseteq Tasks /\ eps \subseteq Tasks
    BY <1>1, TaskTypes DEF Objects
  <2>2. \A q \in WQ!QueueOf(Tasks), ts \in SUBSET Tasks : PushAll(q, ts) \in WQ!QueueOf(Tasks)
    BY QueuePush
  <2>3. PICK first \in IF svc \cup eps = {} THEN {{}} ELSE {svc, eps} \ {{}} :
          queue' = [queue EXCEPT ![k] =
              WQ!Look(PushAll(PushAll(queue[k], first), (svc \cup eps) \ first))]
    BY <1>3 DEF Sync
  <2>4. first \subseteq Tasks /\ (svc \cup eps) \ first \subseteq Tasks
    BY <2>1, <2>3
  <2> HIDE DEF now, svc, eps, PushAll
  <2>5. PushAll(PushAll(queue[k], first), (svc \cup eps) \ first) \in WQ!QueueOf(Tasks)
    BY <1>1, <2>2, <2>4
  <2>6. queue' \in [Controllers -> WQ!QueueOf(Tasks)]
    BY <2>3, <2>5, QueueLook DEF TypeOK
  <2> QED
    BY <1>1, <1>2, <1>3, <2>6 DEF Sync, TypeOK, kubeVars
<1>4. CASE ServiceEvent(k)
  <2>1. ServiceTask(kube[cluster[k]].svc) \in Tasks /\ kube[cluster[k]].svc \in BOOLEAN
    BY <1>1, TaskTypes DEF Objects
  <2>2. queue' \in [Controllers -> WQ!QueueOf(Tasks)]
    BY <1>1, <1>4, <2>1, QueuePush DEF ServiceEvent, TypeOK
  <2>3. store' \in [Controllers -> Objects]
    BY <1>1, <1>4, <2>1 DEF ServiceEvent, TypeOK, Objects
  <2> QED
    BY <1>2, <1>4, <2>2, <2>3 DEF ServiceEvent, TypeOK, kubeVars
<1>5. CASE EndpointsEvent(k)
  <2>1. EndpointsTask(kube[cluster[k]].eps) \in Tasks /\ kube[cluster[k]].eps \subseteq Endpoints
    BY <1>1, TaskTypes DEF Objects
  <2>2. queue' \in [Controllers -> WQ!QueueOf(Tasks)]
    BY <1>1, <1>5, <2>1, QueuePush DEF EndpointsEvent, TypeOK
  <2>3. store' \in [Controllers -> Objects]
    BY <1>1, <1>5, <2>1 DEF EndpointsEvent, TypeOK, Objects
  <2> QED
    BY <1>2, <1>5, <2>2, <2>3 DEF EndpointsEvent, TypeOK, kubeVars
<1> QED BY <1>3, <1>4, <1>5

(* Running a task, of a service or of endpoints, keeps the invariant. *)
LEMMA RunTaskStep ==
    ASSUME RegistryInv, NEW k \in Controllers, RunTask(k)
    PROVE  RegistryInv'
<1> USE DEF RegistryInv
<1> DEFINE task == Head(queue[k].tasks)
<1>1. /\ queue[k] \in WQ!QueueOf(Tasks) /\ WQ!CanTake(queue[k]) /\ cluster[k] \in Clusters
      /\ queue' = [queue EXCEPT ![k] = WQ!Take(@)]
      /\ ServerTypeOK
  BY DEF RunTask, TypeOK
<1>2. task \in Tasks /\ WQ!Take(queue[k]) \in WQ!QueueOf(Tasks)
  BY <1>1, QueueTake
<1>3. queue' \in [Controllers -> WQ!QueueOf(Tasks)]
  BY <1>1, <1>2 DEF TypeOK
<1>4. /\ ShardsType' /\ pending' \in Requests /\ announced' \subseteq Accounts
      /\ AccountsAnnounced'
      /\ servicesMap' \in [Controllers -> BOOLEAN] /\ author' \in [Clusters -> 0..MaxControllers]
  <2>1. CASE task.obj = "service"
    <3>1. onServiceEvent(k, task.svc) /\ task.svc \in BOOLEAN
      BY <1>2, <2>1 DEF RunTask, Tasks
    <3>2. servicesMap' \in [Controllers -> BOOLEAN] /\ author' = author
      BY <3>1 DEF onServiceEvent, TypeOK
    <3> QED
      BY <1>1, <3>1, <3>2, ServiceEventStep DEF TypeOK
  <2>2. CASE task.obj # "service"
    <3>1. updateEDS(k, task.eps) /\ task.eps \subseteq Endpoints
      BY <1>2, <2>2 DEF RunTask, Tasks
    <3>2. k \in 0..MaxControllers /\ 0 \in 0..MaxControllers
      BY KubeRegistryAssumption DEF Controllers
    <3>3. servicesMap' = servicesMap /\ author' \in [Clusters -> 0..MaxControllers]
      BY <3>1, <3>2 DEF updateEDS, TypeOK
    <3>4. CASE servicesMap[k]
      BY <1>1, <3>1, <3>3, <3>4, EdsUpdateStep DEF updateEDS, TypeOK
    <3>5. CASE ~servicesMap[k]
      <4>1. UNCHANGED <<EndpointShardsByService, announced, pending>>
        BY <3>1, <3>5 DEF updateEDS, shardVars
      <4> QED
        BY <1>1, <3>3, <4>1 DEF ShardsType, ServerTypeOK, AccountsAnnounced, TypeOK
    <3> QED BY <3>4, <3>5
  <2> QED BY <2>1, <2>2
<1> QED
  BY <1>3, <1>4 DEF RunTask, TypeOK, ServerTypeOK, ShardsType, kubeVars

(* A push, or the answer to an EDS request, sends what is well formed. *)
LEMMA ServeStep ==
    ASSUME RegistryInv, ServerPush \/ ProxyWatch
    PROVE  RegistryInv'
<1> USE DEF RegistryInv
<1>1. InstancesByPort \in SUBSET (Clusters \X Endpoints)
  BY DEF InstancesByPort, TypeOK, Objects
<1>2. GetIstioServiceAccounts \subseteq Accounts /\ Services \in BOOLEAN
  <2>1. 1 \in Controllers
    BY KubeRegistryAssumption DEF Controllers
  <2>2. store[1].eps \subseteq Endpoints
    BY <2>1 DEF TypeOK, Objects
  <2>3. GetIstioServiceAccounts \subseteq Accounts
    BY <2>2 DEF GetIstioServiceAccounts, AccountsOf, Accounts
  <2>4. Services \in BOOLEAN
    BY Zenon DEF Services
  <2> QED BY <2>3, <2>4
<1>3. /\ pending \in Requests /\ ServerTypeOK
      /\ LoadAssignment \in {NoAssignment} \cup SUBSET (Clusters \X Endpoints)
      /\ proxy \in [cds : BOOLEAN, accounts : SUBSET Accounts, watching : BOOLEAN,
                    eps : SUBSET (Clusters \X Endpoints)]
  BY DEF TypeOK, ServerTypeOK
<1>4. /\ pending' \in Requests
      /\ LoadAssignment' \in {NoAssignment} \cup SUBSET (Clusters \X Endpoints)
      /\ proxy' \in [cds : BOOLEAN, accounts : SUBSET Accounts, watching : BOOLEAN,
                     eps : SUBSET (Clusters \X Endpoints)]
  <2>1. CASE ServerPush
    <3> DEFINE isFull == pending = "full"
               known == IF isFull THEN Services ELSE proxy.cds
               cached == IF ~proxy.watching THEN LoadAssignment
                         ELSE IF isFull THEN updateCluster(known, InstancesByPort)
                         ELSE updateClusterInc(known, InstancesByPort)
               sent == pushEds(known, cached, InstancesByPort)
    <3>1. known \in BOOLEAN
      BY <1>2, <1>3
    <3>2. cached \in {NoAssignment} \cup SUBSET (Clusters \X Endpoints)
      <4>1. updateCluster(known, InstancesByPort) \in SUBSET (Clusters \X Endpoints)
        BY <1>1 DEF updateCluster
      <4>2. updateClusterInc(known, InstancesByPort) \in SUBSET (Clusters \X Endpoints)
        BY <1>1, <1>3, <3>1, ServedType
      <4> QED BY <1>3, <4>1, <4>2
    <3> HIDE DEF cached, known
    <3>3. /\ sent.eps \in SUBSET (Clusters \X Endpoints)
          /\ sent.cache \in {NoAssignment} \cup SUBSET (Clusters \X Endpoints)
      BY <1>1, <1>3, <3>1, <3>2, ServedType
    <3>4. /\ pending' = "none"
          /\ proxy' = [proxy EXCEPT
                 !.cds = known,
                 !.accounts = IF isFull THEN GetIstioServiceAccounts ELSE @,
                 !.eps = IF ~known THEN {} ELSE IF proxy.watching THEN sent.eps ELSE @]
          /\ LoadAssignment' = IF proxy.watching THEN sent.cache ELSE LoadAssignment
      BY <2>1 DEF ServerPush, Push, known, cached
    <3> HIDE DEF sent, isFull
    <3> QED
      BY <1>2, <1>3, <3>1, <3>3, <3>4 DEF Requests
  <2>2. CASE ProxyWatch
    <3> DEFINE sent == pushEds(TRUE, NoAssignment, InstancesByPort)
    <3>1. /\ sent.eps \in SUBSET (Clusters \X Endpoints)
          /\ sent.cache \in {NoAssignment} \cup SUBSET (Clusters \X Endpoints)
      BY <1>1, <1>3, ServedType
    <3>2. /\ pending' = pending
          /\ \/ /\ proxy' = [proxy EXCEPT !.watching = TRUE, !.eps = sent.eps]
                /\ LoadAssignment' = sent.cache
             \/ /\ proxy' = [proxy EXCEPT !.watching = FALSE]
                /\ LoadAssignment' = NoAssignment
      BY <2>2 DEF ProxyWatch, EDSRequest
    <3> HIDE DEF sent
    <3> QED BY <1>3, <3>1, <3>2
  <2> QED BY <2>1, <2>2
<1>5. UNCHANGED <<shardVars, kubeVars, ctrlVars>>
  BY DEF ServerPush, ProxyWatch, Push, EDSRequest
<1> QED
  BY <1>4, <1>5
  DEF TypeOK, ServerTypeOK, AccountsAnnounced, shardVars, kubeVars, ctrlVars

(* Kubernetes and the member clusters may change at any time. *)
LEMMA OutsideStep ==
    ASSUME RegistryInv,
           \/ \E c \in Clusters : ChangeService(c) \/ ChangeEndpoints(c) \/ AddMemberCluster(c)
           \/ \E k \in Controllers : DeleteMemberCluster(k)
    PROVE  RegistryInv'
<1> USE KubeRegistryAssumption DEF RegistryInv
<1>1. CASE \E c \in Clusters : ChangeService(c) \/ ChangeEndpoints(c)
  <2>1. PICK c \in Clusters : ChangeService(c) \/ ChangeEndpoints(c)
    BY <1>1
  <2>2. kube' \in [Clusters -> Objects]
    <3>1. CASE ChangeService(c)
      <4>1. kube[c] \in Objects /\ kube[c].svc \in BOOLEAN
        BY DEF TypeOK, Objects
      <4>2. (~kube[c].svc) \in BOOLEAN
        BY Zenon
      <4>3. [kube[c] EXCEPT !.svc = ~@] \in Objects
        BY <4>1, <4>2 DEF Objects
      <4>4. kube' = [kube EXCEPT ![c] = [kube[c] EXCEPT !.svc = ~@]]
        BY <3>1 DEF ChangeService, TypeOK
      <4> QED BY <4>3, <4>4 DEF TypeOK
    <3>2. CASE ChangeEndpoints(c)
      BY <3>2 DEF ChangeEndpoints, TypeOK, Objects
    <3> QED BY <2>1, <3>1, <3>2
  <2>3. changes' \in 0..MaxChanges /\ UNCHANGED <<serverVars, ctrlVars>>
    BY <2>1 DEF ChangeService, ChangeEndpoints, TypeOK
  <2> QED
    BY <2>2, <2>3
    DEF TypeOK, ServerTypeOK, AccountsAnnounced, serverVars, shardVars, pushVars, ctrlVars
<1>2. CASE \E c \in Clusters : AddMemberCluster(c)
  BY <1>2
  DEF AddMemberCluster, TypeOK, ServerTypeOK, AccountsAnnounced, serverVars, shardVars,
      pushVars, kubeVars
<1>3. CASE \E k \in Controllers : DeleteMemberCluster(k)
  <2>1. PICK k \in Controllers : DeleteMemberCluster(k)
    BY <1>3
  <2>2. queue' \in [Controllers -> WQ!QueueOf(Tasks)]
    BY <2>1, QueueStop DEF DeleteMemberCluster, TypeOK
  <2>3. pending' \in Requests
    BY <2>1 DEF DeleteMemberCluster, ConfigUpdate, Merge, Requests
  <2> QED
    BY <2>1, <2>2, <2>3
    DEF DeleteMemberCluster, TypeOK, ServerTypeOK, AccountsAnnounced, shardVars, kubeVars
<1> QED BY <1>1, <1>2, <1>3

(* Every step of Kubernetes, controllers, secret controller and server     *)
(* keeps the invariant.                                                    *)
LEMMA RegistryNext == RegistryInv /\ [Next]_vars => RegistryInv'
<1> SUFFICES ASSUME RegistryInv, [Next]_vars PROVE RegistryInv'
  OBVIOUS
<1>1. CASE UNCHANGED vars
  BY <1>1
  DEF RegistryInv, TypeOK, ServerTypeOK, AccountsAnnounced, vars, serverVars, shardVars,
      pushVars, kubeVars, ctrlVars
<1>2. CASE \E k \in Controllers : ControllerStep(k)
  BY <1>2, InformerStep, RunTaskStep DEF ControllerStep
<1> QED
  BY <1>1, <1>2, ServeStep, OutsideStep DEF Next

(* The registries and the endpoint shards keep their types.  In the type   *)
(* is that no work queue ever holds a task behind a Run that waits for     *)
(* one: no wake-up is lost, for any number of controllers.                 *)
THEOREM RegistryTypeCorrect == Spec => []TypeOK
<1>1. RegistryInv => TypeOK
  BY DEF RegistryInv
<1> QED BY <1>1, RegistryInit, RegistryNext, PTL DEF Spec

(* No account enters the shards that no full push was ever requested for,  *)
(* for any number of clusters that report the service, join and leave,     *)
(* although edsUpdate compares accounts with the last report of any one    *)
(* cluster.                                                                *)
THEOREM AccountsAreAnnounced == Spec => []AccountsAnnounced
<1>1. RegistryInv => AccountsAnnounced
  BY DEF RegistryInv
<1> QED BY <1>1, RegistryInit, RegistryNext, PTL DEF Spec

-----------------------------------------------------------------------------
(* What the reports, the shards and the proxy have to do with each other.  *)

hostEntry == EndpointShardsByService["hostname"]

NoReport(q) == \A i \in 1..Len(q) : q[i].obj # "endpoints"
LastReport(q, eps) ==
    \A i \in 1..Len(q) :
        q[i].obj = "endpoints" /\ (\A j \in i+1..Len(q) : q[j].obj # "endpoints") =>
            q[i].eps = eps

(* The last report a controller has queued is what its informer holds. *)
ControllerInv ==
    \A k \in Controllers :
        /\ life[k] \in {"none", "starting"} => queue[k] = WQ!NewQueue
        /\ life[k] = "running" => ~queue[k].closing
        /\ life[k] \in {"running", "closed"} => LastReport(queue[k].tasks, store[k].eps)

(* A shard is the latest report of its author, and the entry stays. *)
ReportInv ==
    \A c \in Clusters, k \in Controllers :
        author[c] = k =>
            /\ cluster[k] = c /\ life[k] \in {"running", "closed"} /\ hostEntry # NoEntry
            /\ NoReport(queue[k].tasks) =>
                  hostEntry.Shards[c] = store[k].eps

(* With no push under way the proxy has what the shards hold. *)
ServedInv ==
    pending = "none" /\ proxy.cds /\ proxy.watching /\ hostEntry # NoEntry =>
        proxy.eps = FromShards(hostEntry)

CurrentInv == RegistryInv /\ ControllerInv /\ ReportInv /\ ServedInv

(* Adding a task, and taking the first one. *)
LEMMA ReportAppended ==
    ASSUME NEW q \in Seq(Tasks), NEW t \in Tasks, NEW eps
    PROVE  /\ NoReport(Append(q, t)) => NoReport(q) /\ t.obj # "endpoints"
           /\ t.obj # "endpoints" /\ LastReport(q, eps) => LastReport(Append(q, t), eps)
           /\ t.obj = "endpoints" => LastReport(Append(q, t), t.eps)
<1> DEFINE r == Append(q, t)
<1>1. /\ Len(q) \in Nat /\ Len(r) = Len(q) + 1
      /\ \A i \in 1..Len(q) : r[i] = q[i]
      /\ r[Len(q) + 1] = t
  OBVIOUS
<1> HIDE DEF r
<1>2. NoReport(r) => NoReport(q) /\ t.obj # "endpoints"
  <2>1. /\ \A i \in 1..Len(q) : i \in 1..Len(r)
        /\ Len(q) + 1 \in 1..Len(r)
    BY <1>1
  <2> QED
    BY <1>1, <2>1 DEF NoReport
<1>3. ASSUME t.obj # "endpoints", LastReport(q, eps) PROVE LastReport(r, eps)
  <2> SUFFICES ASSUME NEW i \in 1..Len(r), r[i].obj = "endpoints",
                      \A j \in i+1..Len(r) : r[j].obj # "endpoints"
               PROVE  r[i].eps = eps
    BY DEF LastReport
  <2>1. i \in 1..Len(q)
    BY <1>1, <1>3
  <2>2. ASSUME NEW j \in i+1..Len(q) PROVE q[j].obj # "endpoints"
    <3>1. j \in i+1..Len(r) /\ j \in 1..Len(q)
      BY <1>1, <2>1
    <3> QED
      BY <1>1, <3>1
  <2> QED
    BY <1>1, <1>3, <2>1, <2>2 DEF LastReport
<1>4. ASSUME t.obj = "endpoints" PROVE LastReport(r, t.eps)
  <2> SUFFICES ASSUME NEW i \in 1..Len(r), r[i].obj = "endpoints",
                      \A j \in i+1..Len(r) : r[j].obj # "endpoints"
               PROVE  r[i].eps = t.eps
    BY DEF LastReport
  <2>1. i \in 1..Len(q) => Len(q) + 1 \in i+1..Len(r)
    BY <1>1
  <2>2. i = Len(q) + 1
    BY <1>1, <1>4, <2>1
  <2> QED
    BY <1>1, <2>2
<1> QED
  BY <1>2, <1>3, <1>4 DEF r

(* Taking the first task keeps the last report, or carries it out. *)
LEMMA ReportTaken ==
    ASSUME NEW q \in Seq(Tasks), q # <<>>, NEW eps, LastReport(q, eps)
    PROVE  /\ LastReport(Tail(q), eps)
           /\ NoReport(Tail(q)) /\ Head(q).obj = "endpoints" => Head(q).eps = eps
           /\ NoReport(Tail(q)) /\ Head(q).obj # "endpoints" => NoReport(q)
<1> DEFINE r == Tail(q)
<1>1. /\ Len(q) \in Nat /\ Len(q) > 0 /\ Len(r) = Len(q) - 1
      /\ \A i \in 1..Len(r) : r[i] = q[i + 1]
      /\ Head(q) = q[1]
  OBVIOUS
<1> HIDE DEF r
<1>2. /\ 1 \in 1..Len(q)
      /\ \A i \in 1..Len(r) : i + 1 \in 1..Len(q)
      /\ \A i \in 1..Len(q) : i # 1 => i - 1 \in 1..Len(r) /\ r[i - 1] = q[i]
  BY <1>1
<1>3. LastReport(r, eps)
  <2> SUFFICES ASSUME NEW i \in 1..Len(r), r[i].obj = "endpoints",
                      \A j \in i+1..Len(r) : r[j].obj # "endpoints"
               PROVE  r[i].eps = eps
    BY DEF LastReport
  <2>1. ASSUME NEW j \in (i+1)+1..Len(q) PROVE q[j].obj # "endpoints"
    <3>1. j \in 1..Len(q) /\ j # 1 /\ j - 1 \in i+1..Len(r)
      BY <1>1
    <3> QED
      BY <1>2, <3>1
  <2>2. q[i + 1].eps = eps
    BY <1>1, <1>2, <2>1 DEF LastReport
  <2> QED
    BY <1>1, <2>2
<1>4. ASSUME NoReport(r), Head(q).obj = "endpoints" PROVE Head(q).eps = eps
  <2>1. ASSUME NEW j \in 1+1..Len(q) PROVE q[j].obj # "endpoints"
    <3>1. j \in 1..Len(q) /\ j # 1
      BY <1>1
    <3> QED
      BY <1>2, <1>4, <3>1 DEF NoReport
  <2> QED
    BY <1>1, <1>2, <1>4, <2>1 DEF LastReport
<1>5. ASSUME NoReport(r), Head(q).obj # "endpoints" PROVE NoReport(q)
  BY <1>1, <1>2, <1>5 DEF NoReport
<1> QED
  BY <1>3, <1>4, <1>5 DEF r

(* What the operations of the work queue do to its tasks. *)
LEMMA QueueTasks ==
    ASSUME NEW q \in WQ!QueueOf(Tasks), NEW t \in Tasks
    PROVE  /\ ~q.closing => WQ!Push(q, t).tasks = Append(q.tasks, t)
           /\ WQ!Push(q, t).closing = q.closing
           /\ WQ!Look(q).tasks = q.tasks /\ WQ!Look(q).closing = q.closing
           /\ WQ!Take(q).tasks = Tail(q.tasks) /\ WQ!Take(q).closing = q.closing
<1>1. q \in [tasks : Seq(Tasks), closing : BOOLEAN, run : {"ready", "waiting", "returned"}]
  BY DEF WQ!QueueOf
<1>2. WQ!Look(q).tasks = q.tasks /\ WQ!Look(q).closing = q.closing
  BY <1>1 DEF WQ!Look
<1>3. WQ!Take(q).tasks = Tail(q.tasks) /\ WQ!Take(q).closing = q.closing
  BY <1>1 DEF WQ!Take, WQ!Look
<1>4. WQ!Push(q, t).closing = q.closing
  BY <1>1 DEF WQ!Push, WQ!signal
<1>5. ASSUME ~q.closing PROVE WQ!Push(q, t).tasks = Append(q.tasks, t)
  BY <1>1, <1>5 DEF WQ!Push, WQ!signal
<1> QED
  BY <1>2, <1>3, <1>4, <1>5

(* The informers' first reports, in either order, end with what they hold. *)
LEMMA SyncReports ==
    ASSUME CurrentInv, NEW k \in Controllers, Sync(k)
    PROVE  ~queue'[k].closing /\ LastReport(queue'[k].tasks, kube[cluster[k]].eps)
<1> DEFINE now == kube[cluster[k]]
           svc == IF now.svc THEN {ServiceTask(TRUE)} ELSE {}
           eps == IF now.eps # {} THEN {EndpointsTask(now.eps)} ELSE {}
           PushAll(q, ts) == IF ts = {} THEN q ELSE WQ!Push(q, CHOOSE t \in ts : TRUE)
           Good(q) == q \in WQ!QueueOf(Tasks) /\ ~q.closing /\ LastReport(q.tasks, now.eps)
<1>1. now \in Objects /\ queue \in [Controllers -> WQ!QueueOf(Tasks)]
  BY DEF CurrentInv, RegistryInv, TypeOK
<1>2. queue[k] = WQ!NewQueue
  BY DEF Sync, CurrentInv, ControllerInv
<1>3. Good(queue[k])
  <2>1. WQ!NewQueue.tasks = <<>> /\ WQ!NewQueue.closing = FALSE
    BY DEF WQ!NewQueue
  <2>2. LastReport(<<>>, now.eps)
    BY DEF LastReport
  <2> QED
    BY <1>1, <1>2, <2>1, <2>2
<1>4. /\ now.eps \subseteq Endpoints
      /\ ServiceTask(TRUE) \in Tasks /\ EndpointsTask(now.eps) \in Tasks
  BY <1>1, TaskTypes DEF Objects
<1>5. /\ ServiceTask(TRUE).obj = "service"
      /\ EndpointsTask(now.eps).obj = "endpoints" /\ EndpointsTask(now.eps).eps = now.eps
  BY DEF ServiceTask, EndpointsTask
<1>6. PICK first \in IF svc \cup eps = {} THEN {{}} ELSE {svc, eps} \ {{}} :
         queue' = [queue EXCEPT ![k] =
             WQ!Look(PushAll(PushAll(queue[k], first), (svc \cup eps) \ first))]
  BY DEF Sync
<1>7. ASSUME NEW q, Good(q) PROVE Good(PushAll(q, svc)) /\ Good(PushAll(q, eps)) /\ Good(PushAll(q, {}))
  <2>1. ASSUME NEW t \in Tasks,
               t.obj # "endpoints" \/ t.eps = now.eps
        PROVE  Good(WQ!Push(q, t))
    <3>1. WQ!Push(q, t) \in WQ!QueueOf(Tasks)
      BY <1>7, QueuePush
    <3>2. WQ!Push(q, t).tasks = Append(q.tasks, t) /\ ~WQ!Push(q, t).closing
      BY <1>7, QueueTasks
    <3>3. q.tasks \in Seq(Tasks)
      BY <1>7 DEF WQ!QueueOf
    <3> HIDE DEF now
    <3>4. LastReport(Append(q.tasks, t), now.eps)
      BY <1>7, <2>1, <3>3, ReportAppended
    <3> QED
      BY <3>1, <3>2, <3>4
  <2> HIDE DEF Good
  <2>2. Good(PushAll(q, {}))
    BY <1>7
  <2>3. Good(PushAll(q, svc))
    <3>1. CASE now.svc
      <4>1. (CHOOSE t \in svc : TRUE) = ServiceTask(TRUE) /\ svc # {}
        BY <3>1
      <4>2. Good(WQ!Push(q, ServiceTask(TRUE)))
        BY <1>4, <1>5, <2>1
      <4> QED
        BY <4>1, <4>2
    <3> QED
      BY <1>7, <3>1
  <2>4. Good(PushAll(q, eps))
    <3>1. CASE now.eps # {}
      <4>1. (CHOOSE t \in eps : TRUE) = EndpointsTask(now.eps) /\ eps # {}
        BY <3>1
      <4>2. Good(WQ!Push(q, EndpointsTask(now.eps)))
        BY <1>4, <1>5, <2>1
      <4> QED
        BY <4>1, <4>2
    <3> QED
      BY <1>7, <3>1
  <2> QED
    BY <2>2, <2>3, <2>4
<1>8. /\ first \in {svc, eps, {}}
      /\ (svc \cup eps) \ first \in {svc, eps, {}}
  <2>1. svc \cap eps = {}
    BY <1>5
  <2> HIDE DEF svc, eps
  <2> QED
    BY <1>6, <2>1
<1> HIDE DEF svc, eps, PushAll
<1>9. Good(PushAll(PushAll(queue[k], first), (svc \cup eps) \ first))
  <2> HIDE DEF Good
  <2>1. Good(PushAll(queue[k], first))
    BY <1>3, <1>7, <1>8
  <2> QED
    BY <1>7, <1>8, <2>1
<1>10. queue'[k] = WQ!Look(PushAll(PushAll(queue[k], first), (svc \cup eps) \ first))
  BY <1>1, <1>6
<1> QED
  BY <1>4, <1>9, <1>10, QueueTasks

(* The informers. *)
LEMMA InformerCurrent ==
    ASSUME CurrentInv, NEW k \in Controllers,
           Sync(k) \/ ServiceEvent(k) \/ EndpointsEvent(k)
    PROVE  ControllerInv' /\ ReportInv' /\ ServedInv'
<1>1. /\ queue \in [Controllers -> WQ!QueueOf(Tasks)] /\ store \in [Controllers -> Objects]
      /\ life \in [Controllers -> {"none", "starting", "running", "closed"}]
      /\ kube[cluster[k]] \in Objects
  BY DEF CurrentInv, RegistryInv, TypeOK
<1>2. UNCHANGED <<EndpointShardsByService, pending, proxy, cluster, author>>
  BY DEF Sync, ServiceEvent, EndpointsEvent, serverVars, shardVars, pushVars
<1>3. ServedInv'
  BY <1>2 DEF CurrentInv, ServedInv, hostEntry
<1>4. /\ \A j \in Controllers : j # k =>
            queue'[j] = queue[j] /\ store'[j] = store[j] /\ life'[j] = life[j]
      /\ life'[k] = "running"
  BY <1>1 DEF Sync, ServiceEvent, EndpointsEvent
<1>5. CASE Sync(k)
  <2>1. life[k] = "starting" /\ store'[k] = kube[cluster[k]]
    BY <1>1, <1>5 DEF Sync
  <2>2. ~queue'[k].closing /\ LastReport(queue'[k].tasks, store'[k].eps)
    BY <1>5, <2>1, SyncReports
  <2>3. ControllerInv'
    BY <1>4, <2>2 DEF CurrentInv, ControllerInv
  <2>4. \A c \in Clusters : author[c] # k
    BY <2>1 DEF CurrentInv, ReportInv
  <2>5. ReportInv'
    BY <1>2, <1>4, <2>4 DEF CurrentInv, ReportInv, hostEntry
  <2> QED
    BY <1>3, <2>3, <2>5
<1>6. ASSUME NEW t \in Tasks, life[k] = "running",
             queue' = [queue EXCEPT ![k] = WQ!Push(@, t)],
             \/ t.obj # "endpoints" /\ store'[k].eps = store[k].eps
             \/ t.obj = "endpoints" /\ store'[k].eps = t.eps
      PROVE  ControllerInv' /\ ReportInv'
  <2>1. ~queue[k].closing /\ LastReport(queue[k].tasks, store[k].eps)
    BY <1>6 DEF CurrentInv, ControllerInv
  <2>2. queue[k] \in WQ!QueueOf(Tasks) /\ queue'[k] = WQ!Push(queue[k], t)
    BY <1>1, <1>6
  <2>3. ~queue'[k].closing /\ queue'[k].tasks = Append(queue[k].tasks, t)
    BY <2>1, <2>2, QueueTasks
  <2>4. queue[k].tasks \in Seq(Tasks)
    BY <2>2 DEF WQ!QueueOf
  <2>5. LastReport(queue'[k].tasks, store'[k].eps)
    BY <1>6, <2>1, <2>3, <2>4, ReportAppended
  <2>6. NoReport(queue'[k].tasks) => NoReport(queue[k].tasks) /\ store'[k].eps = store[k].eps
    BY <1>6, <2>3, <2>4, ReportAppended
  <2>7. ControllerInv'
    BY <1>4, <2>3, <2>5 DEF CurrentInv, ControllerInv
  <2>8. ReportInv'
    <3> SUFFICES ASSUME NEW c \in Clusters, NEW j \in Controllers, author[c] = j
                 PROVE  /\ cluster[j] = c /\ life'[j] \in {"running", "closed"}
                        /\ hostEntry # NoEntry
                        /\ NoReport(queue'[j].tasks) =>
                              hostEntry.Shards[c] = store'[j].eps
      BY <1>2 DEF ReportInv, hostEntry
    <3>1. /\ cluster[j] = c /\ life[j] \in {"running", "closed"} /\ hostEntry # NoEntry
          /\ NoReport(queue[j].tasks) =>
                hostEntry.Shards[c] = store[j].eps
      BY DEF CurrentInv, ReportInv
    <3> QED
      BY <1>4, <1>6, <2>6, <3>1
  <2> QED
    BY <2>7, <2>8
<1>7. CASE ServiceEvent(k)
  <2>1. PICK t : t = ServiceTask(kube[cluster[k]].svc)
    OBVIOUS
  <2>2. t \in Tasks /\ t.obj = "service"
    BY <1>1, <2>1, TaskTypes DEF Objects, ServiceTask
  <2>3. /\ life[k] = "running" /\ queue' = [queue EXCEPT ![k] = WQ!Push(@, t)]
    BY <1>7, <2>1 DEF ServiceEvent
  <2>4. store'[k].eps = store[k].eps
    BY <1>1, <1>7 DEF ServiceEvent, Objects
  <2> QED
    BY <1>3, <1>6, <2>2, <2>3, <2>4
<1>8. CASE EndpointsEvent(k)
  <2>1. PICK t : t = EndpointsTask(kube[cluster[k]].eps)
    OBVIOUS
  <2>2. t \in Tasks /\ t.obj = "endpoints" /\ t.eps = kube[cluster[k]].eps
    BY <1>1, <2>1, TaskTypes DEF Objects, EndpointsTask
  <2>3. /\ life[k] = "running" /\ queue' = [queue EXCEPT ![k] = WQ!Push(@, t)]
    BY <1>8, <2>1 DEF EndpointsEvent
  <2>4. store'[k].eps = kube[cluster[k]].eps
    BY <1>1, <1>8 DEF EndpointsEvent, Objects
  <2> QED
    BY <1>3, <1>6, <2>2, <2>3, <2>4
<1> QED
  BY <1>5, <1>7, <1>8

(* edsUpdate replaces the shard of one cluster and asks for a push. *)
LEMMA EdsUpdateReports ==
    ASSUME ServerTypeOK, NEW c \in Clusters, NEW eps \in SUBSET Endpoints,
           edsUpdate(c, "hostname", eps)
    PROVE  IF eps = {} /\ hostEntry = NoEntry
           THEN UNCHANGED <<EndpointShardsByService, pending>>
           ELSE /\ hostEntry' # NoEntry /\ hostEntry'.Shards[c] = eps
                /\ hostEntry # NoEntry => \A d \in Clusters :
                      d # c => hostEntry'.Shards[d] = hostEntry.Shards[d]
                /\ pending' # "none"
<1> DEFINE found == EndpointShardsByService["hostname"]
<1>1. found \in {NoEntry} \cup Entry /\ "hostname" \in Keys
      /\ EndpointShardsByService \in [Keys -> {NoEntry} \cup Entry]
  BY DEF ServerTypeOK, Keys
<1>2. CASE eps = {} /\ found = NoEntry
  BY <1>2 DEF edsUpdate, hostEntry
<1>3. CASE eps = {} /\ found # NoEntry
  <2>1. EndpointShardsByService' =
           [EndpointShardsByService EXCEPT !["hostname"] = [found EXCEPT !.Shards[c] = {}]]
    BY <1>3 DEF edsUpdate, deleteEndpointShards
  <2>2. pending' # "none"
    BY <1>3 DEF edsUpdate, ConfigUpdate, Merge
  <2>3. hostEntry' = [found EXCEPT !.Shards[c] = {}]
    BY <1>1, <2>1 DEF hostEntry
  <2>4. /\ [found EXCEPT !.Shards[c] = {}].Shards[c] = {}
        /\ \A d \in Clusters : d # c => [found EXCEPT !.Shards[c] = {}].Shards[d] = found.Shards[d]
    BY <1>1, <1>3 DEF Entry
  <2>5. hostEntry' # NoEntry
    <3>1. EndpointShardsByService'["hostname"] \in Entry
      BY <1>1, <1>3, <2>3 DEF Entry, hostEntry
    <3> QED
      BY <3>1, EndpointShardsAssumption DEF hostEntry
  <2> QED
    BY <1>3, <2>2, <2>3, <2>4, <2>5 DEF hostEntry
<1>4. CASE eps # {}
  <2> DEFINE ep == IF found = NoEntry THEN NewShards ELSE found
             new == [ep EXCEPT !.Shards[c] = eps, !.ServiceAccounts = AccountsOf(eps)]
  <2>1. EndpointShardsByService' = [EndpointShardsByService EXCEPT !["hostname"] = new]
    BY <1>4 DEF edsUpdate
  <2>2. pending' # "none"
    BY <1>4 DEF edsUpdate, ConfigUpdate, Merge
  <2>3. ep \in Entry
    BY <1>1 DEF NewShards, Entry
  <2>4. AccountsOf(eps) \subseteq Accounts
    BY DEF AccountsOf, Accounts
  <2>5. hostEntry' = new
    BY <1>1, <2>1 DEF hostEntry
  <2>6. /\ new \in Entry /\ new.Shards[c] = eps
        /\ \A d \in Clusters : d # c => new.Shards[d] = ep.Shards[d]
    BY <2>3, <2>4 DEF Entry
  <2>7. hostEntry # NoEntry => ep = hostEntry
    BY DEF hostEntry
  <2> HIDE DEF new, ep
  <2> QED
    BY <1>4, <2>2, <2>5, <2>6, <2>7, EndpointShardsAssumption
<1> QED
  BY <1>2, <1>3, <1>4

(* Taking a task off the queue of controller k. *)
LEMMA TaskTaken ==
    ASSUME CurrentInv, NEW k \in Controllers, RunTask(k)
    PROVE  LET task == Head(queue[k].tasks)
           IN  /\ task \in Tasks
               /\ ControllerInv'
               /\ \A j \in Controllers : j # k => queue'[j] = queue[j]
               /\ life[k] \in {"running", "closed"}
               /\ NoReport(queue'[k].tasks) =>
                     IF task.obj = "endpoints" THEN task.eps = store[k].eps
                     ELSE NoReport(queue[k].tasks)
<1> DEFINE task == Head(queue[k].tasks)
<1>1. /\ queue \in [Controllers -> WQ!QueueOf(Tasks)] /\ WQ!CanTake(queue[k])
      /\ queue' = [queue EXCEPT ![k] = WQ!Take(@)]
      /\ UNCHANGED <<store, life>> /\ life[k] \in {"running", "closed"}
  BY DEF CurrentInv, RegistryInv, TypeOK, RunTask
<1>2. task \in Tasks /\ queue[k].tasks \in Seq(Tasks) /\ queue[k].tasks # <<>>
  BY <1>1, QueueTake DEF WQ!QueueOf, WQ!CanTake
<1>3. queue'[k] = WQ!Take(queue[k]) /\ \A j \in Controllers : j # k => queue'[j] = queue[j]
  BY <1>1
<1>4. queue'[k].tasks = Tail(queue[k].tasks) /\ queue'[k].closing = queue[k].closing
  BY <1>1, <1>2, <1>3, QueueTasks
<1>5. /\ LastReport(queue'[k].tasks, store[k].eps)
      /\ NoReport(queue'[k].tasks) =>
             IF task.obj = "endpoints" THEN task.eps = store[k].eps
             ELSE NoReport(queue[k].tasks)
  <2>1. LastReport(queue[k].tasks, store[k].eps)
    BY <1>1 DEF CurrentInv, ControllerInv
  <2> QED
    BY <1>2, <1>4, <2>1, ReportTaken
<1>6. ControllerInv'
  BY <1>1, <1>3, <1>4, <1>5 DEF CurrentInv, ControllerInv
<1> QED
  BY <1>1, <1>2, <1>3, <1>5, <1>6

(* A task: a service event leaves the shards under the hostname alone, and *)
(* a report makes its controller the author of its cluster's shard.        *)
LEMMA RunTaskCurrent ==
    ASSUME CurrentInv, NEW k \in Controllers, RunTask(k)
    PROVE  ControllerInv' /\ ReportInv' /\ ServedInv'
<1>t. PICK task : task = Head(queue[k].tasks)
  OBVIOUS
<1>1. /\ task \in Tasks /\ ControllerInv' /\ life[k] \in {"running", "closed"}
      /\ \A j \in Controllers : j # k => queue'[j] = queue[j]
      /\ NoReport(queue'[k].tasks) =>
            IF task.obj = "endpoints" THEN task.eps = store[k].eps
            ELSE NoReport(queue[k].tasks)
  BY <1>t, TaskTaken
<1>2. UNCHANGED <<proxy, cluster, life, store>>
  BY DEF RunTask
<1>3. /\ ServerTypeOK /\ cluster[k] \in Clusters /\ author \in [Clusters -> 0..MaxControllers]
      /\ EndpointShardsByService \in [Keys -> {NoEntry} \cup Entry]
  BY DEF CurrentInv, RegistryInv, TypeOK, ServerTypeOK
<1>4. CASE task.obj = "service"
  <2>1. onServiceEvent(k, task.svc)
    BY <1>t, <1>4 DEF RunTask
  <2>2. pending' # "none" /\ author' = author
    BY <2>1 DEF onServiceEvent, ConfigUpdate, Merge
  <2>3. hostEntry' = hostEntry
    BY <1>3, <2>1 DEF onServiceEvent, SvcUpdate, hostEntry, Keys
  <2>4. ASSUME NEW c \in Clusters, NEW j \in Controllers, author'[c] = j
        PROVE  /\ cluster'[j] = c /\ life'[j] \in {"running", "closed"} /\ hostEntry' # NoEntry
               /\ NoReport(queue'[j].tasks) =>
                     hostEntry'.Shards[c] = store'[j].eps
    <3>1. /\ cluster[j] = c /\ life[j] \in {"running", "closed"} /\ hostEntry # NoEntry
          /\ NoReport(queue[j].tasks) =>
                hostEntry.Shards[c] = store[j].eps
      BY <2>2, <2>4 DEF CurrentInv, ReportInv
    <3>2. NoReport(queue'[j].tasks) => NoReport(queue[j].tasks)
      BY <1>1, <1>4
    <3> QED
      BY <1>2, <2>3, <3>1, <3>2
  <2>5. ReportInv'
    BY <2>4 DEF ReportInv
  <2> QED
    BY <1>1, <2>2, <2>5 DEF ServedInv
<1>5. CASE task.obj # "service"
  <2>1. updateEDS(k, task.eps) /\ task.obj = "endpoints" /\ task.eps \in SUBSET Endpoints
    BY <1>t, <1>1, <1>5 DEF RunTask, Tasks
  <2>c. PICK d : d = cluster[k]
    OBVIOUS
  <2>2. CASE servicesMap[k] /\ (task.eps # {} \/ hostEntry # NoEntry)
    <3>1. edsUpdate(d, "hostname", task.eps) /\ author' = [author EXCEPT ![d] = k]
      BY <2>1, <2>2, <2>c DEF updateEDS, hostEntry
    <3>2. /\ hostEntry' # NoEntry /\ hostEntry'.Shards[d] = task.eps /\ pending' # "none"
          /\ hostEntry # NoEntry => \A c \in Clusters :
                c # d => hostEntry'.Shards[c] = hostEntry.Shards[c]
      BY <1>3, <2>1, <2>2, <2>c, <3>1, EdsUpdateReports
    <3>3. author'[d] = k /\ \A c \in Clusters : c # d => author'[c] = author[c]
      BY <1>3, <2>c, <3>1
    <3>4. ASSUME NEW c \in Clusters, NEW j \in Controllers, author'[c] = j
          PROVE  /\ cluster'[j] = c /\ life'[j] \in {"running", "closed"} /\ hostEntry' # NoEntry
                 /\ NoReport(queue'[j].tasks) =>
                       hostEntry'.Shards[c] = store'[j].eps
      <4>1. CASE c = d
        BY <1>1, <1>2, <2>1, <2>c, <3>2, <3>3, <3>4, <4>1
      <4>2. CASE c # d
        <5>1. /\ cluster[j] = c /\ life[j] \in {"running", "closed"} /\ hostEntry # NoEntry
              /\ NoReport(queue[j].tasks) =>
                    hostEntry.Shards[c] = store[j].eps
          BY <3>3, <3>4, <4>2 DEF CurrentInv, ReportInv
        <5>2. j # k
          BY <2>c, <4>2, <5>1
        <5> QED
          BY <1>1, <1>2, <3>2, <4>2, <5>1, <5>2
      <4> QED
        BY <4>1, <4>2
    <3>5. ReportInv'
      BY <3>4 DEF ReportInv
    <3> QED
      BY <1>1, <3>2, <3>5 DEF ServedInv
  <2>3. CASE ~(servicesMap[k] /\ (task.eps # {} \/ hostEntry # NoEntry))
    <3>1. UNCHANGED <<EndpointShardsByService, pending>>
      <4>1. CASE servicesMap[k]
        <5>1. edsUpdate(d, "hostname", task.eps)
          BY <2>1, <2>c, <4>1 DEF updateEDS
        <5> QED
          BY <1>3, <2>1, <2>3, <2>c, <4>1, <5>1, EdsUpdateReports
      <4>2. CASE ~servicesMap[k]
        BY <2>1, <4>2 DEF updateEDS, shardVars
      <4> QED
        BY <4>1, <4>2
    <3>2. author' = [author EXCEPT ![d] = IF @ = k THEN 0 ELSE @]
      BY <2>1, <2>3, <2>c DEF updateEDS, hostEntry
    <3>3. /\ author'[d] = IF author[d] = k THEN 0 ELSE author[d]
          /\ \A c \in Clusters : c # d => author'[c] = author[c]
      BY <1>3, <2>c, <3>2
    <3>4. hostEntry' = hostEntry
      BY <3>1 DEF hostEntry
    <3>5. ASSUME NEW c \in Clusters, NEW j \in Controllers, author'[c] = j
          PROVE  /\ cluster'[j] = c /\ life'[j] \in {"running", "closed"} /\ hostEntry' # NoEntry
                 /\ NoReport(queue'[j].tasks) =>
                       hostEntry'.Shards[c] = store'[j].eps
      <4>1. j # 0
        BY DEF Controllers
      <4>2. author[c] = j
        BY <3>3, <3>5, <4>1
      <4>3. /\ cluster[j] = c /\ life[j] \in {"running", "closed"} /\ hostEntry # NoEntry
            /\ NoReport(queue[j].tasks) =>
                  hostEntry.Shards[c] = store[j].eps
        BY <4>2 DEF CurrentInv, ReportInv
      <4>4. j # k
        BY <2>c, <3>3, <3>5, <4>1, <4>2, <4>3
      <4> QED
        BY <1>1, <1>2, <3>4, <4>3, <4>4
    <3>6. ReportInv'
      BY <3>5 DEF ReportInv
    <3>7. ServedInv'
      BY <1>2, <3>1, <3>4 DEF CurrentInv, ServedInv
    <3> QED
      BY <1>1, <3>6, <3>7
  <2> QED
    BY <2>2, <2>3
<1> QED
  BY <1>4, <1>5

(* A push, or the answer to a request for endpoints, serves the shards to  *)
(* a proxy that has the cluster and watches it.                            *)
LEMMA ServeCurrent ==
    ASSUME CurrentInv, ServerPush \/ ProxyWatch
    PROVE  ControllerInv' /\ ReportInv' /\ ServedInv'
<1>1. UNCHANGED <<EndpointShardsByService, kube, cluster, life, store, queue, author>>
  BY DEF ServerPush, ProxyWatch, Push, EDSRequest, shardVars, kubeVars, ctrlVars
<1>2. ControllerInv'
  BY <1>1 DEF CurrentInv, ControllerInv
<1>3. ReportInv'
  BY <1>1 DEF CurrentInv, ReportInv, hostEntry
<1>4. proxy \in [cds : BOOLEAN, accounts : SUBSET Accounts, watching : BOOLEAN,
                 eps : SUBSET (Clusters \X Endpoints)]
  BY DEF CurrentInv, RegistryInv, TypeOK, ServerTypeOK
<1>5. \A cached, instances : hostEntry # NoEntry =>
         pushEds(TRUE, cached, instances).eps = FromShards(hostEntry)
  BY DEF pushEds, hostEntry
<1>6. CASE ServerPush
  <2> DEFINE isFull == pending = "full"
             known == IF isFull THEN Services ELSE proxy.cds
             cached == IF ~proxy.watching THEN LoadAssignment
                       ELSE IF isFull THEN updateCluster(known, InstancesByPort)
                       ELSE updateClusterInc(known, InstancesByPort)
             sent == pushEds(known, cached, InstancesByPort)
  <2>1. proxy' = [proxy EXCEPT
             !.cds = known,
             !.accounts = IF isFull THEN GetIstioServiceAccounts ELSE @,
             !.eps = IF ~known THEN {} ELSE IF proxy.watching THEN sent.eps ELSE @]
    BY <1>6 DEF ServerPush, Push
  <2>2. known \in BOOLEAN
    <3>1. Services \in BOOLEAN
      BY Zenon DEF Services
    <3> QED
      BY <1>4, <3>1
  <2>3. known /\ hostEntry # NoEntry => sent.eps = FromShards(hostEntry)
    <3>1. CASE known
      <4>1. sent = pushEds(TRUE, cached, InstancesByPort)
        BY <2>2, <3>1
      <4> HIDE DEF sent, cached, known
      <4> QED
        BY <1>5, <4>1
    <3> QED
      BY <3>1
  <2> HIDE DEF known, sent, cached, isFull
  <2>4. /\ proxy'.cds = known /\ proxy'.watching = proxy.watching
        /\ proxy'.eps = IF ~known THEN {} ELSE IF proxy.watching THEN sent.eps ELSE proxy.eps
    BY <1>4, <2>1
  <2>5. ServedInv'
    BY <1>1, <2>3, <2>4 DEF ServedInv, hostEntry
  <2> QED
    BY <1>2, <1>3, <2>5
<1>7. CASE ProxyWatch
  <2> DEFINE sent == pushEds(TRUE, NoAssignment, InstancesByPort)
  <2>1. \/ /\ proxy.cds /\ proxy' = [proxy EXCEPT !.watching = TRUE, !.eps = sent.eps]
        \/ proxy' = [proxy EXCEPT !.watching = FALSE]
    BY <1>7 DEF ProxyWatch, EDSRequest
  <2>2. hostEntry # NoEntry => sent.eps = FromShards(hostEntry)
    BY <1>5
  <2> HIDE DEF sent
  <2>3. proxy'.watching => proxy'.eps = sent.eps
    BY <1>4, <2>1
  <2>4. ServedInv'
    BY <1>1, <2>2, <2>3 DEF ServedInv, hostEntry
  <2> QED
    BY <1>2, <1>3, <2>4
<1> QED
  BY <1>6, <1>7

(* What happens in Kubernetes is seen by the informers later; a member     *)
(* cluster that joins has a controller that has reported nothing, and one  *)
(* that leaves stops being current.                                        *)
LEMMA OutsideCurrent ==
    ASSUME CurrentInv,
           \/ \E c \in Clusters : ChangeService(c) \/ ChangeEndpoints(c) \/ AddMemberCluster(c)
           \/ \E k \in Controllers : DeleteMemberCluster(k)
    PROVE  ControllerInv' /\ ReportInv' /\ ServedInv'
<1>1. CASE \E c \in Clusters : ChangeService(c) \/ ChangeEndpoints(c)
  <2>1. UNCHANGED <<EndpointShardsByService, pending, proxy, cluster, life, store, queue, author>>
    BY <1>1 DEF ChangeService, ChangeEndpoints, serverVars, shardVars, pushVars, ctrlVars
  <2> QED
    BY <2>1 DEF CurrentInv, ControllerInv, ReportInv, ServedInv, hostEntry
<1>2. CASE \E c \in Clusters : AddMemberCluster(c)
  <2>1. UNCHANGED <<EndpointShardsByService, pending, proxy, store, queue, author>>
    BY <1>2 DEF AddMemberCluster, serverVars, shardVars, pushVars
  <2>2. PICK k \in Controllers, c \in Clusters :
           /\ life[k] = "none" /\ life' = [life EXCEPT ![k] = "starting"]
           /\ cluster' = [cluster EXCEPT ![k] = c]
    BY <1>2 DEF AddMemberCluster
  <2>3. /\ life'[k] = "starting"
        /\ \A j \in Controllers : j # k => life'[j] = life[j] /\ cluster'[j] = cluster[j]
    BY <2>2 DEF CurrentInv, RegistryInv, TypeOK
  <2>4. \A d \in Clusters : author[d] # k
    BY <2>2 DEF CurrentInv, ReportInv
  <2>5. ControllerInv'
    BY <2>1, <2>2, <2>3 DEF CurrentInv, ControllerInv
  <2>6. ReportInv'
    BY <2>1, <2>3, <2>4 DEF CurrentInv, ReportInv, hostEntry
  <2>7. ServedInv'
    BY <2>1 DEF CurrentInv, ServedInv, hostEntry
  <2> QED
    BY <2>5, <2>6, <2>7
<1>3. CASE \E k \in Controllers : DeleteMemberCluster(k)
  <2>1. PICK k \in Controllers : DeleteMemberCluster(k)
    BY <1>3
  <2>2. /\ UNCHANGED <<EndpointShardsByService, cluster, store, author>>
        /\ life' = [life EXCEPT ![k] = "closed"] /\ queue' = [queue EXCEPT ![k] = WQ!Stop(@)]
        /\ life[k] \in {"starting", "running"}
    BY <2>1 DEF DeleteMemberCluster, shardVars, Registered
  <2>3. pending' # "none"
    BY <2>1 DEF DeleteMemberCluster, ConfigUpdate, Merge
  <2>4. /\ life'[k] = "closed"
        /\ \A j \in Controllers : j # k => life'[j] = life[j] /\ queue'[j] = queue[j]
    BY <2>2 DEF CurrentInv, RegistryInv, TypeOK
  <2>t. queue'[k].tasks = queue[k].tasks
    BY <2>2 DEF CurrentInv, RegistryInv, TypeOK, WQ!QueueOf, WQ!Stop
  <2>l. LastReport(queue[k].tasks, store[k].eps)
    BY <2>2 DEF CurrentInv, ControllerInv, LastReport, WQ!NewQueue
  <2>5. ControllerInv'
    BY <2>2, <2>4, <2>t, <2>l DEF CurrentInv, ControllerInv
  <2>6. ReportInv'
    BY <2>2, <2>4, <2>t DEF CurrentInv, ReportInv, hostEntry
  <2> QED
    BY <2>3, <2>5, <2>6 DEF ServedInv
<1> QED
  BY <1>1, <1>2, <1>3

(* The invariant holds in every behaviour of clusters, controllers and proxies. *)
LEMMA CurrentInvariant == Spec => []CurrentInv
<1>1. Init => CurrentInv
  <2> SUFFICES ASSUME Init PROVE CurrentInv
    OBVIOUS
  <2>1. ControllerInv
    BY DEF Init, ControllerInv
  <2>2. ReportInv
    BY DEF Init, ReportInv, Controllers
  <2>3. ServedInv
    BY DEF Init, ServerInit, ServedInv
  <2> QED
    BY <2>1, <2>2, <2>3, RegistryInit DEF CurrentInv
<1>2. CurrentInv /\ [Next]_vars => CurrentInv'
  <2> SUFFICES ASSUME CurrentInv, [Next]_vars PROVE CurrentInv'
    OBVIOUS
  <2>1. RegistryInv'
    BY RegistryNext DEF CurrentInv
  <2>2. CASE UNCHANGED vars
    <3>1. UNCHANGED <<EndpointShardsByService, pending, proxy, cluster, life, store, queue, author>>
      BY <2>2 DEF vars, serverVars, shardVars, pushVars, ctrlVars
    <3>2. ControllerInv'
      BY <3>1 DEF CurrentInv, ControllerInv
    <3>3. ReportInv' /\ ServedInv'
      BY <3>1 DEF CurrentInv, ReportInv, ServedInv, hostEntry
    <3> QED
      BY <2>1, <3>2, <3>3 DEF CurrentInv
  <2>3. ASSUME NEW k \in Controllers, ControllerStep(k)
        PROVE  ControllerInv' /\ ReportInv' /\ ServedInv'
    BY <2>3, InformerCurrent, RunTaskCurrent DEF ControllerStep
  <2> QED
    BY <2>1, <2>2, <2>3, ServeCurrent, OutsideCurrent DEF CurrentInv, Next
<1> QED
  BY <1>1, <1>2, PTL DEF Spec

(* When nothing is under way a proxy has exactly what the author of a      *)
(* cluster's shard saw last, be it the controller that watches the cluster *)
(* or an old one that reported while its queue drained; if the author is   *)
(* running, that is what the cluster has.  It holds for any number of      *)
(* clusters and controllers, whatever the order in which onServiceEvent,   *)
(* updateEDS and the pushes ran.                                           *)
THEOREM ProxiesAreCurrent == Spec => []EndpointsCurrent
<1>1. CurrentInv => EndpointsCurrent
  <2> SUFFICES ASSUME CurrentInv, Quiet, proxy.watching,
                      NEW c \in Clusters, NEW k \in Controllers, author[c] = k
               PROVE  /\ {e \in Endpoints : <<c, e>> \in proxy.eps} = store[k].eps
                      /\ life[k] = "running" => store[k].eps = kube[c].eps
    BY DEF EndpointsCurrent
  <2>1. /\ life[k] = "running" => store[k] = kube[cluster[k]]
        /\ queue[k].tasks = <<>>
        /\ pending = "none" /\ proxy.watching = proxy.cds
    BY DEF Quiet
  <2>2. NoReport(queue[k].tasks)
    BY <2>1 DEF NoReport
  <2>3. cluster[k] = c /\ hostEntry # NoEntry /\ hostEntry.Shards[c] = store[k].eps
    BY <2>2 DEF CurrentInv, ReportInv
  <2>4. proxy.eps = FromShards(hostEntry)
    BY <2>1, <2>3 DEF CurrentInv, ServedInv
  <2>5. hostEntry \in Entry
    BY <2>3 DEF CurrentInv, RegistryInv, TypeOK, ServerTypeOK, hostEntry, Keys
  <2>6. hostEntry.Shards[c] \subseteq Endpoints
    BY <2>5 DEF Entry
  <2>7. \A e : <<c, e>> \in FromShards(hostEntry) <=> e \in hostEntry.Shards[c]
    BY DEF FromShards
  <2>8. {e \in Endpoints : <<c, e>> \in proxy.eps} = hostEntry.Shards[c]
    BY <2>4, <2>6, <2>7
  <2> QED
    BY <2>1, <2>3, <2>8
<1> QED
  BY <1>1, CurrentInvariant, PTL

=============================================================================
