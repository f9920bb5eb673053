---------------------------- MODULE KubeRegistry ----------------------------
(***************************************************************************)
(* Kubernetes registries feeding the endpoint shards                       *)
(* (serviceregistry/kube/controller, aggregate and multicluster).  Each    *)
(* controller watches the Service and the Endpoints object of one cluster  *)
(* with two informers, whose handlers queue a task with the object they    *)
(* saw; Run drains the queue on one goroutine.  A remote cluster's         *)
(* controller is stopped and a new one started when its secret changes;    *)
(* the old queue drains meanwhile.                                         *)
(*                                                                         *)
(* Kubernetes is external: the two objects change at any time, in any      *)
(* order.  Informers see the latest state only; since the objects change   *)
(* independently, every order of the two event streams still occurs.  No   *)
(* Endpoints object and an empty one are the same.  Pods are known when    *)
(* their endpoints are; the service is not headless.                       *)
(***************************************************************************)
EXTENDS EndpointShards, Naturals, Sequences

CONSTANTS
    Local,           \* Pilot's own cluster
    Changing,        \* the clusters whose objects change after the start
    EndpointSets,    \* what an Endpoints object may hold
    InitialKube,     \* what the clusters may hold at the start
    MaxControllers,  \* bound: controllers ever created
    MaxChanges       \* bound: changes in Kubernetes

VARIABLES
    kube,         \* cluster -> the two objects
    changes,      \* changes so far
    cluster,      \* controller -> its clusterID
    life,         \* controller -> how far its life has gone
    store,        \* controller -> what its informers hold
    servicesMap,  \* controller -> it knows the service
    queue,        \* controller -> its work queue
    author        \* history: cluster -> the controller whose latest report the
                  \* cluster's shard is, 0 if there is none

kubeVars == <<kube, changes>>
ctrlVars == <<cluster, life, store, servicesMap, queue, author>>
vars == <<serverVars, kubeVars, ctrlVars>>

Controllers == 1 .. MaxControllers

Objects == [svc : BOOLEAN, eps : SUBSET Endpoints]
Missing == [svc |-> FALSE, eps |-> {}]

ASSUME KubeRegistryAssumption ==
    /\ Local \in Clusters
    /\ Changing \subseteq Clusters
    /\ EndpointSets \subseteq SUBSET Endpoints
    /\ InitialKube \subseteq [Clusters -> Objects]
    /\ MaxControllers \in Nat \ {0}
    /\ MaxChanges \in Nat

WQ == INSTANCE WorkQueue

(* A task: the handler of a Service or an Endpoints event and its object. *)
Tasks == [obj : {"service", "endpoints"}, svc : BOOLEAN, eps : SUBSET Endpoints]
ServiceTask(svc) == [obj |-> "service", svc |-> svc, eps |-> {}]
EndpointsTask(eps) == [obj |-> "endpoints", svc |-> FALSE, eps |-> eps]

(* Every variable has its type. *)
TypeOK ==
    /\ ServerTypeOK
    /\ kube \in [Clusters -> Objects]
    /\ changes \in 0 .. MaxChanges
    /\ cluster \in [Controllers -> Clusters]
    /\ life \in [Controllers -> {"none", "starting", "running", "closed"}]
    /\ store \in [Controllers -> Objects]
    /\ servicesMap \in [Controllers -> BOOLEAN]
    /\ queue \in [Controllers -> WQ!QueueOf(Tasks)]
    /\ author \in [Clusters -> 0 .. MaxControllers]

(* The registries of the aggregate controller.  The first is Pilot's own.  *)
Registered(k) == life[k] \in {"starting", "running"}

(* aggregate Services, InstancesByPort: over all registries. *)
Services == \E k \in Controllers : Registered(k) /\ servicesMap[k]
InstancesByPort ==
    UNION {{cluster[k]} \X store[k].eps : k \in {j \in Controllers : Registered(j)}}

(* aggregate GetIstioServiceAccounts: of the first registry that has a     *)
(* list; a Kubernetes controller always has one.                           *)
GetIstioServiceAccounts == AccountsOf(store[1].eps)

Init ==
    /\ ServerInit
    /\ kube \in InitialKube
    /\ changes = 0
    /\ cluster = [k \in Controllers |-> Local]
    /\ life = [k \in Controllers |-> IF k = 1 THEN "starting" ELSE "none"]
    /\ store = [k \in Controllers |-> Missing]
    /\ servicesMap = [k \in Controllers |-> FALSE]
    /\ queue = [k \in Controllers |-> WQ!NewQueue]
    /\ author = [c \in Clusters |-> 0]

-----------------------------------------------------------------------------
(* External: somebody changes an object of cluster c. *)
ChangeService(c) ==
    /\ c \in Changing
    /\ changes < MaxChanges
    /\ changes' = changes + 1
    /\ kube' = [kube EXCEPT ![c].svc = ~@]
    /\ UNCHANGED <<serverVars, ctrlVars>>

ChangeEndpoints(c) ==
    /\ c \in Changing
    /\ changes < MaxChanges
    /\ changes' = changes + 1
    /\ \E eps \in EndpointSets \ {kube[c].eps} : kube' = [kube EXCEPT ![c].eps = eps]
    /\ UNCHANGED <<serverVars, ctrlVars>>

-----------------------------------------------------------------------------
(* Controller.Run: the informers list what there is and, once all have     *)
(* synced, the queue runs.  The handlers of the two informers run on their *)
(* own goroutines, so their first tasks are queued in either order.        *)
Sync(k) ==
    LET now == kube[cluster[k]]
        svc == IF now.svc THEN {ServiceTask(TRUE)} ELSE {}
        eps == IF now.eps # {} THEN {EndpointsTask(now.eps)} ELSE {}
    IN  /\ life[k] = "starting"
        /\ life' = [life EXCEPT ![k] = "running"]
        /\ store' = [store EXCEPT ![k] = now]
        /\ \E first \in IF svc \cup eps = {} THEN {{}} ELSE {svc, eps} \ {{}} :
               LET second == (svc \cup eps) \ first
                   PushAll(q, ts) == IF ts = {} THEN q ELSE WQ!Push(q, CHOOSE t \in ts : TRUE)
               IN  queue' = [queue EXCEPT ![k] =
                       WQ!Look(PushAll(PushAll(@, first), second))]
        /\ UNCHANGED <<serverVars, kubeVars, cluster, servicesMap, author>>

(* The informers' handlers (registerHandlers, registerEndpointsHandler).   *)
ServiceEvent(k) ==
    LET svc == kube[cluster[k]].svc
    IN  /\ life[k] = "running"
        /\ store[k].svc # svc
        /\ store' = [store EXCEPT ![k].svc = svc]
        /\ queue' = [queue EXCEPT ![k] = WQ!Push(@, ServiceTask(svc))]
        /\ UNCHANGED <<serverVars, kubeVars, cluster, life, servicesMap, author>>

EndpointsEvent(k) ==
    LET eps == kube[cluster[k]].eps
    IN  /\ life[k] = "running"
        /\ store[k].eps # eps
        /\ store' = [store EXCEPT ![k].eps = eps]
        /\ queue' = [queue EXCEPT ![k] = WQ!Push(@, EndpointsTask(eps))]
        /\ UNCHANGED <<serverVars, kubeVars, cluster, life, servicesMap, author>>

-----------------------------------------------------------------------------
(* onServiceEvent, then the service handlers: the server's own or          *)
(* Multicluster.updateHandler, each a full push.                           *)
onServiceEvent(k, svc) ==
    /\ servicesMap' = [servicesMap EXCEPT ![k] = svc]
    /\ SvcUpdate(cluster[k], "name", ~svc)
    /\ ConfigUpdate("full")
    /\ UNCHANGED <<announced, author>>

(* updateEDS: the endpoints of a service that is not in servicesMap are    *)
(* skipped.                                                                *)
updateEDS(k, eps) ==
    LET c == cluster[k]
        applied == servicesMap[k] /\ (eps # {} \/ EndpointShardsByService["hostname"] # NoEntry)
    IN  /\ IF servicesMap[k]
           THEN edsUpdate(c, "hostname", eps)
           ELSE UNCHANGED <<shardVars, pending>>
        /\ author' = [author EXCEPT ![c] =
               IF applied THEN k ELSE IF @ = k THEN 0 ELSE @]
        /\ UNCHANGED servicesMap

(* queue.Run: the next task. *)
RunTask(k) ==
    LET task == Head(queue[k].tasks)
    IN  /\ life[k] \in {"running", "closed"}
        /\ WQ!CanTake(queue[k])
        /\ queue' = [queue EXCEPT ![k] = WQ!Take(@)]
        /\ IF task.obj = "service"
           THEN onServiceEvent(k, task.svc) ELSE updateEDS(k, task.eps)
        /\ UNCHANGED <<LoadAssignment, proxy, kubeVars, cluster, life,
                       store>>

-----------------------------------------------------------------------------
(* Multicluster, called by the secret controller's one worker.             *)

AddMemberCluster(c) ==
    /\ c # Local
    /\ ~\E k \in Controllers : Registered(k) /\ cluster[k] = c
    /\ \E k \in Controllers :
         /\ life[k] = "none"
         /\ \A j \in 1 .. k - 1 : life[j] # "none"
         /\ life' = [life EXCEPT ![k] = "starting"]
         /\ cluster' = [cluster EXCEPT ![k] = c]
    /\ UNCHANGED <<serverVars, kubeVars, store, servicesMap, queue, author>>

(* DeleteMemberCluster.  The stop channel ends the informers and closes    *)
(* the queue, which drains first; an event that comes in between is as one *)
(* that came before.  A controller that never synced runs no task: its     *)
(* handlers return an error until the queue is closing.  The shards of the *)
(* cluster are left alone.                                                 *)
DeleteMemberCluster(k) ==
    /\ Registered(k)
    /\ cluster[k] # Local
    /\ life' = [life EXCEPT ![k] = "closed"]
    /\ queue' = [queue EXCEPT ![k] = WQ!Stop(@)]
    /\ ConfigUpdate("full")
    /\ UNCHANGED <<shardVars, LoadAssignment, proxy, kubeVars, cluster, store,
                   servicesMap, author>>

-----------------------------------------------------------------------------
(* The discovery server and the proxy. *)
ServerPush ==
    /\ Push(Services, GetIstioServiceAccounts, InstancesByPort)
    /\ UNCHANGED <<kubeVars, ctrlVars>>

ProxyWatch ==
    /\ EDSRequest(InstancesByPort)
    /\ UNCHANGED <<kubeVars, ctrlVars>>

ControllerStep(k) ==
    \/ Sync(k) \/ ServiceEvent(k) \/ EndpointsEvent(k)
    \/ RunTask(k)

Next ==
    \/ \E c \in Clusters : ChangeService(c) \/ ChangeEndpoints(c) \/ AddMemberCluster(c)
    \/ \E k \in Controllers : ControllerStep(k) \/ DeleteMemberCluster(k)
    \/ ServerPush \/ ProxyWatch

(* Goroutines are scheduled, informers catch up, the debounce ends and     *)
(* Envoy asks for the clusters it has; nobody has to change Kubernetes.    *)
Fairness ==
    /\ \A k \in Controllers :
         /\ WF_vars(Sync(k)) /\ WF_vars(ServiceEvent(k)) /\ WF_vars(EndpointsEvent(k))
         /\ WF_vars(RunTask(k))
    /\ WF_vars(ServerPush) /\ WF_vars(ProxyWatch)

Spec == Init /\ [][Next]_vars /\ Fairness

-----------------------------------------------------------------------------
(* Nothing is under way. *)
Quiet ==
    /\ \A k \in Controllers :
         /\ life[k] \in {"none", "running", "closed"}
         /\ life[k] = "running" => store[k] = kube[cluster[k]]
         /\ queue[k].tasks = <<>>
    /\ pending = "none"
    /\ proxy.watching = proxy.cds

(* A proxy ends up with exactly what the author of a cluster's shard saw   *)
(* last, also when the author is the controller of a cluster that was      *)
(* removed and reported while its queue drained; if the author is running, *)
(* that is what the cluster has.  Whatever the order of service and        *)
(* endpoints events, an older report of the author or a push that was      *)
(* merged does not get in between.  Not said is who the author is: a late  *)
(* report of an old controller replaces its successor's, and a report that *)
(* was skipped leaves a shard without an author.                           *)
EndpointsCurrent ==
    (Quiet /\ proxy.watching) =>
        \A c \in Clusters : \A k \in Controllers :
            author[c] = k =>
                /\ {e \in Endpoints : <<c, e>> \in proxy.eps} = store[k].eps
                /\ life[k] = "running" => store[k].eps = kube[c].eps

(* No account enters the shards that no full push was ever requested for:  *)
(* the accounts are compared with those of another cluster's last report   *)
(* and survive a shard's removal, but an account never seen is noticed.    *)
AccountsAnnounced ==
    LET entry == EndpointShardsByService["hostname"]
    IN  entry # NoEntry =>
            entry.ServiceAccounts \cup UNION {AccountsOf(entry.Shards[c]) : c \in Clusters}
                \subseteq announced

(* Events are not lost in the work queues: whatever happens in Kubernetes  *)
(* and to the member clusters, everything comes to rest.                   *)
Settles == <>[]Quiet

(* "If the previous list is different than current list, a full push will  *)
(* be forced, to trigger a secure naming update": when all is quiet and    *)
(* the local shard is the local controller's latest report, the accounts   *)
(* a proxy accepts include those of the local endpoints it was given.      *)
SecureNaming ==
    (Quiet /\ author[Local] = 1) => \A e \in Endpoints :
        <<Local, e>> \in proxy.eps => Account[e] \in proxy.accounts
=============================================================================
