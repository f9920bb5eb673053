--------------------------- MODULE DiscoveryServer ---------------------------
(***************************************************************************)
(* How a config change reaches the connected proxies: Push, AdsPushAll and *)
(* startPush, the sendPushes loop with its throttle, the goroutine that    *)
(* offers an event to a connection, and the connection's handler           *)
(* StreamAggregatedResources (pilot/pkg/proxy/envoy/v2, discovery.go and   *)
(* ads.go), around the PushQueue.                                          *)
(*                                                                         *)
(* A push context is the number of the last config change it was built     *)
(* from.  The debouncer is reduced to what module Debounce shows of it:    *)
(* one coalesced request, one Push at a time.  Every push is full; what    *)
(* scoping leaves out is PushScope's.                                      *)
(***************************************************************************)
EXTENDS PushQueue, FiniteSets

CONSTANTS
    PushThrottle,   \* capacity of concurrentPushLimit
    Goroutines,     \* bound: AdsPushAll and ProxyUpdate calls running at once
    MaxVersion,     \* bound: config changes
    Failures,       \* proxies whose lookups and sends may fail; Push may fail if any
    NoConn

ASSUME DiscoveryAssumption ==
    /\ PushThrottle \in Nat \ {0}
    /\ MaxVersion \in Nat /\ 0..MaxVersion \subseteq Contexts
    /\ Failures \subseteq Conns
    /\ NoConn \notin Conns

VARIABLES
    version,      \* config changes so far: what the config store holds
    debounced,    \* the debouncer's request, or NoReq
    building,     \* the request of a Push between InitContext and publishing
    global,       \* Env.PushContext
    pushAll,      \* goroutine -> request being enqueued and for whom
    tokens,       \* tokens in concurrentPushLimit
    sender,       \* the sendPushes loop: about to "acquire" or to "dequeue"
    phase,        \* job -> where the push it stands for is
    serving,      \* job -> the connection whose handler runs it, or NoConn
    stream,       \* con -> "new", "open" or "closed" (stream.Context)
    handler,      \* con -> what StreamAggregatedResources is doing
    adsClients,
    scope,        \* con -> context con.node.SidecarScope was computed from
    got,          \* con -> context of the config last sent to the proxy
    newest,       \* con -> newest context it is due (for properties)
    excused       \* con -> a known cause of stale config struck (for properties)

pushVars == <<version, debounced, building, global, pushAll>>
sendVars == <<tokens, sender, phase, serving>>
conVars == <<stream, handler, adsClients, scope, got>>
ghostVars == <<newest, excused>>
serverVars == <<vars, pushVars, sendVars, conVars, ghostVars>>

FullPush(context) ==
    [full |-> TRUE, push |-> context, eds |-> {}, namespaces |-> {}, configs |-> {}]

Resting == [req |-> NoReq, snapshot |-> FALSE, todo |-> {}]

ServerInit ==
    /\ Init
    /\ version = 0 /\ global = 0
    /\ debounced = NoReq /\ building = NoReq
    /\ pushAll = [g \in Goroutines |-> Resting]
    /\ tokens = 0 /\ sender = "acquire"
    /\ phase = [j \in Jobs |-> "idle"]
    /\ serving = [j \in Jobs |-> NoConn]
    /\ stream = [c \in Conns |-> "new"]
    /\ handler = [c \in Conns |-> "none"]
    /\ adsClients = {}
    /\ scope = [c \in Conns |-> 0]
    /\ got = [c \in Conns |-> 0]
    /\ newest = [c \in Conns |-> 0]
    /\ excused = [c \in Conns |-> FALSE]

-----------------------------------------------------------------------------
(* Config changes and Push.                                                *)

ConfigChange ==
    /\ version < MaxVersion
    /\ version' = version + 1
    /\ debounced' = Merge(debounced, FullPush(0))
    /\ UNCHANGED <<vars, building, global, pushAll, sendVars, conVars, ghostVars>>

(* func Push, InitContext: reads the config there is. *)
PushInitContext ==
    /\ debounced # NoReq /\ building = NoReq
    /\ building' = [debounced EXCEPT !.push = version]
    /\ debounced' = NoReq
    /\ UNCHANGED <<vars, version, global, pushAll, sendVars, conVars, ghostVars>>

(* func Push, InitContext or updateServiceShards returns an error: "stick  *)
(* with previous version".                                                 *)
PushFails ==
    /\ Failures # {}
    /\ building # NoReq
    /\ building' = NoReq
    /\ UNCHANGED <<vars, version, debounced, global, pushAll, sendVars, conVars, ghostVars>>

(* func Push: publishes the context and starts AdsPushAll. *)
PushPublish(g) ==
    /\ building # NoReq
    /\ pushAll[g] = Resting
    /\ global' = building.push
    /\ pushAll' = [pushAll EXCEPT ![g] = [Resting EXCEPT !.req = building]]
    /\ building' = NoReq
    /\ UNCHANGED <<vars, version, debounced, sendVars, conVars, ghostVars>>

(* func startPush: the copy of adsClients made under adsClientsMutex. *)
StartPush(g) ==
    /\ pushAll[g].req # NoReq /\ ~pushAll[g].snapshot
    /\ pushAll' = [pushAll EXCEPT ![g] =
                     IF adsClients = {} THEN Resting
                     ELSE [@ EXCEPT !.snapshot = TRUE, !.todo = adsClients]]
    /\ UNCHANGED <<vars, version, debounced, building, global, sendVars, conVars, ghostVars>>

(* func ProxyUpdate: looks the proxy up and reads the global context, then *)
(* enqueues.                                                               *)
ProxyUpdate(g, c) ==
    /\ pushAll[g] = Resting
    /\ c \in adsClients
    /\ pushAll' = [pushAll EXCEPT ![g] =
                     [req |-> FullPush(global), snapshot |-> TRUE, todo |-> {c}]]
    /\ UNCHANGED <<vars, version, debounced, building, global, sendVars, conVars, ghostVars>>

(* For the properties: context for c is enqueued, in order or not. *)
Record(c, context) ==
    /\ newest' = [newest EXCEPT ![c] = IF context > @ THEN context ELSE @]
    /\ excused' = [excused EXCEPT ![c] = @ \/ context < newest[c]]

(* func startPush, the loop: one Enqueue, in any order of the map. *)
EnqueueClient(g, c) ==
    /\ c \in pushAll[g].todo
    /\ Enqueue(c, pushAll[g].req)
    /\ Record(c, pushAll[g].req.push)
    /\ pushAll' = [pushAll EXCEPT ![g] =
                     IF @.todo = {c} THEN Resting
                     ELSE [@ EXCEPT !.todo = pushAll[g].todo \ {c}]]
    /\ UNCHANGED <<version, debounced, building, global, sendVars, conVars>>

-----------------------------------------------------------------------------
(* The sendPushes loop and the goroutine of each event (doSendPushes).     *)

(* Mutant: the semaphore does not block. *)
AcquireTokenUnbounded ==
    /\ sender = "acquire"
    /\ tokens' = tokens + 1
    /\ sender' = "dequeue"
    /\ UNCHANGED <<vars, pushVars, phase, serving, conVars, ghostVars>>

AcquireToken ==
    /\ sender = "acquire"
    /\ tokens < PushThrottle
    /\ tokens' = tokens + 1
    /\ sender' = "dequeue"
    /\ UNCHANGED <<vars, pushVars, phase, serving, conVars, ghostVars>>

SenderWaits(d) ==
    /\ sender = "dequeue"
    /\ Park(d)
    /\ UNCHANGED <<pushVars, sendVars, conVars, ghostVars>>

SenderDequeues(d, j) ==
    /\ sender = "dequeue"
    /\ phase[j] = "idle"
    /\ Dequeue(d, j)
    /\ phase' = [phase EXCEPT ![j] = "offer"]
    /\ sender' = "acquire"
    /\ UNCHANGED <<pushVars, tokens, serving, conVars, ghostVars>>

(* case client.pushChannel <- event: the handler is in its select. *)
OfferTaken(j) ==
    /\ phase[j] = "offer"
    /\ LET c == job[j].con IN
       /\ handler[c] = "select"
       /\ handler' = [handler EXCEPT ![c] = "push"]
       /\ serving' = [serving EXCEPT ![j] = c]
    /\ phase' = [phase EXCEPT ![j] = "pushing"]
    /\ UNCHANGED <<vars, pushVars, tokens, sender, stream, adsClients, scope, got, ghostVars>>

(* Mutant: doneFunc is not called for a closed stream. *)
OfferForgotten(j) ==
    /\ phase[j] = "offer"
    /\ stream[job[j].con] = "closed"
    /\ phase' = [phase EXCEPT ![j] = "idle"]
    /\ UNCHANGED <<vars, pushVars, tokens, sender, serving, conVars, ghostVars>>

(* case <-client.stream.Context().Done() *)
OfferAbandoned(j) ==
    /\ phase[j] = "offer"
    /\ stream[job[j].con] = "closed"
    /\ phase' = [phase EXCEPT ![j] = "done"]
    /\ UNCHANGED <<vars, pushVars, tokens, sender, serving, conVars, ghostVars>>

(* func MarkDone, called by doneFunc, and then the token is given back. *)
DoneMarks(j) ==
    /\ phase[j] = "done"
    /\ MarkDone(j)
    /\ phase' = [phase EXCEPT ![j] = IF job'[j] = Idle THEN "release" ELSE "done"]
    /\ UNCHANGED <<pushVars, tokens, sender, serving, conVars, ghostVars>>

DoneRequeues(j) ==
    /\ phase[j] = "done"
    /\ Requeue(j)
    /\ Record(job[j].con, job[j].info.push)
    /\ phase' = [phase EXCEPT ![j] = "release"]
    /\ UNCHANGED <<pushVars, tokens, sender, serving, conVars>>

(* The handler goes back to its select, or returns after an error.         *)
AfterPush(h) == IF h = "failed" THEN "returning" ELSE "select"

DoneReleases(j) ==
    /\ phase[j] = "release"
    /\ tokens' = tokens - 1
    /\ phase' = [phase EXCEPT ![j] = "idle"]
    /\ serving' = [serving EXCEPT ![j] = NoConn]
    /\ handler' = [c \in Conns |-> IF serving[j] = c THEN AfterPush(handler[c]) ELSE handler[c]]
    /\ UNCHANGED <<vars, pushVars, sender, stream, adsClients, scope, got, ghostVars>>

-----------------------------------------------------------------------------
(* func pushConnection, run by the handler of the connection.              *)

PushSucceeds(j) ==
    /\ phase[j] = "pushing"
    /\ LET c == serving[j]
           context == job[j].info.push
       IN  /\ scope' = [scope EXCEPT ![c] = context]
           /\ got' = [got EXCEPT ![c] = context]
           /\ excused' = [excused EXCEPT ![c] = @ /\ context < newest[c]]
    /\ phase' = [phase EXCEPT ![j] = "done"]
    /\ UNCHANGED <<vars, pushVars, tokens, sender, serving, stream, handler, adsClients, newest>>

(* updateProxy fails: pushConnection returns nil and has sent nothing. *)
PushSkips(j) ==
    /\ phase[j] = "pushing"
    /\ serving[j] \in Failures
    /\ excused' = [excused EXCEPT ![serving[j]] = TRUE]
    /\ phase' = [phase EXCEPT ![j] = "done"]
    /\ UNCHANGED <<vars, pushVars, tokens, sender, serving, conVars, newest>>

(* Mutant: the handler returns the error before it calls done. *)
PushErrsNotDone(j) ==
    /\ phase[j] = "pushing"
    /\ serving[j] \in Failures \/ stream[serving[j]] = "closed"
    /\ handler' = [handler EXCEPT ![serving[j]] = "returning"]
    /\ UNCHANGED <<vars, pushVars, sendVars, stream, adsClients, scope, got, ghostVars>>

(* A send fails, or times out and may still go through. *)
PushErrs(j) ==
    /\ phase[j] = "pushing"
    /\ serving[j] \in Failures \/ stream[serving[j]] = "closed"
    /\ LET c == serving[j] IN
       /\ handler' = [handler EXCEPT ![c] = "failed"]
       /\ scope' = [scope EXCEPT ![c] = job[j].info.push]
       /\ \/ UNCHANGED got
          \/ got' = [got EXCEPT ![c] = job[j].info.push]
    /\ phase' = [phase EXCEPT ![j] = "done"]
    /\ UNCHANGED <<vars, pushVars, tokens, sender, serving, stream, adsClients, ghostVars>>

-----------------------------------------------------------------------------
(* func StreamAggregatedResources: the life of a connection.               *)

(* The first request arrives; initProxy computes the proxy's scope, or     *)
(* fails and the handler returns the error.                                *)
InitProxy(c) ==
    /\ stream[c] = "new"
    /\ stream' = [stream EXCEPT ![c] = "open"]
    /\ \/ /\ scope' = [scope EXCEPT ![c] = global]
          /\ handler' = [handler EXCEPT ![c] = "register"]
       \/ /\ c \in Failures
          /\ handler' = [handler EXCEPT ![c] = "returning"]
          /\ UNCHANGED scope
    /\ UNCHANGED <<vars, pushVars, sendVars, adsClients, got, ghostVars>>

(* func initConnection, addCon. *)
AddCon(c) ==
    /\ handler[c] = "register"
    /\ adsClients' = adsClients \cup {c}
    /\ handler' = [handler EXCEPT ![c] = "first"]
    /\ newest' = [newest EXCEPT ![c] = global]
    /\ excused' = [excused EXCEPT ![c] = scope[c] < global]
    /\ UNCHANGED <<vars, pushVars, sendVars, stream, scope, got>>

(* The answer to the first requests.  It is made with globalPushContext(), *)
(* but its services and rules come from the scope computed in InitProxy.   *)
AnswerRequest(c) ==
    /\ handler[c] = "first"
    /\ \/ /\ got' = [got EXCEPT ![c] = scope[c]]
          /\ handler' = [handler EXCEPT ![c] = "select"]
       \/ /\ c \in Failures \/ stream[c] = "closed"
          /\ handler' = [handler EXCEPT ![c] = "returning"]
          /\ UNCHANGED got
    /\ UNCHANGED <<vars, pushVars, sendVars, stream, adsClients, scope, ghostVars>>

(* The proxy goes away, or the network does. *)
Disconnect(c) ==
    /\ stream[c] = "open"
    /\ stream' = [stream EXCEPT ![c] = "closed"]
    /\ UNCHANGED <<vars, pushVars, sendVars, handler, adsClients, scope, got, ghostVars>>

(* Mutant: removeCon is not deferred. *)
HandlerReturnsTracked(c) ==
    /\ \/ handler[c] = "select" /\ stream[c] = "closed"
       \/ handler[c] = "returning"
    /\ handler' = [handler EXCEPT ![c] = "gone"]
    /\ stream' = [stream EXCEPT ![c] = "closed"]
    /\ UNCHANGED <<vars, pushVars, sendVars, adsClients, scope, got, ghostVars>>

(* The handler returns: reqChannel was closed, or a send failed.  removeCon *)
(* runs deferred, and gRPC cancels the stream's context.                    *)
HandlerReturns(c) ==
    /\ \/ handler[c] = "select" /\ stream[c] = "closed"
       \/ handler[c] = "returning"
    /\ handler' = [handler EXCEPT ![c] = "gone"]
    /\ stream' = [stream EXCEPT ![c] = "closed"]
    /\ adsClients' = adsClients \ {c}
    /\ UNCHANGED <<vars, pushVars, sendVars, scope, got, ghostVars>>

-----------------------------------------------------------------------------
PushEnds == PushFails \/ \E g \in Goroutines : PushPublish(g)

PushAllRuns(g) == StartPush(g) \/ \E c \in Conns : EnqueueClient(g, c)

SenderRuns ==
    \/ AcquireToken
    \/ \E d \in Dequeuers : SenderWaits(d) \/ \E j \in Jobs : SenderDequeues(d, j)

JobRuns(j) ==
    \/ OfferTaken(j) \/ OfferAbandoned(j)
    \/ PushSucceeds(j) \/ PushSkips(j) \/ PushErrs(j)
    \/ DoneMarks(j) \/ DoneRequeues(j) \/ DoneReleases(j)

HandlerRuns(c) == AddCon(c) \/ AnswerRequest(c) \/ HandlerReturns(c)

Environment ==
    \/ ConfigChange
    \/ \E g \in Goroutines, c \in Conns : ProxyUpdate(g, c)
    \/ \E c \in Conns : InitProxy(c) \/ Disconnect(c)

ServerNext ==
    \/ PushInitContext \/ PushEnds
    \/ \E g \in Goroutines : PushAllRuns(g)
    \/ SenderRuns
    \/ \E j \in Jobs : JobRuns(j)
    \/ \E c \in Conns : HandlerRuns(c)
    \/ Environment

ServerSpec == ServerInit /\ [][ServerNext]_serverVars

(* What is running keeps running.  Goroutines are created at will: that    *)
(* there are only so many in the model must not hold back a Push, hence    *)
(* the strong fairness.  Sends end by SendTimeout.  Nobody is obliged to   *)
(* change the config, to connect or to disconnect, and nothing obliges a   *)
(* push to succeed.                                                        *)
ServerFairness ==
    /\ WF_serverVars(PushInitContext) /\ SF_serverVars(PushEnds)
    /\ \A g \in Goroutines : WF_serverVars(PushAllRuns(g))
    /\ WF_serverVars(SenderRuns)
    /\ \A j \in Jobs : WF_serverVars(JobRuns(j))
    /\ \A c \in Conns : WF_serverVars(HandlerRuns(c))

FairServerSpec == ServerSpec /\ ServerFairness

-----------------------------------------------------------------------------
ServerTypeOK ==
    /\ TypeOK
    /\ version \in 0..MaxVersion /\ global \in 0..version
    /\ debounced \in PushRequests \cup {NoReq}
    /\ building \in PushRequests \cup {NoReq}
    /\ pushAll \in [Goroutines -> [req : PushRequests \cup {NoReq},
                                   snapshot : BOOLEAN, todo : SUBSET Conns]]
    /\ tokens \in 0..PushThrottle
    /\ sender \in {"acquire", "dequeue"}
    /\ phase \in [Jobs -> {"idle", "offer", "pushing", "done", "release"}]
    /\ serving \in [Jobs -> Conns \cup {NoConn}]
    /\ stream \in [Conns -> {"new", "open", "closed"}]
    /\ handler \in [Conns -> {"none", "register", "first", "select", "push",
                              "failed", "returning", "gone"}]
    /\ adsClients \subseteq Conns
    /\ scope \in [Conns -> 0..version] /\ got \in [Conns -> 0..version]

Active == {j \in Jobs : phase[j] # "idle"}

(* concurrentPushLimit counts what it is meant to limit: a token is held   *)
(* by every event from Dequeue until doneFunc has run, also one that met a *)
(* closed stream, and by the sender while it waits for the next one.       *)
TokensCountPushes ==
    tokens = Cardinality(Active) + (IF sender = "dequeue" THEN 1 ELSE 0)

(* doneFunc runs exactly once for an event, whoever runs it: a push that   *)
(* is not over is the one the queue has in progress for its connection,    *)
(* and a handler busy with a push has exactly one.                         *)
DoneOncePerEvent ==
    /\ \A j \in Jobs :
          /\ phase[j] \in {"offer", "pushing"} => job[j].stage = "pushing"
          /\ phase[j] \in {"idle", "release"} => job[j] = Idle
    /\ \A c \in Conns :
          Cardinality({j \in Jobs : serving[j] = c})
             = (IF handler[c] \in {"push", "failed"} THEN 1 ELSE 0)

Quiescent ==
    /\ debounced = NoReq /\ building = NoReq
    /\ \A g \in Goroutines : pushAll[g] = Resting
    /\ connections = <<>> /\ Active = {}

(* When everything asked for has been pushed, every connected proxy has    *)
(* the config of the current global context, unless one of the known       *)
(* causes struck since: a push with an older context was enqueued after a  *)
(* newer one, or after the proxy connected under a newer one; updateProxy  *)
(* failed; the proxy's scope was computed from a context that was replaced *)
(* before addCon.  No other interleaving of connecting, pushing, marking   *)
(* done and failing leaves a proxy behind.                                 *)
StaleOnlyByKnownCause ==
    Quiescent => \A c \in adsClients :
        (handler[c] = "select" /\ stream[c] = "open") => got[c] = global \/ excused[c]

(* Whatever context is enqueued for a connection, its proxy is sent that   *)
(* config or a newer one, or the connection ends, or one of the causes     *)
(* above struck.  The throttle, with another proxy's push holding the only *)
(* token, a queue that the other proxy's updates keep busy, and a proxy    *)
(* that hangs up or fails in the middle of its push do not prevent it.     *)
PushesArrive ==
    \A c \in Conns, v \in 1..MaxVersion :
        (newest[c] >= v) ~> (got[c] >= v \/ stream[c] = "closed" \/ excused[c])

(* What concerns c is in the queue or running. *)
Concerns(c) ==
    \/ c \in Queued \/ inProgress[c] # Absent
    \/ \E j \in Jobs : job[j] # Idle /\ job[j].con = c
    \/ \E g \in Goroutines : c \in pushAll[g].todo

(* A connection whose handler has returned is gone from the queue and from *)
(* the jobs in the end, and for good: an enqueue that was under way for it *)
(* is offered to nobody and abandoned.                                     *)
ClosedConnectionsDrain ==
    <>[](\A c \in Conns : handler[c] = "gone" => ~Concerns(c))

-----------------------------------------------------------------------------
(* StreamAggregatedResources: "if a config change happens while the envoy  *)
(* was getting the initial config ... the periodic push recovers from it." *)
(* Then a connected proxy whose config is older than the global context    *)
(* would eventually get the current one.                                   *)
StaleClientsRecover ==
    \A c \in Conns :
        (handler[c] = "select" /\ got[c] < global)
            ~> (got[c] = global \/ stream[c] = "closed")

=============================================================================
