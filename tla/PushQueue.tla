------------------------------ MODULE PushQueue ------------------------------
(***************************************************************************)
(* The queue between the debouncer and the per-connection pushes           *)
(* (pilot/pkg/proxy/envoy/v2/pushqueue.go).  It keeps at most one request  *)
(* per connection, never hands the same connection out twice at a time,    *)
(* and merges what is asked for a connection meanwhile.                    *)
(*                                                                         *)
(* Every method body is one critical section of mu, hence one action,      *)
(* except MarkDone, which unlocks between taking the connection out of     *)
(* inProgress and enqueuing what had gathered there: two actions.          *)
(***************************************************************************)
EXTENDS PushRequest, Sequences

CONSTANTS
    Conns,        \* *XdsConnection values
    Dequeuers,    \* goroutines that call Dequeue
    Jobs,         \* pushes under way: one per Dequeue until its MarkDone returns
    Requests,     \* the requests the callers of Enqueue may pass
    Absent        \* no entry in the inProgress map

VARIABLES
    eventsMap,    \* con -> queued request; NoReq when con is not queued
    connections,  \* the order of the queue
    inProgress,   \* con -> request gathered while it is pushed, or Absent
    consumer,     \* dequeuer -> "ready" or "parked" (inside cond.Wait)
    job           \* job -> its stage, connection and request

queueVars == <<eventsMap, connections, inProgress>>
vars == <<queueVars, consumer, job>>

ASSUME PushQueueAssumption ==
    /\ Requests \subseteq PushRequests
    /\ Absent \notin PushRequests \cup {NoReq}

Idle == [stage |-> "idle"]

(* info is the request handed out by Dequeue while "pushing", and the one  *)
(* MarkDone found in inProgress while "requeue".                           *)
JobStates ==
    {Idle} \cup [stage : {"pushing", "requeue"}, con : Conns, info : PushRequests]

-----------------------------------------------------------------------------
(* func NewPushQueue *)
InitQueue ==
    /\ eventsMap = [c \in Conns |-> NoReq]
    /\ connections = <<>>
    /\ inProgress = [c \in Conns |-> Absent]

Init ==
    /\ InitQueue
    /\ consumer = [d \in Dequeuers |-> "ready"]
    /\ job = [j \in Jobs |-> Idle]

(* cond.Signal: one of the goroutines parked in cond.Wait, if any, gets to *)
(* test its condition again.                                               *)
Signal ==
    \/ /\ \A d \in Dequeuers : consumer[d] # "parked"
       /\ UNCHANGED consumer
    \/ \E d \in Dequeuers :
         /\ consumer[d] = "parked"
         /\ consumer' = [consumer EXCEPT ![d] = "ready"]

(* func Enqueue: where the request ends up depends on where con is. *)
EnqueueInProgress(con, req) ==
    /\ inProgress[con] # Absent
    /\ inProgress' = [inProgress EXCEPT ![con] = Merge(@, req)]
    /\ UNCHANGED <<eventsMap, connections, consumer>>

EnqueueQueued(con, req) ==
    /\ inProgress[con] = Absent
    /\ eventsMap[con] # NoReq
    /\ eventsMap' = [eventsMap EXCEPT ![con] = Merge(@, req)]
    /\ UNCHANGED <<connections, inProgress, consumer>>

(* Mutant: Enqueue does not look at inProgress. *)
EnqueueNewUnguarded(con, req) ==
    /\ eventsMap[con] = NoReq
    /\ eventsMap' = [eventsMap EXCEPT ![con] = req]
    /\ connections' = Append(connections, con)
    /\ UNCHANGED inProgress
    /\ Signal

(* Mutant: Enqueue does not signal. *)
EnqueueNewSilent(con, req) ==
    /\ inProgress[con] = Absent
    /\ eventsMap[con] = NoReq
    /\ eventsMap' = [eventsMap EXCEPT ![con] = req]
    /\ connections' = Append(connections, con)
    /\ UNCHANGED <<inProgress, consumer>>

EnqueueNew(con, req) ==
    /\ inProgress[con] = Absent
    /\ eventsMap[con] = NoReq
    /\ eventsMap' = [eventsMap EXCEPT ![con] = req]
    /\ connections' = Append(connections, con)
    /\ UNCHANGED inProgress
    /\ Signal

EnqueueOp(con, req) ==
    \/ EnqueueInProgress(con, req)
    \/ EnqueueQueued(con, req)
    \/ EnqueueNew(con, req)

Enqueue(con, req) == EnqueueOp(con, req) /\ UNCHANGED job

(* func Dequeue, the loop around cond.Wait and what follows it. *)
Park(d) ==
    /\ consumer[d] = "ready"
    /\ connections = <<>>
    /\ consumer' = [consumer EXCEPT ![d] = "parked"]
    /\ UNCHANGED <<queueVars, job>>

(* Mutant: Dequeue leaves the request in eventsMap. *)
DequeueOpNoDelete(d) ==
    /\ consumer[d] = "ready"
    /\ connections # <<>>
    /\ connections' = Tail(connections)
    /\ inProgress' = [inProgress EXCEPT ![Head(connections)] = NoReq]
    /\ UNCHANGED <<eventsMap, consumer>>

DequeueOp(d) ==
    /\ consumer[d] = "ready"
    /\ connections # <<>>
    /\ connections' = Tail(connections)
    /\ eventsMap' = [eventsMap EXCEPT ![Head(connections)] = NoReq]
    /\ inProgress' = [inProgress EXCEPT ![Head(connections)] = NoReq]
    /\ UNCHANGED consumer

Dequeue(d, j) ==
    /\ job[j] = Idle
    /\ DequeueOp(d)
    /\ LET head == Head(connections) IN
       job' = [job EXCEPT ![j] =
                 [stage |-> "pushing", con |-> head, info |-> eventsMap[head]]]

(* func MarkDone up to Unlock; it returns when nothing was gathered. *)
MarkDoneOp(con) ==
    /\ inProgress' = [inProgress EXCEPT ![con] = Absent]
    /\ UNCHANGED <<eventsMap, connections, consumer>>

(* Mutant: MarkDone drops what gathered during the push. *)
MarkDoneDrops(j) ==
    /\ job[j].stage = "pushing"
    /\ MarkDoneOp(job[j].con)
    /\ job' = [job EXCEPT ![j] = Idle]

(* Mutant: MarkDone enqueues even if nothing gathered. *)
MarkDoneAlways(j) ==
    /\ job[j].stage = "pushing"
    /\ MarkDoneOp(job[j].con)
    /\ job' = [job EXCEPT ![j] =
                 [stage |-> "requeue", con |-> job[j].con, info |-> inProgress[job[j].con]]]

MarkDone(j) ==
    /\ job[j].stage = "pushing"
    /\ MarkDoneOp(job[j].con)
    /\ LET con == job[j].con
           info == inProgress[con]
       IN  job' = [job EXCEPT ![j] = IF info \in {NoReq, Absent} THEN Idle
                     ELSE [stage |-> "requeue", con |-> con, info |-> info]]

(* func MarkDone, the call of Enqueue after Unlock. *)
Requeue(j) ==
    /\ job[j].stage = "requeue"
    /\ EnqueueOp(job[j].con, job[j].info)
    /\ job' = [job EXCEPT ![j] = Idle]

Next ==
    \/ \E con \in Conns, req \in Requests : Enqueue(con, req)
    \/ \E d \in Dequeuers : Park(d)
    \/ \E d \in Dequeuers, j \in Jobs : Dequeue(d, j)
    \/ \E j \in Jobs : MarkDone(j) \/ Requeue(j)

(* Goroutines keep running: the consumer's loop, and every push (a send is *)
(* bounded by SendTimeout) and its MarkDone, are carried on.  Nobody is    *)
(* obliged to enqueue.                                                     *)
Fairness ==
    /\ \A d \in Dequeuers : WF_vars(Park(d)) /\ WF_vars(\E j \in Jobs : Dequeue(d, j))
    /\ \A j \in Jobs : WF_vars(MarkDone(j)) /\ WF_vars(Requeue(j))

Spec == Init /\ [][Next]_vars
FairSpec == Spec /\ Fairness

-----------------------------------------------------------------------------
TypeOK ==
    /\ eventsMap \in [Conns -> PushRequests \cup {NoReq}]
    /\ connections \in Seq(Conns)
    /\ inProgress \in [Conns -> PushRequests \cup {NoReq, Absent}]
    /\ consumer \in [Dequeuers -> {"ready", "parked"}]
    /\ job \in [Jobs -> JobStates]

Queued == {connections[i] : i \in 1..Len(connections)}
Pushing(con) == {j \in Jobs : job[j].stage = "pushing" /\ job[j].con = con}

(* The two halves of the queue agree: connections lists exactly the keys   *)
(* of eventsMap, each once (Dequeue reads eventsMap[head] unchecked).      *)
OrderMatchesMap ==
    /\ \A i, k \in 1..Len(connections) :
          connections[i] = connections[k] => i = k
    /\ Queued = {c \in Conns : eventsMap[c] # NoReq}

(* A connection is handed to one push at a time, inProgress holds exactly  *)
(* the connections handed out, and none of them is queued as well.         *)
OnePushPerConnection ==
    /\ \A i, j \in Jobs :
          (job[i].stage = "pushing" /\ job[j].stage = "pushing"
             /\ job[i].con = job[j].con) => i = j
    /\ \A c \in Conns :
          /\ inProgress[c] # Absent <=> Pushing(c) # {}
          /\ inProgress[c] # Absent => eventsMap[c] = NoReq

(* No wake-up of Dequeue is lost: nobody stays parked in cond.Wait over a  *)
(* queue that has work unless another consumer is awake to take it.        *)
NoLostWakeup ==
    \A d \in Dequeuers : consumer[d] = "parked" =>
        connections = <<>> \/ \E e \in Dequeuers : consumer[e] = "ready"

-----------------------------------------------------------------------------
(* What the queue promises, in the terms of PushCoalescer: what is owed to *)
(* a connection is what is queued for it, what gathered while it is pushed *)
(* and what a MarkDone is about to enqueue again.                          *)
Held(con) ==
    {job[j].info : j \in {i \in Jobs : job[i].stage = "requeue" /\ job[i].con = con}}

Owed(con) ==
    Wants(eventsMap[con])
      \cup (IF inProgress[con] = Absent THEN {} ELSE Wants(inProgress[con]))
      \cup UNION {Wants(r) : r \in Held(con)}

Current(con) == UNION {Wants(job[j].info) : j \in Pushing(con)}

owedMap == [c \in Conns |-> Owed(c)]
currentMap == [c \in Conns |-> Current(c)]

Coalescer == INSTANCE PushCoalescer
                 WITH owed <- owedMap, current <- currentMap, Items <- AllWants

(* Enqueue, Dequeue and MarkDone coalesce without losing or inventing      *)
(* anything: every step is a step of PushCoalescer or changes nothing it   *)
(* sees.  In particular nothing falls into the gap inside MarkDone.        *)
ImplementsCoalescer == Coalescer!Spec

(* An Enqueue slipped into the gap inside con's MarkDone. *)
Overtaken(con) == Held(con) # {} /\ eventsMap[con] # NoReq

(* Whatever is asked for a connection, also while it is being pushed or    *)
(* while its MarkDone is half way, is eventually part of a push to it.     *)
(* The one thing that can put it off is another request that overtakes it  *)
(* in the gap inside MarkDone; only if that happens over and over, with a  *)
(* Dequeue before Enqueue is reached each time, does it wait for ever.     *)
EventuallyPushed ==
    \A c \in Conns, i \in AllWants :
        (i \in Owed(c)) ~> (i \in Current(c) \/ Overtaken(c))

=============================================================================
