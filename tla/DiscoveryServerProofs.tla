------------------------ MODULE DiscoveryServerProofs ------------------------
(***************************************************************************)
(* Theorems about the push queue, for any sets of connections, goroutines  *)
(* and requests, and about the DiscoveryServer around it, for any number   *)
(* of connections, jobs, pushes running at once and config changes, and    *)
(* any throttle.                                                           *)
(***************************************************************************)
EXTENDS DiscoveryServer, PushRequestProofs, FiniteSetTheorems

-----------------------------------------------------------------------------
(* The queue's inductive invariant.  OrderMatchesMap needs OnePushPerConnection (a *)
(* connection being pushed is not queued, so Enqueue cannot list it twice) *)
(* and the other way round (the head of the queue is queued, so nobody is  *)
(* pushing it).                                                            *)
QueueInv == TypeOK /\ OrderMatchesMap /\ OnePushPerConnection /\ NoLostWakeup

(* The empty queue of NewPushQueue satisfies the inductive invariant. *)
LEMMA InitInv == Init => QueueInv
  BY DEF Init, InitQueue, QueueInv, TypeOK, OrderMatchesMap, OnePushPerConnection,
         NoLostWakeup, Queued, Pushing, Idle, JobStates

(* Enqueue keeps the queue's part of the invariant, whoever calls it: a    *)
(* caller with a new request or MarkDone with the one it took out.         *)
LEMMA EnqueueInv ==
    ASSUME QueueInv, NEW con \in Conns, NEW req \in PushRequests, EnqueueOp(con, req)
    PROVE  /\ eventsMap' \in [Conns -> PushRequests \cup {NoReq}]
           /\ connections' \in Seq(Conns)
           /\ inProgress' \in [Conns -> PushRequests \cup {NoReq, Absent}]
           /\ consumer' \in [Dequeuers -> {"ready", "parked"}]
           /\ OrderMatchesMap'
           /\ \A c \in Conns : inProgress'[c] # Absent <=> inProgress[c] # Absent
           /\ \A c \in Conns : inProgress'[c] # Absent => eventsMap'[c] = NoReq
           /\ NoLostWakeup'
<1> USE DEF QueueInv
<1>0. req # NoReq /\ req # Absent
  BY PushRequestAssumption, PushQueueAssumption
<1>1. CASE EnqueueInProgress(con, req)
  <2>1. inProgress[con] \in PushRequests \cup {NoReq}
    BY <1>1 DEF EnqueueInProgress, TypeOK
  <2>2. Merge(inProgress[con], req) \in PushRequests
    BY <2>1, MergeType
  <2>3. Merge(inProgress[con], req) # Absent
    BY <2>2, PushQueueAssumption
  <2> QED
    BY <1>1, <2>2, <2>3
    DEF EnqueueInProgress, TypeOK, OrderMatchesMap, OnePushPerConnection, NoLostWakeup, Queued
<1>2. CASE EnqueueQueued(con, req)
  <2>1. Merge(eventsMap[con], req) \in PushRequests
    BY <1>2, MergeType DEF EnqueueQueued, TypeOK
  <2>2. Merge(eventsMap[con], req) # NoReq
    BY <2>1, PushRequestAssumption
  <2> QED
    BY <1>2, <2>1, <2>2
    DEF EnqueueQueued, TypeOK, OrderMatchesMap, OnePushPerConnection, NoLostWakeup, Queued
<1>3. CASE EnqueueNew(con, req)
  <2>1. con \notin Queued
    BY <1>3 DEF EnqueueNew, OrderMatchesMap
  <2>2. /\ connections' \in Seq(Conns)
        /\ Len(connections') = Len(connections) + 1
        /\ \A i \in 1..Len(connections) : connections'[i] = connections[i]
        /\ connections'[Len(connections) + 1] = con
    BY <1>3 DEF EnqueueNew, TypeOK
  <2>3. Queued' = Queued \cup {con}
    <3>1. Len(connections) \in Nat
      BY DEF TypeOK
    <3> QED BY <2>2, <3>1 DEF Queued
  <2>4. OrderMatchesMap'
    <3>1. Len(connections) \in Nat
      BY DEF TypeOK
    <3>2. \A i, k \in 1..Len(connections') : connections'[i] = connections'[k] => i = k
      BY <2>1, <2>2, <3>1 DEF OrderMatchesMap, Queued
    <3>3. Queued' = {c \in Conns : eventsMap'[c] # NoReq}
      BY <1>0, <1>3, <2>3 DEF EnqueueNew, OrderMatchesMap, TypeOK
    <3> QED BY <3>2, <3>3 DEF OrderMatchesMap
  <2>5. consumer' \in [Dequeuers -> {"ready", "parked"}] /\ NoLostWakeup'
    BY <1>3 DEF EnqueueNew, Signal, TypeOK, NoLostWakeup
  <2> QED
    BY <1>0, <1>3, <2>2, <2>4, <2>5 DEF EnqueueNew, TypeOK, OnePushPerConnection
<1> QED
  BY <1>1, <1>2, <1>3 DEF EnqueueOp

(* A caller's Enqueue keeps the invariant. *)
LEMMA EnqueueStep ==
    ASSUME QueueInv, NEW con \in Conns, NEW req \in PushRequests, Enqueue(con, req)
    PROVE  QueueInv'
<1>1. EnqueueOp(con, req) /\ UNCHANGED job
  BY DEF Enqueue
<1>2. \A c \in Conns : Pushing(c)' = Pushing(c)
  BY <1>1 DEF Pushing
<1>3. OnePushPerConnection'
  BY <1>1, <1>2, EnqueueInv DEF OnePushPerConnection, QueueInv
<1> QED
  BY <1>1, <1>3, EnqueueInv DEF QueueInv, TypeOK

(* Where Enqueue leaves the request: gathered for a connection that is     *)
(* being pushed, queued for another one, in either case with the context   *)
(* of the new request.                                                     *)
LEMMA EnqueueHeld ==
    ASSUME QueueInv, NEW con \in Conns, NEW req \in PushRequests, EnqueueOp(con, req)
    PROVE  /\ \A c \in Conns \ {con} :
                 eventsMap'[c] = eventsMap[c] /\ inProgress'[c] = inProgress[c]
           /\ \/ /\ inProgress[con] # Absent
                 /\ inProgress'[con] \in PushRequests /\ inProgress'[con].push = req.push
                 /\ eventsMap[con] = NoReq /\ eventsMap'[con] = NoReq
              \/ /\ inProgress[con] = Absent /\ inProgress'[con] = Absent
                 /\ eventsMap'[con] \in PushRequests /\ eventsMap'[con].push = req.push
<1> USE DEF QueueInv, TypeOK
<1>1. CASE EnqueueInProgress(con, req)
  <2>1. inProgress[con] \in PushRequests \cup {NoReq}
    BY <1>1 DEF EnqueueInProgress
  <2>2. inProgress'[con] \in PushRequests /\ inProgress'[con].push = req.push
    BY <1>1, <2>1, MergeType, MergePush DEF EnqueueInProgress
  <2> QED BY <1>1, <2>2 DEF EnqueueInProgress, OnePushPerConnection
<1>2. CASE EnqueueQueued(con, req)
  <2>1. eventsMap'[con] \in PushRequests /\ eventsMap'[con].push = req.push
    BY <1>2, MergeType, MergePush DEF EnqueueQueued
  <2> QED BY <1>2, <2>1 DEF EnqueueQueued
<1>3. CASE EnqueueNew(con, req)
  BY <1>3 DEF EnqueueNew
<1> QED BY <1>1, <1>2, <1>3 DEF EnqueueOp

(* A Dequeue that finds the queue empty and waits keeps the invariant. *)
LEMMA ParkStep ==
    ASSUME QueueInv, NEW d \in Dequeuers, Park(d)
    PROVE  QueueInv'
<1>1. UNCHANGED <<eventsMap, connections, inProgress, job>>
  BY DEF Park, queueVars
<1>2. TypeOK'
  BY <1>1 DEF QueueInv, TypeOK, Park
<1>3. OrderMatchesMap' /\ OnePushPerConnection'
  BY <1>1 DEF QueueInv, OrderMatchesMap, OnePushPerConnection, Queued, Pushing
<1>4. NoLostWakeup'
  BY <1>1 DEF Park, NoLostWakeup
<1> QED BY <1>2, <1>3, <1>4 DEF QueueInv

(* A Dequeue that takes the head of the queue keeps the invariant. *)
LEMMA DequeueStep ==
    ASSUME QueueInv, NEW d \in Dequeuers, NEW j \in Jobs, Dequeue(d, j)
    PROVE  QueueInv'
<1>0. /\ connections \in Seq(Conns) /\ connections # <<>>
      /\ Len(connections) \in Nat \ {0}
  BY DEF QueueInv, TypeOK, Dequeue, DequeueOp
<1>1. PICK head \in Conns : head = Head(connections) /\ head = connections[1]
  BY <1>0
<1>2. head \in Queued
  BY <1>0, <1>1 DEF Queued
<1>3. /\ eventsMap[head] \in PushRequests
      /\ inProgress[head] = Absent /\ Pushing(head) = {}
  BY <1>1, <1>2 DEF QueueInv, TypeOK, OrderMatchesMap, OnePushPerConnection
<1>4. /\ eventsMap' = [eventsMap EXCEPT ![head] = NoReq]
      /\ inProgress' = [inProgress EXCEPT ![head] = NoReq]
      /\ connections' = Tail(connections)
      /\ job' = [job EXCEPT ![j] =
                   [stage |-> "pushing", con |-> head, info |-> eventsMap[head]]]
      /\ job[j] = Idle /\ consumer' = consumer /\ consumer[d] = "ready"
  BY <1>1 DEF Dequeue, DequeueOp
<1>5. TypeOK'
  <2>1. [stage |-> "pushing", con |-> head, info |-> eventsMap[head]] \in JobStates
    BY <1>2, <1>3 DEF JobStates
  <2>2. connections' \in Seq(Conns)
    BY <1>0, <1>4
  <2> QED BY <1>2, <1>4, <2>1, <2>2 DEF QueueInv, TypeOK
<1>6. /\ Len(connections') = Len(connections) - 1
      /\ \A i \in 1..Len(connections') : connections'[i] = connections[i + 1]
  BY <1>0, <1>4
<1>7. OrderMatchesMap'
  <2>1. \A i, k \in 1..Len(connections') : connections'[i] = connections'[k] => i = k
    BY <1>0, <1>1, <1>6 DEF QueueInv, OrderMatchesMap
  <2>2. Queued' = Queued \ {head}
    <3>1. \A i \in 1..Len(connections') : connections'[i] # head
      BY <1>0, <1>1, <1>6 DEF QueueInv, OrderMatchesMap
    <3>2. \A i \in 1..Len(connections) : i # 1 =>
             i - 1 \in 1..Len(connections') /\ connections'[i - 1] = connections[i]
      BY <1>0, <1>1, <1>6
    <3> QED BY <1>0, <1>1, <1>6, <3>1, <3>2 DEF Queued
  <2>3. Queued' = {c \in Conns : eventsMap'[c] # NoReq}
    BY <1>2, <1>4, <2>2 DEF QueueInv, OrderMatchesMap, TypeOK
  <2> QED BY <2>1, <2>3 DEF OrderMatchesMap
<1>8. OnePushPerConnection'
  <2>1. job \in [Jobs -> JobStates]
    BY DEF QueueInv, TypeOK
  <2>2. Pushing(head)' = {j}
    BY <1>3, <1>4, <2>1 DEF Pushing
  <2>3. \A c \in Conns \ {head} : Pushing(c)' = Pushing(c)
    BY <1>4, <2>1 DEF Pushing, Idle
  <2>4. \A i, k \in Jobs :
          (job'[i].stage = "pushing" /\ job'[k].stage = "pushing"
             /\ job'[i].con = job'[k].con) => i = k
    BY <1>3, <1>4, <2>1 DEF QueueInv, OnePushPerConnection, Pushing
  <2>5. NoReq # Absent
    BY PushQueueAssumption
  <2> QED
    BY <1>2, <1>4, <2>2, <2>3, <2>4, <2>5 DEF QueueInv, OnePushPerConnection, TypeOK
<1>9. NoLostWakeup'
  BY <1>4 DEF NoLostWakeup
<1> QED BY <1>5, <1>7, <1>8, <1>9 DEF QueueInv

(* The locked part of MarkDone keeps the invariant. *)
LEMMA MarkDoneStep ==
    ASSUME QueueInv, NEW j \in Jobs, MarkDone(j)
    PROVE  QueueInv'
<1>0. job[j] \in JobStates /\ job[j].stage = "pushing" /\ job \in [Jobs -> JobStates]
  BY DEF QueueInv, TypeOK, MarkDone
<1>1. PICK con \in Conns : con = job[j].con
  BY <1>0 DEF JobStates, Idle
<1>2. PICK new \in JobStates :
        /\ job' = [job EXCEPT ![j] = new]
        /\ new.stage # "pushing"
  <2>1. inProgress[con] \in PushRequests \cup {NoReq, Absent}
    BY DEF QueueInv, TypeOK
  <2>2. CASE inProgress[con] \in {NoReq, Absent}
    <3>1. job' = [job EXCEPT ![j] = Idle]
      BY <1>1, <2>2 DEF MarkDone
    <3>2. Idle \in JobStates /\ Idle.stage # "pushing"
      BY DEF JobStates, Idle
    <3> QED BY <3>1, <3>2
  <2>3. CASE inProgress[con] \notin {NoReq, Absent}
    <3> DEFINE new == [stage |-> "requeue", con |-> con, info |-> inProgress[con]]
    <3>1. new \in JobStates
      BY <2>1, <2>3 DEF JobStates
    <3>2. job' = [job EXCEPT ![j] = new]
      BY <1>1, <2>3 DEF MarkDone
    <3> QED BY <3>1, <3>2
  <2> QED BY <2>2, <2>3
<1>3. /\ inProgress' = [inProgress EXCEPT ![con] = Absent]
      /\ UNCHANGED <<eventsMap, connections, consumer>>
  BY <1>1 DEF MarkDone, MarkDoneOp
<1>4. TypeOK'
  BY <1>2, <1>3 DEF QueueInv, TypeOK
<1>5. OrderMatchesMap' /\ NoLostWakeup'
  BY <1>3 DEF QueueInv, OrderMatchesMap, NoLostWakeup, Queued
<1>6. OnePushPerConnection'
  <2>1. Pushing(con)' = {}
    BY <1>0, <1>1, <1>2 DEF Pushing, QueueInv, OnePushPerConnection
  <2>2. \A c \in Conns \ {con} : Pushing(c)' = Pushing(c)
    BY <1>0, <1>1, <1>2 DEF Pushing
  <2>3. \A i, k \in Jobs :
          (job'[i].stage = "pushing" /\ job'[k].stage = "pushing"
             /\ job'[i].con = job'[k].con) => i = k
    BY <1>0, <1>2 DEF QueueInv, OnePushPerConnection
  <2> QED
    BY <1>3, <2>1, <2>2, <2>3 DEF QueueInv, OnePushPerConnection, TypeOK
<1> QED BY <1>4, <1>5, <1>6 DEF QueueInv

(* The Enqueue that MarkDone makes after unlocking keeps the invariant. *)
LEMMA RequeueStep ==
    ASSUME QueueInv, NEW j \in Jobs, Requeue(j)
    PROVE  QueueInv'
<1>0. job[j] \in JobStates /\ job[j].stage = "requeue" /\ job \in [Jobs -> JobStates]
  BY DEF QueueInv, TypeOK, Requeue
<1>1. job[j].con \in Conns /\ job[j].info \in PushRequests
  BY <1>0 DEF JobStates, Idle
<1>2. EnqueueOp(job[j].con, job[j].info) /\ job' = [job EXCEPT ![j] = Idle]
  BY DEF Requeue
<1>3. \A c \in Conns : Pushing(c)' = Pushing(c)
  BY <1>0, <1>2 DEF Pushing, Idle
<1>4. \A i, k \in Jobs :
          (job'[i].stage = "pushing" /\ job'[k].stage = "pushing"
             /\ job'[i].con = job'[k].con) => i = k
  BY <1>0, <1>2 DEF QueueInv, OnePushPerConnection, Idle
<1>5. OnePushPerConnection'
  BY <1>1, <1>2, <1>3, <1>4, EnqueueInv DEF OnePushPerConnection, QueueInv
<1>6. job' \in [Jobs -> JobStates]
  BY <1>0, <1>2 DEF JobStates
<1> QED
  BY <1>1, <1>2, <1>5, <1>6, EnqueueInv DEF QueueInv, TypeOK

(* Every step of the push queue keeps the invariant. *)
LEMMA NextInv == QueueInv /\ [Next]_vars => QueueInv'
<1> SUFFICES ASSUME QueueInv, [Next]_vars PROVE QueueInv'
  OBVIOUS
<1>1. CASE \E con \in Conns, req \in Requests : Enqueue(con, req)
  BY <1>1, EnqueueStep, PushQueueAssumption
<1>2. CASE \E d \in Dequeuers : Park(d)
  BY <1>2, ParkStep
<1>3. CASE \E d \in Dequeuers, j \in Jobs : Dequeue(d, j)
  BY <1>3, DequeueStep
<1>4. CASE \E j \in Jobs : MarkDone(j)
  BY <1>4, MarkDoneStep
<1>5. CASE \E j \in Jobs : Requeue(j)
  BY <1>5, RequeueStep
<1>6. CASE UNCHANGED vars
  BY <1>6 DEF vars, queueVars, QueueInv, TypeOK, OrderMatchesMap, OnePushPerConnection,
              NoLostWakeup, Queued, Pushing
<1> QED
  BY <1>1, <1>2, <1>3, <1>4, <1>5, <1>6 DEF Next

(* The invariant holds in every behaviour of the queue. *)
LEMMA QueueInvariant == Spec => []QueueInv
  BY InitInv, NextInv, PTL DEF Spec

(* The queue's variables keep their types: what Merge puts into eventsMap  *)
(* and inProgress are requests, and only connections are queued.           *)
THEOREM QueueTypeCorrect == Spec => []TypeOK
  BY QueueInvariant, PTL DEF QueueInv

(* The list that gives the queue its order and the map that holds the      *)
(* requests never disagree: a connection is listed once exactly while a    *)
(* request for it waits, so Dequeue always finds what it looks up.         *)
THEOREM QueueOrderCorrect == Spec => []OrderMatchesMap
  BY QueueInvariant, PTL DEF QueueInv

(* A connection is pushed by one job at a time and is not queued meanwhile *)
(* although MarkDone unlocks between its two halves.                       *)
THEOREM QueueCorrect == Spec => []OnePushPerConnection
  BY QueueInvariant, PTL DEF QueueInv

(* No consumer of Dequeue sleeps over a queue with work unless another one *)
(* is awake: Enqueue's Signal is enough, also when several of them wait.   *)
THEOREM QueueWakesConsumers == Spec => []NoLostWakeup
  BY QueueInvariant, PTL DEF QueueInv

-----------------------------------------------------------------------------
(* The queue implements PushCoalescer.  Membership in Owed and Current,    *)
(* before and after a step, spelled out place by place.                    *)
OwedAt(x, c) ==
    \/ x \in Wants(eventsMap[c])
    \/ inProgress[c] # Absent /\ x \in Wants(inProgress[c])
    \/ \E j \in Jobs : job[j].stage = "requeue" /\ job[j].con = c
                       /\ x \in Wants(job[j].info)

CurrentAt(x, c) ==
    \E j \in Jobs : job[j].stage = "pushing" /\ job[j].con = c /\ x \in Wants(job[j].info)

(* What is owed to a connection is what its held requests ask for. *)
LEMMA OwedMember ==
    ASSUME NEW c, NEW x
    PROVE  /\ x \in Owed(c) <=> OwedAt(x, c)
           /\ x \in Owed(c)' <=> OwedAt(x, c)'
           /\ x \in Current(c) <=> CurrentAt(x, c)
           /\ x \in Current(c)' <=> CurrentAt(x, c)'
<1>1. x \in Owed(c) <=> OwedAt(x, c)
  BY DEF Owed, OwedAt, Held
<1>2. x \in Owed(c)' <=> OwedAt(x, c)'
  BY DEF Owed, OwedAt, Held
<1>3. x \in Current(c) <=> CurrentAt(x, c)
  BY DEF Current, CurrentAt, Pushing
<1>4. x \in Current(c)' <=> CurrentAt(x, c)'
  BY DEF Current, CurrentAt, Pushing
<1> QED BY <1>1, <1>2, <1>3, <1>4

(* Enqueue adds what the request asks for to what is owed to con. *)
LEMMA EnqueueOwed ==
    ASSUME QueueInv, NEW con \in Conns, NEW req \in PushRequests, EnqueueOp(con, req),
           NEW x, NEW c \in Conns
    PROVE  (x \in Wants(eventsMap'[c]) \/ (inProgress'[c] # Absent /\ x \in Wants(inProgress'[c])))
             <=> \/ x \in Wants(eventsMap[c])
                 \/ inProgress[c] # Absent /\ x \in Wants(inProgress[c])
                 \/ c = con /\ x \in Wants(req)
<1> USE DEF QueueInv
<1>0. Wants(NoReq) = {}
  BY DEF Wants
<1>1. CASE EnqueueInProgress(con, req)
  <2>1. inProgress[con] \in PushRequests \cup {NoReq}
    BY <1>1 DEF EnqueueInProgress, TypeOK
  <2>2. Wants(inProgress'[con]) = Wants(inProgress[con]) \cup Wants(req)
    BY <1>1, <2>1, MergeWants DEF EnqueueInProgress, TypeOK
  <2>3. inProgress'[con] # Absent
    BY <1>1, <2>1, MergeType, PushQueueAssumption DEF EnqueueInProgress, TypeOK
  <2> QED BY <1>1, <2>2, <2>3 DEF EnqueueInProgress, TypeOK
<1>2. CASE EnqueueQueued(con, req)
  <2>1. Wants(eventsMap'[con]) = Wants(eventsMap[con]) \cup Wants(req)
    BY <1>2, MergeWants DEF EnqueueQueued, TypeOK
  <2> QED BY <1>2, <2>1 DEF EnqueueQueued, TypeOK
<1>3. CASE EnqueueNew(con, req)
  BY <1>0, <1>3 DEF EnqueueNew, TypeOK
<1> QED BY <1>1, <1>2, <1>3 DEF EnqueueOp

(* A step that changes only what is owed to one connection, by adding some *)
(* request's items, is an Ask or a stutter of PushCoalescer.               *)
LEMMA EnqueueRefines ==
    ASSUME QueueInv, NEW con \in Conns, NEW req \in PushRequests, Enqueue(con, req)
    PROVE  Coalescer!Ask(con) \/ UNCHANGED Coalescer!coalescerVars
<1>1. EnqueueOp(con, req) /\ job' = job
  BY DEF Enqueue
<1>2. \A c \in Conns : Owed(c)' = Owed(c) \cup (IF c = con THEN Wants(req) ELSE {})
  <2> SUFFICES ASSUME NEW c \in Conns, NEW x
               PROVE  x \in Owed(c)' <=> x \in Owed(c) \cup (IF c = con THEN Wants(req) ELSE {})
    OBVIOUS
  <2>1. OwedAt(x, c)' <=> OwedAt(x, c) \/ (c = con /\ x \in Wants(req))
    BY <1>1, EnqueueOwed DEF OwedAt
  <2> QED BY <2>1, OwedMember
<1>3. \A c \in Conns : Current(c)' = Current(c)
  BY <1>1 DEF Current, Pushing
<1>4. currentMap' = currentMap
  BY <1>3 DEF currentMap
<1>5. owedMap' = [owedMap EXCEPT ![con] = @ \cup Wants(req)]
  BY <1>2 DEF owedMap
<1>6. Wants(req) \subseteq AllWants
  BY <1>1, WantsBound
<1>7. CASE Wants(req) = {}
  <2>1. owedMap' = owedMap
    BY <1>2, <1>7 DEF owedMap
  <2> QED BY <1>4, <2>1 DEF Coalescer!coalescerVars
<1>8. CASE Wants(req) # {}
  BY <1>4, <1>5, <1>6, <1>8 DEF Coalescer!Ask
<1> QED BY <1>7, <1>8

(* Dequeue is the Begin of PushCoalescer: everything owed goes out at once. *)
LEMMA DequeueRefines ==
    ASSUME QueueInv, NEW d \in Dequeuers, NEW j \in Jobs, Dequeue(d, j)
    PROVE  (\E c \in Conns : Coalescer!Begin(c)) \/ UNCHANGED Coalescer!coalescerVars
<1>0. /\ connections \in Seq(Conns) /\ connections # <<>>
      /\ Len(connections) \in Nat \ {0}
      /\ job \in [Jobs -> JobStates]
  BY DEF QueueInv, TypeOK, Dequeue, DequeueOp
<1>1. PICK head \in Conns : head = Head(connections) /\ head = connections[1]
  BY <1>0
<1>2. head \in Queued
  BY <1>0, <1>1 DEF Queued
<1>3. PICK info \in PushRequests :
      /\ info = eventsMap[head]
      /\ inProgress[head] = Absent /\ Pushing(head) = {}
  BY <1>1, <1>2 DEF QueueInv, TypeOK, OrderMatchesMap, OnePushPerConnection
<1>4. /\ eventsMap' = [eventsMap EXCEPT ![head] = NoReq]
      /\ inProgress' = [inProgress EXCEPT ![head] = NoReq]
      /\ job' = [job EXCEPT ![j] = [stage |-> "pushing", con |-> head, info |-> info]]
      /\ job[j] = Idle
  BY <1>1, <1>3 DEF Dequeue, DequeueOp
<1>5. Wants(NoReq) = {}
  BY DEF Wants
<1>6. \A c \in Conns \ {head} : Owed(c)' = Owed(c) /\ Current(c)' = Current(c)
  <2> SUFFICES ASSUME NEW c \in Conns \ {head}, NEW x
               PROVE  /\ x \in Owed(c)' <=> x \in Owed(c)
                      /\ x \in Current(c)' <=> x \in Current(c)
    OBVIOUS
  <2>1. eventsMap'[c] = eventsMap[c] /\ inProgress'[c] = inProgress[c]
    BY <1>4 DEF QueueInv, TypeOK
  <2>2. OwedAt(x, c)' <=> OwedAt(x, c)
    BY <1>0, <1>4, <2>1 DEF OwedAt, Idle
  <2>3. CurrentAt(x, c)' <=> CurrentAt(x, c)
    BY <1>0, <1>4 DEF CurrentAt, Idle
  <2> QED BY <2>2, <2>3, OwedMember
<1>7. Current(head) = {} /\ Current(head)' = Wants(info)
  <2>1. Current(head) = {}
    BY <1>3 DEF Current
  <2> SUFFICES ASSUME NEW x PROVE x \in Current(head)' <=> x \in Wants(info)
    BY <2>1
  <2>2. CurrentAt(x, head)' <=> x \in Wants(info)
    BY <1>0, <1>3, <1>4 DEF CurrentAt, Pushing
  <2> QED BY <2>2, OwedMember
<1>8. Owed(head) = Wants(info) \cup Owed(head)'
  <2> SUFFICES ASSUME NEW x PROVE x \in Owed(head) <=> x \in Wants(info) \cup Owed(head)'
    OBVIOUS
  <2>0. eventsMap'[head] = NoReq /\ inProgress'[head] = NoReq
    BY <1>4 DEF QueueInv, TypeOK
  <2>1. OwedAt(x, head)' <=> \E k \in Jobs : job[k].stage = "requeue" /\ job[k].con = head
                                            /\ x \in Wants(job[k].info)
    BY <1>0, <1>4, <1>5, <2>0 DEF OwedAt, Idle
  <2>2. OwedAt(x, head) <=> x \in Wants(info) \/ OwedAt(x, head)'
    BY <1>3, <2>1 DEF OwedAt
  <2> QED BY <2>2, OwedMember
<1>9. PICK kept : kept = Owed(head)'
  OBVIOUS
<1>10. owedMap' = [owedMap EXCEPT ![head] = kept]
  BY <1>6, <1>9 DEF owedMap
<1>11. currentMap' = [currentMap EXCEPT ![head] = Wants(info)]
  BY <1>6, <1>7 DEF currentMap
<1>12. owedMap[head] = Wants(info) \cup kept /\ currentMap[head] = {}
  BY <1>7, <1>8, <1>9 DEF owedMap, currentMap
<1>13. CASE Wants(info) # {}
  <2>1. Coalescer!Begin(head)
    BY <1>10, <1>11, <1>12, <1>13 DEF Coalescer!Begin
  <2> QED BY <2>1
<1>14. CASE Wants(info) = {}
  <2>1. \A c \in Conns : Owed(c)' = Owed(c) /\ Current(c)' = Current(c)
    BY <1>6, <1>7, <1>8, <1>14
  <2>2. owedMap' = owedMap /\ currentMap' = currentMap
    BY <2>1 DEF owedMap, currentMap
  <2> QED BY <2>2 DEF Coalescer!coalescerVars
<1> QED BY <1>13, <1>14

(* MarkDone ends the push; what gathered meanwhile moves from inProgress   *)
(* to the job that will enqueue it, and stays owed.                        *)
LEMMA MarkDoneRefines ==
    ASSUME QueueInv, NEW j \in Jobs, MarkDone(j)
    PROVE  (\E c \in Conns : Coalescer!End(c)) \/ UNCHANGED Coalescer!coalescerVars
<1>0. job[j] \in JobStates /\ job[j].stage = "pushing" /\ job \in [Jobs -> JobStates]
  BY DEF QueueInv, TypeOK, MarkDone
<1>1. PICK con \in Conns : con = job[j].con
  BY <1>0 DEF JobStates, Idle
<1>2. PICK info \in PushRequests \cup {NoReq} : info = inProgress[con] /\ info # Absent
  BY <1>0, <1>1 DEF QueueInv, TypeOK, OnePushPerConnection, Pushing
<1>3. /\ inProgress' = [inProgress EXCEPT ![con] = Absent]
      /\ UNCHANGED <<eventsMap, connections, consumer>>
  BY <1>1 DEF MarkDone, MarkDoneOp
<1>4. job' = [job EXCEPT ![j] = IF info = NoReq THEN Idle
                ELSE [stage |-> "requeue", con |-> con, info |-> info]]
  BY <1>1, <1>2 DEF MarkDone
<1>5. Wants(NoReq) = {}
  BY DEF Wants
<1>6. \A c \in Conns : Owed(c)' = Owed(c)
  <2> SUFFICES ASSUME NEW c \in Conns, NEW x PROVE x \in Owed(c)' <=> x \in Owed(c)
    OBVIOUS
  <2>1. CASE c = con
    <3>1. inProgress'[c] = Absent /\ eventsMap'[c] = eventsMap[c]
      BY <1>3, <2>1 DEF QueueInv, TypeOK
    <3>2. CASE info = NoReq
      <4>1. job'[j].stage = "idle" /\ \A k \in Jobs \ {j} : job'[k] = job[k]
        BY <1>0, <1>4, <3>2 DEF Idle
      <4>2. x \notin Wants(inProgress[c])
        BY <1>2, <1>5, <2>1, <3>2
      <4>3. OwedAt(x, c)' <=> OwedAt(x, c)
        BY <1>0, <3>1, <4>1, <4>2 DEF OwedAt
      <4> QED BY <4>3, OwedMember
    <3>3. CASE info # NoReq
      <4>1. job' = [job EXCEPT ![j] = [stage |-> "requeue", con |-> con, info |-> info]]
        BY <1>4, <3>3
      <4>2. job'[j].stage = "requeue" /\ job'[j].con = c /\ job'[j].info = info
        BY <1>0, <2>1, <4>1
      <4>3. \A k \in Jobs \ {j} : job'[k] = job[k]
        BY <1>0, <4>1
      <4>4. OwedAt(x, c)' <=> OwedAt(x, c)
        BY <1>0, <1>2, <2>1, <3>1, <4>2, <4>3 DEF OwedAt
      <4> QED BY <4>4, OwedMember
    <3> QED BY <3>2, <3>3
  <2>2. CASE c # con
    <3>1. inProgress'[c] = inProgress[c] /\ eventsMap'[c] = eventsMap[c]
      BY <1>3, <2>2 DEF QueueInv, TypeOK
    <3>2. \A k \in Jobs \ {j} : job'[k] = job[k]
      BY <1>0, <1>4
    <3>3. ~(job'[j].stage = "requeue" /\ job'[j].con = c)
      BY <1>0, <1>4, <2>2 DEF Idle
    <3>4. OwedAt(x, c)' <=> OwedAt(x, c)
      BY <1>0, <3>1, <3>2, <3>3 DEF OwedAt
    <3> QED BY <3>4, OwedMember
  <2> QED BY <2>1, <2>2
<1>7. job'[j].stage # "pushing" /\ \A k \in Jobs \ {j} : job'[k] = job[k]
  BY <1>0, <1>4 DEF Idle
<1>8. Current(con)' = {}
  <2>1. Pushing(con)' = {}
    BY <1>0, <1>1, <1>7 DEF Pushing, QueueInv, OnePushPerConnection
  <2> QED BY <2>1 DEF Current
<1>9. \A c \in Conns \ {con} : Current(c)' = Current(c)
  <2> SUFFICES ASSUME NEW c \in Conns \ {con}, NEW x
               PROVE  x \in Current(c)' <=> x \in Current(c)
    OBVIOUS
  <2>1. CurrentAt(x, c)' <=> CurrentAt(x, c)
    BY <1>0, <1>1, <1>7 DEF CurrentAt
  <2> QED BY <2>1, OwedMember
<1>10. owedMap' = owedMap
  BY <1>6 DEF owedMap
<1>11. currentMap' = [currentMap EXCEPT ![con] = {}]
  BY <1>8, <1>9 DEF currentMap
<1>12. CASE Current(con) # {}
  <2>1. currentMap[con] # {}
    BY <1>12 DEF currentMap
  <2>2. Coalescer!End(con)
    BY <1>10, <1>11, <2>1 DEF Coalescer!End
  <2> QED BY <2>2
<1>13. CASE Current(con) = {}
  <2>1. currentMap' = currentMap
    BY <1>8, <1>9, <1>13 DEF currentMap
  <2> QED BY <1>10, <2>1 DEF Coalescer!coalescerVars
<1> QED BY <1>12, <1>13

(* The second half of MarkDone only moves what is owed back to the queue. *)
LEMMA RequeueRefines ==
    ASSUME QueueInv, NEW j \in Jobs, Requeue(j)
    PROVE  UNCHANGED Coalescer!coalescerVars
<1>0. job[j] \in JobStates /\ job[j].stage = "requeue" /\ job \in [Jobs -> JobStates]
  BY DEF QueueInv, TypeOK, Requeue
<1>1. job[j].con \in Conns /\ job[j].info \in PushRequests
  BY <1>0 DEF JobStates, Idle
<1>2. EnqueueOp(job[j].con, job[j].info) /\ job' = [job EXCEPT ![j] = Idle]
  BY DEF Requeue
<1>3. job'[j].stage = "idle" /\ \A k \in Jobs \ {j} : job'[k] = job[k]
  BY <1>0, <1>2 DEF Idle
<1>4. \A c \in Conns : Owed(c)' = Owed(c)
  <2> SUFFICES ASSUME NEW c \in Conns, NEW x PROVE x \in Owed(c)' <=> x \in Owed(c)
    OBVIOUS
  <2>1. (x \in Wants(eventsMap'[c]) \/ (inProgress'[c] # Absent /\ x \in Wants(inProgress'[c])))
             <=> \/ x \in Wants(eventsMap[c])
                 \/ inProgress[c] # Absent /\ x \in Wants(inProgress[c])
                 \/ c = job[j].con /\ x \in Wants(job[j].info)
    BY <1>1, <1>2, EnqueueOwed
  <2>2. OwedAt(x, c)' <=> OwedAt(x, c)
    BY <1>0, <1>3, <2>1 DEF OwedAt
  <2> QED BY <2>2, OwedMember
<1>5. \A c \in Conns : Current(c)' = Current(c)
  <2> SUFFICES ASSUME NEW c \in Conns, NEW x PROVE x \in Current(c)' <=> x \in Current(c)
    OBVIOUS
  <2>1. CurrentAt(x, c)' <=> CurrentAt(x, c)
    BY <1>0, <1>3 DEF CurrentAt
  <2> QED BY <2>1, OwedMember
<1>6. owedMap' = owedMap /\ currentMap' = currentMap
  BY <1>4, <1>5 DEF owedMap, currentMap
<1> QED BY <1>6 DEF Coalescer!coalescerVars

(* Every step of the push queue is a step or a stutter of PushCoalescer. *)
LEMMA NextRefines == QueueInv /\ [Next]_vars => [Coalescer!Next]_(Coalescer!coalescerVars)
<1> SUFFICES ASSUME QueueInv, [Next]_vars
             PROVE  Coalescer!Next \/ UNCHANGED Coalescer!coalescerVars
  OBVIOUS
<1>1. CASE \E con \in Conns, req \in Requests : Enqueue(con, req)
  BY <1>1, EnqueueRefines, PushQueueAssumption DEF Coalescer!Next
<1>2. CASE \E d \in Dequeuers : Park(d)
  <2>1. UNCHANGED <<eventsMap, inProgress, job>>
    BY <1>2 DEF Park, queueVars
  <2>2. owedMap' = owedMap /\ currentMap' = currentMap
    BY <2>1 DEF owedMap, currentMap, Owed, Current, Held, Pushing
  <2> QED BY <2>2 DEF Coalescer!coalescerVars
<1>3. CASE \E d \in Dequeuers, j \in Jobs : Dequeue(d, j)
  BY <1>3, DequeueRefines DEF Coalescer!Next
<1>4. CASE \E j \in Jobs : MarkDone(j)
  BY <1>4, MarkDoneRefines DEF Coalescer!Next
<1>5. CASE \E j \in Jobs : Requeue(j)
  BY <1>5, RequeueRefines
<1>6. CASE UNCHANGED vars
  <2>1. owedMap' = owedMap /\ currentMap' = currentMap
    BY <1>6 DEF vars, queueVars, owedMap, currentMap, Owed, Current, Held, Pushing
  <2> QED BY <2>1 DEF Coalescer!coalescerVars
<1> QED
  BY <1>1, <1>2, <1>3, <1>4, <1>5, <1>6 DEF Next

(* The empty queue owes nothing to anybody. *)
LEMMA InitRefines == Init => Coalescer!Init
<1> SUFFICES ASSUME Init PROVE Coalescer!Init
  OBVIOUS
<1>1. Wants(NoReq) = {}
  BY DEF Wants
<1>2. \A c \in Conns : Owed(c) = {} /\ Current(c) = {}
  BY <1>1 DEF Init, InitQueue, Owed, Current, Held, Pushing, Idle
<1> QED BY <1>2 DEF Coalescer!Init, owedMap, currentMap

(* The PushQueue implements PushCoalescer: whatever the interleaving of    *)
(* Enqueue, Dequeue and the two halves of MarkDone, everything asked for a *)
(* connection stays owed until a push of that connection takes it, and a   *)
(* connection has one push at a time.                                      *)
THEOREM QueueImplementsCoalescer == Spec => ImplementsCoalescer
<1>1. Spec => Coalescer!Spec
  BY QueueInvariant, InitRefines, NextRefines, PTL DEF Spec, Coalescer!Spec
<1> QED BY <1>1 DEF ImplementsCoalescer

-----------------------------------------------------------------------------
(* The server's inductive invariant.  Its parts need each other: that doneFunc runs *)
(* once needs the tokens' owners, the stale configs need all of it.        *)

(* Every context that is around was published before: no more than global. *)
TypesInv ==
    /\ version \in 0..MaxVersion /\ global \in 0..version
    /\ debounced \in PushRequests \cup {NoReq}
    /\ building \in PushRequests \cup {NoReq}
    /\ pushAll \in [Goroutines -> [req : PushRequests \cup {NoReq},
                                   snapshot : BOOLEAN, todo : SUBSET Conns]]
    /\ tokens \in Nat /\ tokens <= PushThrottle
    /\ sender \in {"acquire", "dequeue"}
    /\ phase \in [Jobs -> {"idle", "offer", "pushing", "done", "release"}]
    /\ serving \in [Jobs -> Conns \cup {NoConn}]
    /\ stream \in [Conns -> {"new", "open", "closed"}]
    /\ handler \in [Conns -> {"none", "register", "first", "select", "push",
                              "failed", "returning", "gone"}]
    /\ adsClients \subseteq Conns
    /\ scope \in [Conns -> 0..global] /\ got \in [Conns -> 0..global]
    /\ newest \in [Conns -> 0..global] /\ excused \in [Conns -> BOOLEAN]

(* A Push under way is newer than what is published; an AdsPushAll has a   *)
(* request until it rests, and connections to do once it has copied them.  *)
PushAllInv ==
    /\ building # NoReq => building.push \in global..version
    /\ \A g \in Goroutines :
          /\ pushAll[g].req = NoReq => ~pushAll[g].snapshot
          /\ pushAll[g].snapshot <=> pushAll[g].todo # {}
          /\ pushAll[g].req # NoReq => pushAll[g].req.push <= global

(* Nothing newer than newest[c] is held for c. *)
HeldInv ==
    /\ \A c \in Conns :
          /\ eventsMap[c] # NoReq => eventsMap[c].push <= newest[c]
          /\ inProgress[c] \notin {NoReq, Absent} => inProgress[c].push <= newest[c]
    /\ \A j \in Jobs : job[j] # Idle => job[j].info.push <= newest[job[j].con]

ServingOf(c) == {j \in Jobs : serving[j] = c}

(* The goroutine of an event, its job in the queue and the handler that    *)
(* serves it agree.                                                        *)
JobInv ==
    /\ \A j \in Jobs :
          /\ phase[j] \in {"idle", "release"} => job[j] = Idle
          /\ phase[j] \in {"offer", "pushing"} => job[j].stage = "pushing"
          /\ phase[j] = "done" => job[j].stage \in {"pushing", "requeue"}
          /\ phase[j] \in {"idle", "offer"} => serving[j] = NoConn
          /\ phase[j] = "pushing" => serving[j] = job[j].con
    /\ \A c \in Conns :
          /\ handler[c] \in {"push", "failed"} => \E j \in Jobs : ServingOf(c) = {j}
          /\ handler[c] \notin {"push", "failed"} => ServingOf(c) = {}

(* Nothing is asked for a connection before addCon. *)
Known(c) == handler[c] \notin {"none", "register"}

LifeInv ==
    /\ \A c \in Conns : stream[c] = "new" <=> handler[c] = "none"
    /\ \A c \in adsClients : Known(c)
    /\ \A g \in Goroutines : \A c \in pushAll[g].todo : Known(c)
    /\ \A c \in Conns : (eventsMap[c] # NoReq \/ inProgress[c] # Absent) => Known(c)
    /\ \A j \in Jobs : job[j] # Idle => Known(job[j].con)

TokenInv == IsFiniteSet(Active) /\ TokensCountPushes

(* The global context was enqueued for c, or an AdsPushAll will do it. *)
DueFrom(g, c) ==
    /\ pushAll[g].req # NoReq /\ pushAll[g].req.push = global
    /\ ~pushAll[g].snapshot \/ c \in pushAll[g].todo

NewestDue ==
    \A c \in adsClients : newest[c] = global \/ \E g \in Goroutines : DueFrom(g, c)

Gathered(c) == inProgress[c] \notin {NoReq, Absent} /\ inProgress[c].push = newest[c]

(* Unless an older context was enqueued late, what is queued for c is the  *)
(* newest context it is due, and so is what is being pushed to it or what  *)
(* gathered meanwhile.                                                     *)
QueueFresh ==
    \A c \in Conns : ~excused[c] /\ eventsMap[c] # NoReq => eventsMap[c].push = newest[c]

PushFresh ==
    \A j \in Jobs : (phase[j] \in {"offer", "pushing"} /\ ~excused[job[j].con]) =>
        job[j].info.push = newest[job[j].con] \/ Gathered(job[j].con)

(* The newest context a connected proxy is due is in one of the places it  *)
(* passes through, or has arrived.                                         *)
RequeuedFor(j, c) == job[j].stage = "requeue" /\ job[j].con = c /\ job[j].info.push = newest[c]
OfferedTo(j, c) ==
    phase[j] \in {"offer", "pushing"} /\ job[j].con = c /\ job[j].info.push = newest[c]

Coming(c) ==
    \/ eventsMap[c] # NoReq
    \/ Gathered(c)
    \/ \E j \in Jobs : RequeuedFor(j, c) \/ OfferedTo(j, c)

Arrived(c) == newest[c] = (IF handler[c] = "first" THEN scope[c] ELSE got[c])

Waiting(c) ==
    ~excused[c] /\ stream[c] = "open" /\ handler[c] \in {"first", "select", "push"}

ClientsFresh == \A c \in adsClients : Waiting(c) => Coming(c) \/ Arrived(c)

ServerInv ==
    /\ QueueInv /\ TypesInv /\ PushAllInv /\ HeldInv /\ JobInv /\ LifeInv /\ TokenInv
    /\ NewestDue /\ QueueFresh /\ PushFresh /\ ClientsFresh

-----------------------------------------------------------------------------
(* Facts the steps below keep using.                                       *)

(* A request for a full push carries its context. *)
LEMMA FullPushFacts ==
    ASSUME NEW v \in 0..MaxVersion
    PROVE  FullPush(v) \in PushRequests /\ FullPush(v) # NoReq /\ FullPush(v).push = v
<1>1. v \in Contexts
  BY DiscoveryAssumption
<1>2. FullPush(v) \in PushRequests /\ FullPush(v).push = v
  BY <1>1 DEF FullPush, PushRequests
<1> QED BY <1>2, PushRequestAssumption

(* A context is a number. *)
LEMMA PushIsNat ==
    ASSUME NEW r \in PushRequests
    PROVE  r.push \in Nat /\ r # NoReq /\ r # Absent
  BY PushRequestAssumption, PushQueueAssumption DEF PushRequests

(* What a job that is not idle carries. *)
LEMMA JobFacts ==
    ASSUME ServerInv, NEW j \in Jobs, job[j] # Idle
    PROVE  /\ job[j].stage \in {"pushing", "requeue"} /\ job[j].con \in Conns
           /\ job[j].info \in PushRequests /\ job[j].info.push \in 0..global
           /\ job[j].info.push <= newest[job[j].con]
<1>1. /\ job[j].stage \in {"pushing", "requeue"} /\ job[j].con \in Conns
      /\ job[j].info \in PushRequests
  BY DEF ServerInv, QueueInv, TypeOK, JobStates
<1>2. /\ job[j].info.push <= newest[job[j].con] /\ newest[job[j].con] \in 0..global
      /\ global \in Nat
  BY <1>1 DEF ServerInv, HeldInv, TypesInv
<1> QED BY <1>1, <1>2, PushIsNat

(* What the handler that runs a push works on. *)
LEMMA PushingFacts ==
    ASSUME ServerInv, NEW j \in Jobs, phase[j] \in {"offer", "pushing"}
    PROVE  /\ job[j] # Idle /\ job[j].stage = "pushing"
           /\ job[j].con \in Conns /\ job[j].info.push \in 0..global
           /\ inProgress[job[j].con] # Absent /\ eventsMap[job[j].con] = NoReq
           /\ \A k \in Jobs : job[k].stage = "pushing" /\ job[k].con = job[j].con => k = j
           /\ phase[j] = "pushing" =>
                /\ serving[j] = job[j].con
                /\ handler[job[j].con] \in {"push", "failed"}
<1>1. job[j].stage = "pushing"
  BY DEF ServerInv, JobInv
<1>2. job[j] # Idle
  BY <1>1 DEF Idle
<1>3. job[j].con \in Conns /\ job[j].info.push \in 0..global
  BY <1>2, JobFacts
<1>4. /\ inProgress[job[j].con] # Absent /\ eventsMap[job[j].con] = NoReq
      /\ \A k \in Jobs : job[k].stage = "pushing" /\ job[k].con = job[j].con => k = j
  BY <1>1, <1>3 DEF ServerInv, QueueInv, OnePushPerConnection, Pushing
<1>5. ASSUME phase[j] = "pushing"
      PROVE  serving[j] = job[j].con /\ handler[job[j].con] \in {"push", "failed"}
  BY <1>3, <1>5 DEF ServerInv, JobInv, ServingOf
<1> QED BY <1>1, <1>2, <1>3, <1>4, <1>5

(* The request an AdsPushAll enqueues. *)
LEMMA EnqueueClientFacts ==
    ASSUME ServerInv, NEW g \in Goroutines, NEW c \in Conns, EnqueueClient(g, c)
    PROVE  /\ pushAll[g].req \in PushRequests /\ pushAll[g].req.push \in 0..global
           /\ EnqueueOp(c, pushAll[g].req) /\ job' = job
           /\ c \in pushAll[g].todo /\ Known(c)
<1>1. c \in pushAll[g].todo /\ EnqueueOp(c, pushAll[g].req) /\ job' = job
  BY DEF EnqueueClient, Enqueue
<1>2. pushAll[g].req # NoReq
  BY <1>1 DEF ServerInv, PushAllInv
<1>3. pushAll[g].req \in PushRequests
  BY <1>2 DEF ServerInv, TypesInv
<1>4. pushAll[g].req.push <= global /\ global \in Nat
  BY <1>2 DEF ServerInv, PushAllInv, TypesInv
<1>5. Known(c)
  BY <1>1 DEF ServerInv, LifeInv
<1> QED BY <1>1, <1>3, <1>4, <1>5, PushIsNat

(* What AdsPushAll and ProxyUpdate make of the goroutine g. *)
PushAllBecomes(g, req, snapshot, todo) ==
    /\ pushAll' \in [Goroutines -> [req : PushRequests \cup {NoReq},
                                    snapshot : BOOLEAN, todo : SUBSET Conns]]
    /\ pushAll'[g].req = req /\ pushAll'[g].snapshot = snapshot /\ pushAll'[g].todo = todo
    /\ \A h \in Goroutines \ {g} : pushAll'[h] = pushAll[h]

(* Push starts an AdsPushAll. *)
LEMMA PushPublishFacts ==
    ASSUME ServerInv, NEW g \in Goroutines, PushPublish(g)
    PROVE  PushAllBecomes(g, building, FALSE, {}) /\ building \in PushRequests
<1> USE DEF ServerInv, TypesInv
<1>1. building \in PushRequests
  BY DEF PushPublish
<1>2. pushAll' = [pushAll EXCEPT ![g] = [Resting EXCEPT !.req = building]]
  BY DEF PushPublish
<1>3. Resting \in [req : PushRequests \cup {NoReq}, snapshot : BOOLEAN, todo : SUBSET Conns]
  BY DEF Resting
<1>4. /\ [Resting EXCEPT !.req = building].req = building
      /\ [Resting EXCEPT !.req = building].snapshot = FALSE
      /\ [Resting EXCEPT !.req = building].todo = {}
  BY DEF Resting
<1>5. [Resting EXCEPT !.req = building] \in
         [req : PushRequests \cup {NoReq}, snapshot : BOOLEAN, todo : SUBSET Conns]
  BY <1>1, <1>3
<1> HIDE DEF TypesInv
<1> QED BY <1>1, <1>2, <1>4, <1>5 DEF TypesInv, PushAllBecomes

(* startPush copies the connections there are. *)
LEMMA StartPushFacts ==
    ASSUME ServerInv, NEW g \in Goroutines, StartPush(g)
    PROVE  IF adsClients = {} THEN PushAllBecomes(g, NoReq, FALSE, {})
           ELSE PushAllBecomes(g, pushAll[g].req, TRUE, adsClients)
<1> USE DEF ServerInv, TypesInv
<1>1. CASE adsClients = {}
  <2>1. pushAll' = [pushAll EXCEPT ![g] = Resting]
    BY <1>1 DEF StartPush
  <2> QED BY <1>1, <2>1 DEF Resting, PushAllBecomes
<1>2. CASE adsClients # {}
  <2>1. pushAll' = [pushAll EXCEPT ![g] = [pushAll[g] EXCEPT !.snapshot = TRUE, !.todo = adsClients]]
    BY <1>2 DEF StartPush
  <2> QED BY <1>2, <2>1 DEF PushAllBecomes
<1> QED BY <1>1, <1>2

(* ProxyUpdate asks for one connection. *)
LEMMA ProxyUpdateFacts ==
    ASSUME ServerInv, NEW g \in Goroutines, NEW c \in Conns, ProxyUpdate(g, c)
    PROVE  PushAllBecomes(g, FullPush(global), TRUE, {c}) /\ FullPush(global) \in PushRequests
<1> USE DEF ServerInv, TypesInv
<1>1. global \in 0..MaxVersion
  BY DiscoveryAssumption
<1>2. FullPush(global) \in PushRequests
  BY <1>1, FullPushFacts
<1> QED BY <1>2 DEF ProxyUpdate, PushAllBecomes

(* startPush has enqueued the push for one connection. *)
LEMMA EnqueueClientDone ==
    ASSUME ServerInv, NEW g \in Goroutines, NEW c \in Conns, EnqueueClient(g, c)
    PROVE  IF pushAll[g].todo = {c} THEN PushAllBecomes(g, NoReq, FALSE, {})
           ELSE PushAllBecomes(g, pushAll[g].req, TRUE, pushAll[g].todo \ {c})
<1> USE DEF ServerInv, TypesInv
<1>1. CASE pushAll[g].todo = {c}
  <2>1. pushAll' = [pushAll EXCEPT ![g] = Resting]
    BY <1>1 DEF EnqueueClient
  <2> QED BY <1>1, <2>1 DEF Resting, PushAllBecomes
<1>2. CASE pushAll[g].todo # {c}
  <2>1. pushAll' = [pushAll EXCEPT ![g] = [pushAll[g] EXCEPT !.todo = pushAll[g].todo \ {c}]]
    BY <1>2 DEF EnqueueClient
  <2>2. pushAll[g].snapshot = TRUE
    BY EnqueueClientFacts DEF PushAllInv
  <2> QED BY <1>2, <2>1, <2>2 DEF PushAllBecomes
<1> QED BY <1>1, <1>2

-----------------------------------------------------------------------------
(* One lemma for each part of the invariant, one step for each action that *)
(* can disturb it.                                                         *)

(* The queue's own invariant: the server only uses the queue's operations. *)
LEMMA ServerQueueStep == ServerInv /\ [ServerNext]_serverVars => QueueInv'
<1> SUFFICES ASSUME ServerInv, [ServerNext]_serverVars PROVE QueueInv'
  OBVIOUS
<1>0. QueueInv
  BY DEF ServerInv
<1>1. ASSUME NEW g \in Goroutines, NEW c \in Conns, EnqueueClient(g, c) PROVE QueueInv'
  BY <1>0, <1>1, EnqueueClientFacts, EnqueueStep DEF EnqueueClient
<1>2. ASSUME NEW d \in Dequeuers, SenderWaits(d) PROVE QueueInv'
  BY <1>0, <1>2, ParkStep DEF SenderWaits
<1>3. ASSUME NEW d \in Dequeuers, NEW j \in Jobs, SenderDequeues(d, j) PROVE QueueInv'
  BY <1>0, <1>3, DequeueStep DEF SenderDequeues
<1>4. ASSUME NEW j \in Jobs, DoneMarks(j) PROVE QueueInv'
  BY <1>0, <1>4, MarkDoneStep DEF DoneMarks
<1>5. ASSUME NEW j \in Jobs, DoneRequeues(j) PROVE QueueInv'
  BY <1>0, <1>5, RequeueStep DEF DoneRequeues
<1>6. ASSUME UNCHANGED vars PROVE QueueInv'
  BY <1>0, <1>6 DEF vars, queueVars, QueueInv, TypeOK, OrderMatchesMap, OnePushPerConnection,
                    NoLostWakeup, Queued, Pushing
<1>7. ASSUME PushInitContext \/ PushEnds \/ \E g \in Goroutines : StartPush(g) PROVE UNCHANGED vars
  BY <1>7 DEF PushInitContext, PushEnds, PushFails, PushPublish, StartPush
<1>8. ASSUME \E j \in Jobs : \/ OfferTaken(j) \/ OfferAbandoned(j) \/ DoneReleases(j)
                             \/ PushSucceeds(j) \/ PushSkips(j) \/ PushErrs(j)
      PROVE  UNCHANGED vars
  BY <1>8 DEF OfferTaken, OfferAbandoned, DoneReleases, PushSucceeds, PushSkips, PushErrs
<1>9. ASSUME AcquireToken \/ Environment \/ \E c \in Conns : HandlerRuns(c) PROVE UNCHANGED vars
  BY <1>9 DEF AcquireToken, Environment, HandlerRuns, ConfigChange, ProxyUpdate, InitProxy,
              Disconnect, AddCon, AnswerRequest, HandlerReturns
<1> QED
  BY <1>1, <1>2, <1>3, <1>4, <1>5, <1>6, <1>7, <1>8, <1>9
  DEF ServerNext, PushAllRuns, SenderRuns, JobRuns, serverVars

(* A push that is not over holds a token. *)
LEMMA ActiveHoldsToken ==
    ASSUME ServerInv, NEW j \in Jobs, phase[j] # "idle"
    PROVE  tokens >= 1
<1>1. IsFiniteSet(Active) /\ j \in Active
  BY DEF ServerInv, TokenInv, Active
<1>2. Cardinality(Active) \in Nat /\ Cardinality(Active) # 0
  BY <1>1, FS_CardinalityType, FS_EmptySet
<1> QED BY <1>2 DEF ServerInv, TokenInv, TokensCountPushes

(* Types, and that no context is newer than the published one. *)
LEMMA TypesStep == ServerInv /\ [ServerNext]_serverVars => TypesInv'
<1> SUFFICES ASSUME ServerInv, [ServerNext]_serverVars PROVE TypesInv'
  OBVIOUS
<1> USE DEF pushVars, sendVars, conVars, ghostVars
<1>0. TypesInv /\ PushAllInv /\ JobInv
  BY DEF ServerInv
<1>1. ASSUME ConfigChange PROVE TypesInv'
  <2>1. FullPush(0) \in PushRequests
    BY FullPushFacts, DiscoveryAssumption
  <2>2. debounced' \in PushRequests
    BY <1>0, <1>1, <2>1, MergeType DEF ConfigChange, TypesInv
  <2> QED BY <1>0, <1>1, <2>2, DiscoveryAssumption DEF ConfigChange, TypesInv
<1>2. ASSUME PushInitContext PROVE TypesInv'
  <2>1. debounced \in PushRequests /\ version \in Contexts
    BY <1>0, <1>2, DiscoveryAssumption DEF PushInitContext, TypesInv
  <2>2. building' \in PushRequests
    BY <1>2, <2>1 DEF PushInitContext, PushRequests
  <2> QED BY <1>0, <1>2, <2>2 DEF PushInitContext, TypesInv
<1>3. ASSUME PushFails PROVE TypesInv'
  BY <1>0, <1>3 DEF PushFails, TypesInv
<1>4. ASSUME NEW g \in Goroutines, PushPublish(g) PROVE TypesInv'
  <2>1. building.push \in global..version /\ global' = building.push /\ version' = version
    BY <1>0, <1>4 DEF PushPublish, PushAllInv
  <2>2. 0..global \subseteq 0..global' /\ global' \in 0..version'
    BY <1>0, <2>1 DEF TypesInv
  <2>3. PushAllBecomes(g, building, FALSE, {})
    BY <1>4, PushPublishFacts
  <2> QED BY <1>0, <1>4, <2>1, <2>2, <2>3 DEF PushPublish, TypesInv, PushAllBecomes
<1>5. ASSUME NEW g \in Goroutines, StartPush(g) PROVE TypesInv'
  BY <1>0, <1>5, StartPushFacts DEF StartPush, TypesInv, PushAllBecomes
<1>6. ASSUME NEW g \in Goroutines, NEW c \in Conns, ProxyUpdate(g, c) PROVE TypesInv'
  BY <1>0, <1>6, ProxyUpdateFacts DEF ProxyUpdate, TypesInv, PushAllBecomes
<1>7. ASSUME NEW g \in Goroutines, NEW c \in Conns, EnqueueClient(g, c) PROVE TypesInv'
  <2>1. pushAll[g].req.push \in 0..global
    BY <1>7, EnqueueClientFacts
  <2>2. newest' \in [Conns -> 0..global] /\ excused' \in [Conns -> BOOLEAN]
    BY <1>0, <1>7, <2>1 DEF EnqueueClient, Record, TypesInv
  <2> QED BY <1>0, <1>7, <2>2, EnqueueClientDone DEF EnqueueClient, TypesInv, PushAllBecomes
<1>8. ASSUME AcquireToken PROVE TypesInv'
  BY <1>0, <1>8, DiscoveryAssumption DEF AcquireToken, TypesInv
<1>9. ASSUME NEW d \in Dequeuers, SenderWaits(d) PROVE TypesInv'
  BY <1>0, <1>9 DEF SenderWaits, TypesInv
<1>10. ASSUME NEW d \in Dequeuers, NEW j \in Jobs, SenderDequeues(d, j) PROVE TypesInv'
  BY <1>0, <1>10 DEF SenderDequeues, TypesInv
<1>11. ASSUME NEW j \in Jobs, OfferTaken(j) PROVE TypesInv'
  <2>1. job[j].con \in Conns
    BY <1>11, PushingFacts DEF OfferTaken
  <2> QED BY <1>0, <1>11, <2>1 DEF OfferTaken, TypesInv
<1>12. ASSUME NEW j \in Jobs, OfferAbandoned(j) PROVE TypesInv'
  BY <1>0, <1>12 DEF OfferAbandoned, TypesInv
<1>13. ASSUME NEW j \in Jobs, DoneMarks(j) PROVE TypesInv'
  BY <1>0, <1>13 DEF DoneMarks, TypesInv
<1>14. ASSUME NEW j \in Jobs, DoneRequeues(j) PROVE TypesInv'
  <2>1. job[j].info.push \in 0..global /\ job[j].con \in Conns
    BY <1>14, JobFacts DEF DoneRequeues, Requeue, Idle
  <2>2. newest' \in [Conns -> 0..global] /\ excused' \in [Conns -> BOOLEAN]
    BY <1>0, <1>14, <2>1 DEF DoneRequeues, Record, TypesInv
  <2> QED BY <1>0, <1>14, <2>2 DEF DoneRequeues, TypesInv
<1>15. ASSUME NEW j \in Jobs, DoneReleases(j) PROVE TypesInv'
  <2>1. tokens >= 1
    BY <1>15, ActiveHoldsToken DEF DoneReleases
  <2>2. tokens' \in Nat /\ tokens' <= PushThrottle
    BY <1>0, <1>15, <2>1, DiscoveryAssumption DEF DoneReleases, TypesInv
  <2> QED BY <1>0, <1>15, <2>2 DEF DoneReleases, TypesInv, AfterPush
<1>16. ASSUME NEW j \in Jobs, PushSucceeds(j) PROVE TypesInv'
  <2>1. serving[j] \in Conns /\ job[j].info.push \in 0..global
    BY <1>16, PushingFacts DEF PushSucceeds
  <2> QED BY <1>0, <1>16, <2>1 DEF PushSucceeds, TypesInv
<1>17. ASSUME NEW j \in Jobs, PushSkips(j) PROVE TypesInv'
  BY <1>0, <1>17 DEF PushSkips, TypesInv
<1>18. ASSUME NEW j \in Jobs, PushErrs(j) PROVE TypesInv'
  <2>1. serving[j] \in Conns /\ job[j].info.push \in 0..global
    BY <1>18, PushingFacts DEF PushErrs
  <2> QED BY <1>0, <1>18, <2>1 DEF PushErrs, TypesInv
<1>19. ASSUME NEW c \in Conns, InitProxy(c) PROVE TypesInv'
  BY <1>0, <1>19 DEF InitProxy, TypesInv
<1>20. ASSUME NEW c \in Conns, AddCon(c) PROVE TypesInv'
  BY <1>0, <1>20 DEF AddCon, TypesInv
<1>21. ASSUME NEW c \in Conns, AnswerRequest(c) PROVE TypesInv'
  BY <1>0, <1>21 DEF AnswerRequest, TypesInv
<1>22. ASSUME NEW c \in Conns, Disconnect(c) PROVE TypesInv'
  BY <1>0, <1>22 DEF Disconnect, TypesInv
<1>23. ASSUME NEW c \in Conns, HandlerReturns(c) PROVE TypesInv'
  BY <1>0, <1>23 DEF HandlerReturns, TypesInv
<1>24. ASSUME UNCHANGED serverVars PROVE TypesInv'
  BY <1>0, <1>24 DEF serverVars, TypesInv
<1> QED
  BY <1>1, <1>2, <1>3, <1>4, <1>5, <1>6, <1>7, <1>8, <1>9, <1>10, <1>11, <1>12, <1>13, <1>14,
     <1>15, <1>16, <1>17, <1>18, <1>19, <1>20, <1>21, <1>22, <1>23, <1>24
  DEF ServerNext, PushEnds, PushAllRuns, SenderRuns, JobRuns, HandlerRuns, Environment

(* The order of the contexts of Push and AdsPushAll. *)
LEMMA PushAllStep == ServerInv /\ [ServerNext]_serverVars => PushAllInv'
<1> SUFFICES ASSUME ServerInv, [ServerNext]_serverVars PROVE PushAllInv'
  OBVIOUS
<1>0. TypesInv /\ PushAllInv
  BY DEF ServerInv
<1>1. ASSUME ConfigChange PROVE PushAllInv'
  BY <1>0, <1>1 DEF ConfigChange, PushAllInv, TypesInv
<1>2. ASSUME PushInitContext PROVE PushAllInv'
  <2>1. building'.push = version
    BY <1>0, <1>2 DEF PushInitContext, TypesInv, PushRequests
  <2> QED BY <1>0, <1>2, <2>1 DEF PushInitContext, PushAllInv, TypesInv
<1>3. ASSUME PushFails PROVE PushAllInv'
  BY <1>0, <1>3 DEF PushFails, PushAllInv
<1>4. ASSUME NEW g \in Goroutines, PushPublish(g) PROVE PushAllInv'
  <2>1. /\ building.push \in global..version /\ global' = building.push
        /\ building' = NoReq /\ global \in Nat /\ version \in Nat
    BY <1>0, <1>4 DEF PushPublish, PushAllInv, TypesInv
  <2>2. PushAllBecomes(g, building, FALSE, {}) /\ building # NoReq
    BY <1>4, PushPublishFacts DEF PushPublish
  <2>3. ASSUME NEW h \in Goroutines, pushAll[h].req # NoReq
        PROVE  pushAll[h].req.push <= global'
    <3>1. pushAll[h].req.push <= global /\ pushAll[h].req.push \in Nat
      BY <1>0, <2>3, PushIsNat DEF PushAllInv, TypesInv
    <3> QED BY <2>1, <3>1
  <2> QED BY <1>0, <2>1, <2>2, <2>3 DEF PushAllInv, PushAllBecomes
<1>5. ASSUME NEW g \in Goroutines, StartPush(g) PROVE PushAllInv'
  <2>1. /\ pushAll[g].req # NoReq /\ pushAll[g].req.push <= global
        /\ UNCHANGED <<building, global, version>>
    BY <1>0, <1>5 DEF StartPush, PushAllInv
  <2> QED BY <1>0, <1>5, <2>1, StartPushFacts DEF PushAllInv, PushAllBecomes
<1>6. ASSUME NEW g \in Goroutines, NEW c \in Conns, ProxyUpdate(g, c) PROVE PushAllInv'
  <2>1. global \in 0..MaxVersion /\ UNCHANGED <<building, global, version>>
    BY <1>0, <1>6, DiscoveryAssumption DEF ProxyUpdate, TypesInv
  <2>2. FullPush(global).push <= global /\ FullPush(global) # NoReq
    BY <2>1, FullPushFacts
  <2> QED BY <1>0, <1>6, <2>1, <2>2, ProxyUpdateFacts DEF PushAllInv, PushAllBecomes
<1>7. ASSUME NEW g \in Goroutines, NEW c \in Conns, EnqueueClient(g, c) PROVE PushAllInv'
  <2>1. /\ pushAll[g].req # NoReq /\ pushAll[g].req.push <= global
        /\ c \in pushAll[g].todo /\ UNCHANGED <<building, global, version>>
    <3>1. pushAll[g].req \in PushRequests /\ c \in pushAll[g].todo
      BY <1>7, EnqueueClientFacts
    <3> QED BY <1>0, <1>7, <3>1, PushIsNat DEF EnqueueClient, PushAllInv
  <2>2. CASE pushAll[g].todo = {c}
    <3>1. PushAllBecomes(g, NoReq, FALSE, {})
      BY <1>7, <2>2, EnqueueClientDone
    <3> QED BY <1>0, <2>1, <3>1 DEF PushAllInv, PushAllBecomes
  <2>3. CASE pushAll[g].todo # {c}
    <3>1. PushAllBecomes(g, pushAll[g].req, TRUE, pushAll[g].todo \ {c})
      BY <1>7, <2>3, EnqueueClientDone
    <3> QED BY <1>0, <2>1, <2>3, <3>1 DEF PushAllInv, PushAllBecomes
  <2> QED BY <2>2, <2>3
<1>8. ASSUME UNCHANGED pushVars PROVE PushAllInv'
  BY <1>0, <1>8 DEF pushVars, PushAllInv
<1>9. ASSUME SenderRuns \/ \E j \in Jobs : JobRuns(j) PROVE UNCHANGED pushVars
  BY <1>9 DEF SenderRuns, AcquireToken, SenderWaits, SenderDequeues, JobRuns, OfferTaken,
              OfferAbandoned, PushSucceeds, PushSkips, PushErrs, DoneMarks, DoneRequeues,
              DoneReleases
<1>10. ASSUME \E c \in Conns : HandlerRuns(c) \/ InitProxy(c) \/ Disconnect(c)
       PROVE  UNCHANGED pushVars
  BY <1>10 DEF HandlerRuns, AddCon, AnswerRequest, HandlerReturns, InitProxy, Disconnect
<1> QED
  BY <1>1, <1>2, <1>3, <1>4, <1>5, <1>6, <1>7, <1>8, <1>9, <1>10
  DEF ServerNext, PushEnds, PushAllRuns, Environment, serverVars

(* What Enqueue and Record do together: unless con is excused, what is     *)
(* held for it afterwards has the newest context it is due.                *)
LEMMA EnqueueRecords ==
    ASSUME ServerInv, NEW con \in Conns, NEW r \in PushRequests, r.push \in 0..global,
           EnqueueOp(con, r), Record(con, r.push)
    PROVE  /\ \A c \in Conns \ {con} :
                 /\ eventsMap'[c] = eventsMap[c] /\ inProgress'[c] = inProgress[c]
                 /\ newest'[c] = newest[c] /\ excused'[c] = excused[c]
           /\ newest'[con] \in 0..global /\ newest'[con] >= newest[con]
           /\ newest'[con] >= r.push /\ (newest'[con] = r.push \/ excused'[con])
           /\ \/ /\ inProgress[con] # Absent
                 /\ inProgress'[con] \in PushRequests /\ inProgress'[con].push = r.push
                 /\ eventsMap[con] = NoReq /\ eventsMap'[con] = NoReq
              \/ /\ inProgress[con] = Absent /\ inProgress'[con] = Absent
                 /\ eventsMap'[con] \in PushRequests /\ eventsMap'[con].push = r.push
<1>1. QueueInv /\ TypesInv
  BY DEF ServerInv
<1>2. \A c \in Conns \ {con} : newest'[c] = newest[c] /\ excused'[c] = excused[c]
  BY <1>1 DEF Record, TypesInv
<1>3. /\ newest'[con] \in 0..global /\ newest'[con] >= newest[con]
      /\ newest'[con] >= r.push /\ (newest'[con] = r.push \/ excused'[con])
  <2>1. newest[con] \in Nat /\ global \in Nat /\ r.push \in Nat
    BY <1>1 DEF TypesInv
  <2>2. newest'[con] = IF r.push > newest[con] THEN r.push ELSE newest[con]
    BY <1>1 DEF Record, TypesInv
  <2>3. r.push < newest[con] => excused'[con]
    BY <1>1 DEF Record, TypesInv
  <2>4. newest[con] <= global /\ r.push <= global
    BY <1>1, <2>1 DEF TypesInv
  <2> QED BY <2>1, <2>2, <2>3, <2>4
<1> QED BY <1>1, <1>2, <1>3, EnqueueHeld

(* Nothing newer than what a connection is due is held for it. *)
LEMMA HeldStep == ServerInv /\ [ServerNext]_serverVars => HeldInv'
<1> SUFFICES ASSUME ServerInv, [ServerNext]_serverVars PROVE HeldInv'
  OBVIOUS
<1>0. TypesInv /\ HeldInv /\ LifeInv /\ QueueInv /\ TypeOK
  BY DEF ServerInv, QueueInv
<1>1. ASSUME UNCHANGED <<vars, newest>> PROVE HeldInv'
  BY <1>0, <1>1 DEF HeldInv, vars, queueVars
<1>2. ASSUME NEW con \in Conns, NEW r \in PushRequests, r.push \in 0..global,
             EnqueueOp(con, r), Record(con, r.push),
             \A j \in Jobs : job'[j] # Idle => job'[j] = job[j]
      PROVE  HeldInv'
  <2>1. \A c \in Conns : newest[c] \in Nat /\ newest'[c] \in Nat /\ newest'[c] >= newest[c]
    BY <1>0, <1>2, EnqueueRecords DEF TypesInv
  <2>2. ASSUME NEW c \in Conns
        PROVE  /\ eventsMap'[c] # NoReq => eventsMap'[c].push <= newest'[c]
               /\ inProgress'[c] \notin {NoReq, Absent} => inProgress'[c].push <= newest'[c]
    <3>1. CASE c = con
      BY <1>2, <2>1, <3>1, EnqueueRecords
    <3>2. CASE c # con
      BY <1>0, <1>2, <3>2, EnqueueRecords DEF HeldInv
    <3> QED BY <3>1, <3>2
  <2>3. ASSUME NEW j \in Jobs, job'[j] # Idle PROVE job'[j].info.push <= newest'[job'[j].con]
    <3>1. /\ job'[j] = job[j] /\ job[j].con \in Conns /\ job[j].info.push <= newest[job[j].con]
          /\ job[j].info.push \in Nat
      BY <1>0, <1>2, <2>3, JobFacts DEF TypesInv
    <3> QED BY <2>1, <3>1
  <2> QED BY <2>2, <2>3 DEF HeldInv
<1>3. ASSUME NEW g \in Goroutines, NEW c \in Conns, EnqueueClient(g, c) PROVE HeldInv'
  <2>1. Record(c, pushAll[g].req.push)
    BY <1>3 DEF EnqueueClient
  <2> QED BY <1>2, <1>3, <2>1, EnqueueClientFacts
<1>4. ASSUME NEW d \in Dequeuers, SenderWaits(d) PROVE HeldInv'
  BY <1>0, <1>4 DEF SenderWaits, Park, HeldInv, queueVars, ghostVars
<1>5. ASSUME NEW d \in Dequeuers, NEW j \in Jobs, SenderDequeues(d, j) PROVE HeldInv'
  <2>1. PICK head \in Conns : head = Head(connections) /\ head \in Queued
    BY <1>0, <1>5 DEF SenderDequeues, Dequeue, DequeueOp, TypeOK, Queued
  <2>2. eventsMap[head] # NoReq /\ eventsMap[head].push <= newest[head]
    BY <1>0, <2>1 DEF QueueInv, OrderMatchesMap, HeldInv
  <2>3. /\ eventsMap' = [eventsMap EXCEPT ![head] = NoReq]
        /\ inProgress' = [inProgress EXCEPT ![head] = NoReq]
        /\ job' = [job EXCEPT ![j] =
                     [stage |-> "pushing", con |-> head, info |-> eventsMap[head]]]
        /\ newest' = newest
    BY <1>5, <2>1 DEF SenderDequeues, Dequeue, DequeueOp, ghostVars
  <2> QED BY <1>0, <2>2, <2>3 DEF HeldInv, TypeOK
<1>6. ASSUME NEW j \in Jobs, DoneMarks(j) PROVE HeldInv'
  <2>1. job[j] # Idle /\ job[j].con \in Conns
    BY <1>6, JobFacts DEF DoneMarks, MarkDone, Idle
  <2>2. PICK con \in Conns : con = job[j].con
    BY <2>1
  <2>3. /\ UNCHANGED <<eventsMap, newest>>
        /\ inProgress' = [inProgress EXCEPT ![con] = Absent]
        /\ job' = [job EXCEPT ![j] = IF inProgress[con] \in {NoReq, Absent} THEN Idle
                     ELSE [stage |-> "requeue", con |-> con, info |-> inProgress[con]]]
    BY <1>6, <2>2 DEF DoneMarks, MarkDone, MarkDoneOp, ghostVars
  <2>4. \A k \in Jobs : job'[k] # Idle => job'[k].info.push <= newest[job'[k].con]
    <3>1. CASE inProgress[con] \in {NoReq, Absent}
      BY <1>0, <2>3, <3>1 DEF HeldInv, TypeOK
    <3>2. CASE inProgress[con] \notin {NoReq, Absent}
      <4>1. job' = [job EXCEPT ![j] = [stage |-> "requeue", con |-> con, info |-> inProgress[con]]]
        BY <2>3, <3>2
      <4> QED BY <1>0, <3>2, <4>1 DEF HeldInv, TypeOK
    <3> QED BY <3>1, <3>2
  <2> QED BY <1>0, <2>3, <2>4 DEF HeldInv, TypeOK
<1>7. ASSUME NEW j \in Jobs, DoneRequeues(j) PROVE HeldInv'
  <2>1. /\ job[j] # Idle /\ EnqueueOp(job[j].con, job[j].info) /\ job' = [job EXCEPT ![j] = Idle]
        /\ Record(job[j].con, job[j].info.push)
    BY <1>7 DEF DoneRequeues, Requeue, Idle
  <2>2. /\ job[j].con \in Conns /\ job[j].info \in PushRequests /\ job[j].info.push \in 0..global
    BY <2>1, JobFacts
  <2>3. \A k \in Jobs : job'[k] # Idle => job'[k] = job[k]
    BY <1>0, <2>1 DEF TypeOK
  <2> QED BY <1>2, <2>1, <2>2, <2>3
<1>8. ASSUME NEW c \in Conns, AddCon(c) PROVE HeldInv'
  <2>1. newest' = [newest EXCEPT ![c] = global] /\ UNCHANGED vars /\ ~Known(c)
    BY <1>8 DEF AddCon, Known
  <2>2. \A j \in Jobs : job[j] # Idle => job[j].con \in Conns \ {c}
    BY <1>0, <2>1, JobFacts DEF LifeInv
  <2>3. eventsMap[c] = NoReq /\ inProgress[c] = Absent
    BY <1>0, <2>1 DEF LifeInv
  <2> QED BY <1>0, <2>1, <2>2, <2>3 DEF HeldInv, TypesInv, vars, queueVars
<1>9. ASSUME PushInitContext \/ PushEnds \/ \E g \in Goroutines : StartPush(g)
      PROVE  UNCHANGED <<vars, newest>>
  BY <1>9 DEF PushInitContext, PushEnds, PushFails, PushPublish, StartPush, ghostVars
<1>10. ASSUME \E j \in Jobs : \/ OfferTaken(j) \/ OfferAbandoned(j) \/ DoneReleases(j)
                              \/ PushSucceeds(j) \/ PushSkips(j) \/ PushErrs(j)
       PROVE  UNCHANGED <<vars, newest>>
  BY <1>10 DEF OfferTaken, OfferAbandoned, DoneReleases, PushSucceeds, PushSkips, PushErrs,
               ghostVars
<1>11. ASSUME AcquireToken \/ Environment \/ \E c \in Conns : AnswerRequest(c) \/ HandlerReturns(c)
       PROVE  UNCHANGED <<vars, newest>>
  BY <1>11 DEF AcquireToken, Environment, ConfigChange, ProxyUpdate, InitProxy, Disconnect,
               AnswerRequest, HandlerReturns, ghostVars
<1>12. ASSUME UNCHANGED serverVars PROVE UNCHANGED <<vars, newest>>
  BY <1>12 DEF serverVars, ghostVars
<1> QED
  BY <1>1, <1>3, <1>4, <1>5, <1>6, <1>7, <1>8, <1>9, <1>10, <1>11, <1>12
  DEF ServerNext, PushAllRuns, SenderRuns, JobRuns, HandlerRuns

(* Job, goroutine and handler of an event agree. *)
LEMMA JobStep == ServerInv /\ [ServerNext]_serverVars => JobInv'
<1> SUFFICES ASSUME ServerInv, [ServerNext]_serverVars PROVE JobInv'
  OBVIOUS
<1>0. TypesInv /\ JobInv /\ LifeInv /\ QueueInv /\ TypeOK
  BY DEF ServerInv, QueueInv
<1>1. ASSUME UNCHANGED <<job, phase, serving, handler>> PROVE JobInv'
  BY <1>0, <1>1 DEF JobInv, ServingOf
<1>2. ASSUME NEW d \in Dequeuers, NEW j \in Jobs, SenderDequeues(d, j) PROVE JobInv'
  <2>1. /\ phase[j] = "idle" /\ phase' = [phase EXCEPT ![j] = "offer"]
        /\ UNCHANGED <<serving, handler>>
    BY <1>2 DEF SenderDequeues, conVars
  <2>2. job'[j].stage = "pushing" /\ \A k \in Jobs \ {j} : job'[k] = job[k]
    BY <1>0, <1>2 DEF SenderDequeues, Dequeue, TypeOK
  <2> QED BY <1>0, <2>1, <2>2 DEF JobInv, ServingOf, TypesInv
<1>3. ASSUME NEW j \in Jobs, OfferTaken(j) PROVE JobInv'
  <2>1. PICK c \in Conns : c = job[j].con
    BY <1>3, PushingFacts DEF OfferTaken
  <2>2. /\ phase[j] = "offer" /\ phase' = [phase EXCEPT ![j] = "pushing"] /\ job' = job
        /\ handler[c] = "select" /\ handler' = [handler EXCEPT ![c] = "push"]
        /\ serving' = [serving EXCEPT ![j] = c]
    BY <1>3, <2>1 DEF OfferTaken, vars
  <2>3. c # NoConn /\ serving[j] = NoConn /\ ServingOf(c) = {}
    BY <1>0, <2>2, DiscoveryAssumption DEF JobInv
  <2>4. ServingOf(c)' = {j}
    BY <1>0, <2>2, <2>3 DEF ServingOf, TypesInv
  <2>5. \A b \in Conns \ {c} : ServingOf(b)' = ServingOf(b) /\ handler'[b] = handler[b]
    <3>1. \A b \in Conns : b # NoConn
      BY DiscoveryAssumption
    <3> QED BY <1>0, <2>2, <2>3, <3>1 DEF ServingOf, TypesInv
  <2>6. \A k \in Jobs :
          /\ phase'[k] \in {"idle", "release"} => job'[k] = Idle
          /\ phase'[k] \in {"offer", "pushing"} => job'[k].stage = "pushing"
          /\ phase'[k] = "done" => job'[k].stage \in {"pushing", "requeue"}
          /\ phase'[k] \in {"idle", "offer"} => serving'[k] = NoConn
          /\ phase'[k] = "pushing" => serving'[k] = job'[k].con
    BY <1>0, <2>1, <2>2 DEF JobInv, TypesInv
  <2>7. \A b \in Conns :
          /\ handler'[b] \in {"push", "failed"} => \E k \in Jobs : ServingOf(b)' = {k}
          /\ handler'[b] \notin {"push", "failed"} => ServingOf(b)' = {}
    <3>1. handler'[c] = "push"
      BY <1>0, <2>2 DEF TypesInv
    <3> QED BY <1>0, <2>4, <2>5, <3>1 DEF JobInv
  <2> QED BY <2>6, <2>7 DEF JobInv
<1>4. ASSUME NEW j \in Jobs, OfferAbandoned(j) PROVE JobInv'
  BY <1>0, <1>4 DEF OfferAbandoned, vars, conVars, JobInv, TypesInv, ServingOf
<1>5. ASSUME NEW j \in Jobs, DoneMarks(j) PROVE JobInv'
  <2>1. /\ phase[j] = "done" /\ UNCHANGED <<serving, handler>>
        /\ phase' = [phase EXCEPT ![j] = IF job'[j] = Idle THEN "release" ELSE "done"]
    BY <1>5 DEF DoneMarks, conVars
  <2>2. /\ job'[j] = Idle \/ job'[j].stage = "requeue"
        /\ \A k \in Jobs \ {j} : job'[k] = job[k]
    BY <1>0, <1>5 DEF DoneMarks, MarkDone, TypeOK
  <2> QED BY <1>0, <2>1, <2>2 DEF JobInv, ServingOf, TypesInv
<1>6. ASSUME NEW j \in Jobs, DoneRequeues(j) PROVE JobInv'
  <2>1. /\ phase[j] = "done" /\ phase' = [phase EXCEPT ![j] = "release"]
        /\ UNCHANGED <<serving, handler>> /\ job' = [job EXCEPT ![j] = Idle]
    BY <1>6 DEF DoneRequeues, Requeue, conVars
  <2>2. job'[j] = Idle /\ \A k \in Jobs \ {j} : job'[k] = job[k]
    BY <1>0, <2>1 DEF TypeOK
  <2> QED BY <1>0, <2>1, <2>2 DEF JobInv, ServingOf, TypesInv
<1>7. ASSUME NEW j \in Jobs, DoneReleases(j) PROVE JobInv'
  <2>1. /\ phase[j] = "release" /\ phase' = [phase EXCEPT ![j] = "idle"] /\ job' = job
        /\ serving' = [serving EXCEPT ![j] = NoConn]
        /\ handler' = [c \in Conns |-> IF serving[j] = c THEN AfterPush(handler[c]) ELSE handler[c]]
    BY <1>7 DEF DoneReleases, vars
  <2>2. \A k \in Jobs :
          /\ phase'[k] \in {"idle", "release"} => job'[k] = Idle
          /\ phase'[k] \in {"offer", "pushing"} => job'[k].stage = "pushing"
          /\ phase'[k] = "done" => job'[k].stage \in {"pushing", "requeue"}
          /\ phase'[k] \in {"idle", "offer"} => serving'[k] = NoConn
          /\ phase'[k] = "pushing" => serving'[k] = job'[k].con
    BY <1>0, <2>1 DEF JobInv, TypesInv
  <2>3. ASSUME NEW c \in Conns
        PROVE  /\ handler'[c] \in {"push", "failed"} => \E k \in Jobs : ServingOf(c)' = {k}
               /\ handler'[c] \notin {"push", "failed"} => ServingOf(c)' = {}
    <3>1. c # NoConn
      BY DiscoveryAssumption
    <3>2. CASE serving[j] = c
      <4>1. j \in ServingOf(c)
        BY <3>2 DEF ServingOf
      <4>2. ServingOf(c) = {j}
        BY <1>0, <4>1 DEF JobInv
      <4>3. ServingOf(c)' = {}
        BY <1>0, <2>1, <3>1, <4>2 DEF ServingOf, TypesInv
      <4>4. handler'[c] \in {"select", "returning"}
        BY <2>1, <3>2 DEF AfterPush
      <4> QED BY <4>3, <4>4
    <3>3. CASE serving[j] # c
      <4>1. ServingOf(c)' = ServingOf(c) /\ handler'[c] = handler[c]
        BY <1>0, <2>1, <3>1, <3>3 DEF ServingOf, TypesInv
      <4> QED BY <1>0, <4>1 DEF JobInv
    <3> QED BY <3>2, <3>3
  <2> QED BY <2>2, <2>3 DEF JobInv
<1>8. ASSUME NEW j \in Jobs, PushSucceeds(j) PROVE JobInv'
  BY <1>0, <1>8 DEF PushSucceeds, vars, JobInv, TypesInv, ServingOf
<1>9. ASSUME NEW j \in Jobs, PushSkips(j) PROVE JobInv'
  BY <1>0, <1>9 DEF PushSkips, vars, conVars, JobInv, TypesInv, ServingOf
<1>10. ASSUME NEW j \in Jobs, PushErrs(j) PROVE JobInv'
  <2>1. serving[j] \in Conns /\ handler[serving[j]] \in {"push", "failed"}
    BY <1>10, PushingFacts DEF PushErrs
  <2> QED BY <1>0, <1>10, <2>1 DEF PushErrs, vars, JobInv, TypesInv, ServingOf
<1>11. ASSUME NEW c \in Conns, InitProxy(c) PROVE JobInv'
  BY <1>0, <1>11 DEF InitProxy, LifeInv, vars, sendVars, JobInv, TypesInv, ServingOf
<1>12. ASSUME NEW c \in Conns, HandlerRuns(c) PROVE JobInv'
  BY <1>0, <1>12 DEF HandlerRuns, AddCon, AnswerRequest, HandlerReturns, vars, sendVars,
                     JobInv, TypesInv, ServingOf
<1>13. ASSUME \/ PushInitContext \/ PushEnds \/ AcquireToken \/ ConfigChange
              \/ \E g \in Goroutines : PushAllRuns(g)
              \/ \E d \in Dequeuers : SenderWaits(d)
       PROVE  UNCHANGED <<job, phase, serving, handler>>
  BY <1>13 DEF PushInitContext, PushEnds, PushFails, PushPublish, AcquireToken, ConfigChange,
               PushAllRuns, StartPush, EnqueueClient, Enqueue, SenderWaits, Park,
               vars, sendVars, conVars
<1>14. ASSUME NEW c \in Conns, Disconnect(c) \/ \E g \in Goroutines : ProxyUpdate(g, c)
       PROVE  UNCHANGED <<job, phase, serving, handler>>
  BY <1>14 DEF Disconnect, ProxyUpdate, vars, sendVars, conVars
<1>15. ASSUME UNCHANGED serverVars PROVE UNCHANGED <<job, phase, serving, handler>>
  BY <1>15 DEF serverVars, vars, sendVars, conVars
<1> QED
  BY <1>1, <1>2, <1>3, <1>4, <1>5, <1>6, <1>7, <1>8, <1>9, <1>10, <1>11, <1>12, <1>13, <1>14,
     <1>15
  DEF ServerNext, SenderRuns, JobRuns, Environment

(* Nothing is asked for a connection before it is registered. *)
LEMMA LifeStep == ServerInv /\ [ServerNext]_serverVars => LifeInv'
<1> SUFFICES ASSUME ServerInv, [ServerNext]_serverVars PROVE LifeInv'
  OBVIOUS
<1>0. TypesInv /\ JobInv /\ LifeInv /\ QueueInv /\ TypeOK
  BY DEF ServerInv, QueueInv
<1>1. ASSUME UNCHANGED <<stream, handler, adsClients, pushAll, vars>> PROVE LifeInv'
  BY <1>0, <1>1 DEF LifeInv, Known, vars, queueVars
<1>2. ASSUME NEW g \in Goroutines, PushPublish(g) PROVE LifeInv'
  BY <1>0, <1>2, PushPublishFacts
  DEF PushPublish, PushAllBecomes, LifeInv, Known, vars, queueVars, conVars
<1>3. ASSUME NEW g \in Goroutines, StartPush(g) PROVE LifeInv'
  <2>1. UNCHANGED <<stream, handler, adsClients, vars>>
    BY <1>3 DEF StartPush, conVars
  <2>2. \A h \in Goroutines : pushAll'[h].todo \subseteq pushAll[h].todo \cup adsClients
    BY <1>3, StartPushFacts DEF PushAllBecomes
  <2> QED BY <1>0, <2>1, <2>2 DEF LifeInv, Known, vars, queueVars
<1>4. ASSUME NEW g \in Goroutines, NEW c \in Conns, ProxyUpdate(g, c) PROVE LifeInv'
  BY <1>0, <1>4, ProxyUpdateFacts
  DEF ProxyUpdate, PushAllBecomes, LifeInv, Known, vars, queueVars, conVars
<1>5. ASSUME NEW g \in Goroutines, NEW c \in Conns, EnqueueClient(g, c) PROVE LifeInv'
  <2>1. /\ pushAll[g].req \in PushRequests /\ EnqueueOp(c, pushAll[g].req)
        /\ job' = job /\ Known(c)
    BY <1>5, EnqueueClientFacts
  <2>2. UNCHANGED <<stream, handler, adsClients>>
    BY <1>5 DEF EnqueueClient, conVars
  <2>3. \A b \in Conns \ {c} : eventsMap'[b] = eventsMap[b] /\ inProgress'[b] = inProgress[b]
    BY <1>0, <2>1, EnqueueHeld
  <2>4. \A h \in Goroutines : pushAll'[h].todo \subseteq pushAll[h].todo
    BY <1>5, EnqueueClientDone DEF PushAllBecomes
  <2> QED BY <1>0, <2>1, <2>2, <2>3, <2>4 DEF LifeInv, Known
<1>6. ASSUME NEW d \in Dequeuers, NEW j \in Jobs, SenderDequeues(d, j) PROVE LifeInv'
  <2>1. PICK head \in Conns : head = Head(connections) /\ head \in Queued
    BY <1>0, <1>6 DEF SenderDequeues, Dequeue, DequeueOp, TypeOK, Queued
  <2>2. eventsMap[head] # NoReq
    BY <1>0, <2>1 DEF QueueInv, OrderMatchesMap
  <2>3. Known(head)
    BY <1>0, <2>2 DEF LifeInv
  <2>4. /\ eventsMap' = [eventsMap EXCEPT ![head] = NoReq]
        /\ inProgress' = [inProgress EXCEPT ![head] = NoReq]
        /\ job' = [job EXCEPT ![j] =
                     [stage |-> "pushing", con |-> head, info |-> eventsMap[head]]]
        /\ UNCHANGED <<stream, handler, adsClients, pushAll>>
    BY <1>6, <2>1 DEF SenderDequeues, Dequeue, DequeueOp, pushVars, conVars
  <2> QED BY <1>0, <2>3, <2>4 DEF LifeInv, Known, TypeOK
<1>7. ASSUME NEW d \in Dequeuers, SenderWaits(d) PROVE LifeInv'
  BY <1>0, <1>7 DEF SenderWaits, Park, LifeInv, Known, queueVars, pushVars, conVars
<1>8. ASSUME NEW j \in Jobs, OfferTaken(j) PROVE LifeInv'
  BY <1>0, <1>8 DEF OfferTaken, LifeInv, Known, vars, queueVars, pushVars, TypesInv
<1>9. ASSUME NEW j \in Jobs, DoneMarks(j) PROVE LifeInv'
  <2>1. job[j] # Idle /\ job[j].con \in Conns
    BY <1>9, JobFacts DEF DoneMarks, MarkDone, Idle
  <2>2. PICK con \in Conns : con = job[j].con /\ Known(con)
    BY <1>0, <2>1 DEF LifeInv
  <2>3. /\ UNCHANGED <<eventsMap, stream, handler, adsClients, pushAll>>
        /\ inProgress' = [inProgress EXCEPT ![con] = Absent]
        /\ job' = [job EXCEPT ![j] = IF inProgress[con] \in {NoReq, Absent} THEN Idle
                     ELSE [stage |-> "requeue", con |-> con, info |-> inProgress[con]]]
    BY <1>9, <2>2 DEF DoneMarks, MarkDone, MarkDoneOp, pushVars, conVars
  <2>4. \A k \in Jobs : job'[k] # Idle => Known(job'[k].con)
    BY <1>0, <2>2, <2>3 DEF LifeInv, TypeOK
  <2> QED BY <1>0, <2>3, <2>4 DEF LifeInv, Known, TypeOK
<1>10. ASSUME NEW j \in Jobs, DoneRequeues(j) PROVE LifeInv'
  <2>1. job[j] # Idle /\ EnqueueOp(job[j].con, job[j].info) /\ job' = [job EXCEPT ![j] = Idle]
    BY <1>10 DEF DoneRequeues, Requeue, Idle
  <2>2. /\ job[j].con \in Conns /\ job[j].info \in PushRequests
        /\ Known(job[j].con)
    BY <1>0, <2>1, JobFacts DEF LifeInv
  <2>3. \A b \in Conns \ {job[j].con} :
           eventsMap'[b] = eventsMap[b] /\ inProgress'[b] = inProgress[b]
    BY <1>0, <2>1, <2>2, EnqueueHeld
  <2>4. UNCHANGED <<stream, handler, adsClients, pushAll>>
    BY <1>10 DEF DoneRequeues, pushVars, conVars
  <2> QED BY <1>0, <2>1, <2>2, <2>3, <2>4 DEF LifeInv, Known, TypeOK
<1>11. ASSUME NEW j \in Jobs, DoneReleases(j) PROVE LifeInv'
  <2>1. /\ UNCHANGED <<vars, pushAll, stream, adsClients>>
        /\ handler' = [c \in Conns |-> IF serving[j] = c THEN AfterPush(handler[c]) ELSE handler[c]]
    BY <1>11 DEF DoneReleases, pushVars
  <2>2. ASSUME NEW c \in Conns, serving[j] = c
        PROVE  handler[c] \in {"push", "failed"}
    BY <1>0, <2>2 DEF JobInv, ServingOf
  <2>3. \A c \in Conns : (Known(c) <=> Known(c)') /\ (handler'[c] = "none" <=> handler[c] = "none")
    BY <2>1, <2>2 DEF AfterPush, Known
  <2>4. \A k \in Jobs : job[k] # Idle => job[k].con \in Conns
    BY JobFacts
  <2> QED BY <1>0, <2>1, <2>3, <2>4 DEF LifeInv, vars, queueVars, TypesInv
<1>12. ASSUME NEW j \in Jobs, PushErrs(j) PROVE LifeInv'
  <2>1. /\ UNCHANGED <<vars, pushAll, stream, adsClients>>
        /\ handler' = [handler EXCEPT ![serving[j]] = "failed"]
    BY <1>12 DEF PushErrs, pushVars
  <2>2. serving[j] \in Conns /\ handler[serving[j]] \in {"push", "failed"}
    BY <1>12, PushingFacts DEF PushErrs
  <2>3. \A c \in Conns : (Known(c) => Known(c)') /\ (handler'[c] = "none" <=> handler[c] = "none")
    BY <1>0, <2>1, <2>2 DEF Known, TypesInv
  <2>4. \A k \in Jobs : job[k] # Idle => job[k].con \in Conns
    BY JobFacts
  <2> QED BY <1>0, <2>1, <2>3, <2>4 DEF LifeInv, vars, queueVars, TypesInv
<1>13. ASSUME NEW c \in Conns, InitProxy(c) PROVE LifeInv'
  <2>1. /\ handler[c] = "none" /\ UNCHANGED <<vars, pushAll, adsClients>>
        /\ stream' = [stream EXCEPT ![c] = "open"]
        /\ \/ handler' = [handler EXCEPT ![c] = "register"]
           \/ handler' = [handler EXCEPT ![c] = "returning"]
    BY <1>0, <1>13 DEF InitProxy, LifeInv, pushVars
  <2>2. \A b \in Conns : Known(b) => Known(b)'
    BY <1>0, <2>1 DEF Known, TypesInv
  <2>3. \A k \in Jobs : job[k] # Idle => job[k].con \in Conns
    BY JobFacts
  <2>4. \A b \in Conns : stream'[b] = "new" <=> handler'[b] = "none"
    BY <1>0, <2>1 DEF LifeInv, TypesInv
  <2> QED BY <1>0, <2>1, <2>2, <2>3, <2>4 DEF LifeInv, vars, queueVars, TypesInv
<1>14. ASSUME NEW c \in Conns, AddCon(c) PROVE LifeInv'
  BY <1>0, <1>14 DEF AddCon, LifeInv, Known, vars, queueVars, pushVars, TypesInv
<1>15. ASSUME NEW c \in Conns, AnswerRequest(c) PROVE LifeInv'
  <2>1. /\ handler[c] = "first" /\ UNCHANGED <<vars, pushAll, adsClients, stream>>
        /\ \/ handler' = [handler EXCEPT ![c] = "select"]
           \/ handler' = [handler EXCEPT ![c] = "returning"]
    BY <1>15 DEF AnswerRequest, pushVars
  <2>2. \A b \in Conns : (Known(b) => Known(b)') /\ (handler'[b] = "none" <=> handler[b] = "none")
    BY <1>0, <2>1 DEF Known, TypesInv
  <2>3. \A k \in Jobs : job[k] # Idle => job[k].con \in Conns
    BY JobFacts
  <2> QED BY <1>0, <2>1, <2>2, <2>3 DEF LifeInv, vars, queueVars, TypesInv
<1>16. ASSUME NEW c \in Conns, Disconnect(c) PROVE LifeInv'
  BY <1>0, <1>16 DEF Disconnect, LifeInv, Known, vars, queueVars, pushVars, TypesInv
<1>17. ASSUME NEW c \in Conns, HandlerReturns(c) PROVE LifeInv'
  BY <1>0, <1>17 DEF HandlerReturns, LifeInv, Known, vars, queueVars, pushVars, TypesInv
<1>18. ASSUME PushInitContext \/ PushFails \/ ConfigChange \/ AcquireToken
       PROVE  UNCHANGED <<stream, handler, adsClients, pushAll, vars>>
  BY <1>18 DEF PushInitContext, PushFails, ConfigChange, AcquireToken, pushVars, conVars
<1>19. ASSUME NEW j \in Jobs, OfferAbandoned(j) \/ PushSucceeds(j) \/ PushSkips(j)
       PROVE  UNCHANGED <<stream, handler, adsClients, pushAll, vars>>
  BY <1>19 DEF OfferAbandoned, PushSucceeds, PushSkips, pushVars, conVars
<1>20. ASSUME UNCHANGED serverVars PROVE UNCHANGED <<stream, handler, adsClients, pushAll, vars>>
  BY <1>20 DEF serverVars, pushVars, conVars
<1> QED
  BY <1>1, <1>2, <1>3, <1>4, <1>5, <1>6, <1>7, <1>8, <1>9, <1>10, <1>11, <1>12, <1>13, <1>14,
     <1>15, <1>16, <1>17, <1>18, <1>19, <1>20
  DEF ServerNext, PushEnds, PushAllRuns, SenderRuns, JobRuns, HandlerRuns, Environment

(* The tokens in the semaphore are those of the pushes that are not over.  *)
LEMMA TokenStep == ServerInv /\ [ServerNext]_serverVars => TokenInv'
<1> SUFFICES ASSUME ServerInv, [ServerNext]_serverVars PROVE TokenInv'
  OBVIOUS
<1>0. TypesInv /\ IsFiniteSet(Active) /\ TokensCountPushes /\ Cardinality(Active) \in Nat
  BY FS_CardinalityType DEF ServerInv, TokenInv
<1>1. ASSUME Active' = Active, UNCHANGED <<tokens, sender>> PROVE TokenInv'
  BY <1>0, <1>1 DEF TokenInv, TokensCountPushes
<1>2. ASSUME AcquireToken PROVE TokenInv'
  <2>1. Active' = Active
    BY <1>2 DEF AcquireToken, Active
  <2> QED BY <1>0, <1>2, <2>1 DEF AcquireToken, TokenInv, TokensCountPushes, TypesInv
<1>3. ASSUME NEW d \in Dequeuers, NEW j \in Jobs, SenderDequeues(d, j) PROVE TokenInv'
  <2>1. Active' = Active \cup {j} /\ j \notin Active
    BY <1>0, <1>3 DEF SenderDequeues, Active, TypesInv
  <2>2. IsFiniteSet(Active') /\ Cardinality(Active') = Cardinality(Active) + 1
    BY <1>0, <2>1, FS_AddElement
  <2> QED BY <1>0, <1>3, <2>2 DEF SenderDequeues, TokenInv, TokensCountPushes, TypesInv
<1>4. ASSUME NEW j \in Jobs, DoneReleases(j) PROVE TokenInv'
  <2>1. Active' = Active \ {j} /\ j \in Active
    BY <1>0, <1>4 DEF DoneReleases, Active, TypesInv
  <2>2. IsFiniteSet(Active') /\ Cardinality(Active') = Cardinality(Active) - 1
    BY <1>0, <2>1, FS_RemoveElement
  <2> QED BY <1>0, <1>4, <2>2 DEF DoneReleases, TokenInv, TokensCountPushes, TypesInv
<1>5. ASSUME NEW j \in Jobs, OfferTaken(j) \/ OfferAbandoned(j) \/ PushSucceeds(j)
                             \/ PushSkips(j) \/ PushErrs(j) \/ DoneMarks(j) \/ DoneRequeues(j)
      PROVE  Active' = Active /\ UNCHANGED <<tokens, sender>>
  <2>1. /\ phase[j] # "idle" /\ UNCHANGED <<tokens, sender>>
        /\ \E new \in {"pushing", "done", "release"} : phase' = [phase EXCEPT ![j] = new]
    BY <1>5 DEF OfferTaken, OfferAbandoned, PushSucceeds, PushSkips, PushErrs, DoneMarks,
                DoneRequeues
  <2> QED BY <1>0, <2>1 DEF Active, TypesInv
<1>6. ASSUME UNCHANGED <<phase, tokens, sender>> PROVE Active' = Active
  BY <1>6 DEF Active
<1>7. ASSUME \/ PushInitContext \/ PushEnds \/ Environment
             \/ \E g \in Goroutines : PushAllRuns(g)
             \/ \E c \in Conns : HandlerRuns(c)
             \/ \E d \in Dequeuers : SenderWaits(d)
      PROVE  UNCHANGED <<phase, tokens, sender>>
  BY <1>7 DEF PushInitContext, PushEnds, PushFails, PushPublish, Environment, ConfigChange,
              ProxyUpdate, InitProxy, Disconnect, PushAllRuns, StartPush, EnqueueClient,
              HandlerRuns, AddCon, AnswerRequest, HandlerReturns, SenderWaits, sendVars
<1>8. ASSUME UNCHANGED serverVars PROVE UNCHANGED <<phase, tokens, sender>>
  BY <1>8 DEF serverVars, sendVars
<1> QED
  BY <1>1, <1>2, <1>3, <1>4, <1>5, <1>6, <1>7, <1>8 DEF ServerNext, SenderRuns, JobRuns

-----------------------------------------------------------------------------
(* The published context is on its way to every connection. *)
LEMMA NewestStep == ServerInv /\ [ServerNext]_serverVars => NewestDue'
<1> SUFFICES ASSUME ServerInv, [ServerNext]_serverVars PROVE NewestDue'
  OBVIOUS
<1>0. TypesInv /\ PushAllInv /\ NewestDue /\ adsClients \subseteq Conns
  BY DEF ServerInv, TypesInv
<1>1. ASSUME adsClients' \subseteq adsClients, UNCHANGED <<newest, global, pushAll>>
      PROVE  NewestDue'
  BY <1>0, <1>1 DEF NewestDue, DueFrom
<1>2. ASSUME NEW g \in Goroutines, PushPublish(g) PROVE NewestDue'
  <2>1. PushAllBecomes(g, building, FALSE, {}) /\ building # NoReq /\ global' = building.push
    BY <1>2, PushPublishFacts DEF PushPublish
  <2>2. \A c \in Conns : DueFrom(g, c)'
    BY <2>1 DEF DueFrom, PushAllBecomes
  <2> QED BY <1>0, <1>2, <2>2 DEF NewestDue, PushPublish, conVars
<1>3. ASSUME NEW g \in Goroutines, StartPush(g) PROVE NewestDue'
  <2>1. UNCHANGED <<adsClients, newest, global>>
    BY <1>3 DEF StartPush, conVars, ghostVars
  <2>2. ASSUME NEW c \in adsClients, NEW h \in Goroutines, DueFrom(h, c)
        PROVE  DueFrom(h, c)'
    <3>1. PushAllBecomes(g, pushAll[g].req, TRUE, adsClients)
      BY <1>3, StartPushFacts
    <3> QED BY <2>1, <2>2, <3>1 DEF DueFrom, PushAllBecomes
  <2> QED BY <1>0, <2>1, <2>2 DEF NewestDue
<1>4. ASSUME NEW g \in Goroutines, NEW b \in Conns, ProxyUpdate(g, b) PROVE NewestDue'
  <2>1. UNCHANGED <<adsClients, newest, global>> /\ pushAll[g].req = NoReq
    BY <1>4 DEF ProxyUpdate, conVars, ghostVars, Resting
  <2>2. ASSUME NEW c \in adsClients, NEW h \in Goroutines, DueFrom(h, c)
        PROVE  DueFrom(h, c)'
    BY <1>4, <2>1, <2>2, ProxyUpdateFacts DEF DueFrom, PushAllBecomes
  <2> QED BY <1>0, <2>1, <2>2 DEF NewestDue
<1>5. ASSUME NEW g \in Goroutines, NEW b \in Conns, EnqueueClient(g, b) PROVE NewestDue'
  <2>1. UNCHANGED <<adsClients, global>> /\ Record(b, pushAll[g].req.push)
    BY <1>5 DEF EnqueueClient, conVars
  <2>2. /\ \A c \in Conns \ {b} : newest'[c] = newest[c]
        /\ newest'[b] \in 0..global /\ newest'[b] >= newest[b] /\ newest'[b] >= pushAll[g].req.push
    BY <1>5, <2>1, EnqueueClientFacts, EnqueueRecords
  <2>3. global \in Nat /\ newest[b] \in Nat
    BY <1>0 DEF TypesInv
  <2>4. ASSUME NEW c \in adsClients, newest[c] = global PROVE newest'[c] = global
    BY <1>0, <2>2, <2>3, <2>4
  <2>5. ASSUME NEW c \in adsClients, NEW h \in Goroutines, DueFrom(h, c)
        PROVE  newest'[c] = global \/ DueFrom(h, c)'
    <3>1. CASE h # g
      <4>1. pushAll'[h] = pushAll[h]
        BY <1>5, <3>1, EnqueueClientDone DEF PushAllBecomes
      <4> QED BY <2>1, <2>5, <4>1 DEF DueFrom
    <3>2. CASE h = g /\ c = b
      <4>1. pushAll[g].req.push = global
        BY <2>5, <3>2 DEF DueFrom
      <4> QED BY <2>2, <2>3, <3>2, <4>1
    <3>3. CASE h = g /\ c # b
      <4>1. b \in pushAll[g].todo
        BY <1>5 DEF EnqueueClient
      <4>2. pushAll[g].snapshot
        BY <1>0, <4>1 DEF PushAllInv
      <4>3. c \in pushAll[g].todo
        BY <2>5, <3>3, <4>2 DEF DueFrom
      <4>4. PushAllBecomes(g, pushAll[g].req, TRUE, pushAll[g].todo \ {b})
        BY <1>5, <3>3, <4>3, EnqueueClientDone
      <4> QED BY <2>1, <2>5, <3>3, <4>3, <4>4 DEF DueFrom, PushAllBecomes
    <3> QED BY <3>1, <3>2, <3>3
  <2> QED BY <1>0, <2>1, <2>4, <2>5 DEF NewestDue
<1>6. ASSUME NEW j \in Jobs, DoneRequeues(j) PROVE NewestDue'
  <2>1. /\ UNCHANGED <<adsClients, global, pushAll>>
        /\ Record(job[j].con, job[j].info.push) /\ EnqueueOp(job[j].con, job[j].info)
        /\ job[j] # Idle
    BY <1>6 DEF DoneRequeues, Requeue, pushVars, conVars, Idle
  <2>2. \A c \in Conns : newest'[c] >= newest[c] /\ newest'[c] \in 0..global
    BY <1>0, <2>1, JobFacts, EnqueueRecords DEF TypesInv
  <2>3. ASSUME NEW c \in Conns, newest[c] = global PROVE newest'[c] = global
    <3>1. global \in Nat /\ newest'[c] >= global /\ newest'[c] \in 0..global
      BY <1>0, <2>2, <2>3 DEF TypesInv
    <3> QED BY <3>1
  <2> QED BY <1>0, <2>1, <2>3 DEF NewestDue, DueFrom
<1>7. ASSUME NEW b \in Conns, AddCon(b) PROVE NewestDue'
  <2>1. /\ adsClients' = adsClients \cup {b} /\ newest' = [newest EXCEPT ![b] = global]
        /\ UNCHANGED <<global, pushAll>>
    BY <1>7 DEF AddCon, pushVars
  <2>2. newest'[b] = global /\ \A c \in Conns \ {b} : newest'[c] = newest[c]
    BY <1>0, <2>1 DEF TypesInv
  <2> QED BY <1>0, <2>1, <2>2 DEF NewestDue, DueFrom
<1>8. ASSUME PushInitContext \/ PushFails \/ SenderRuns \/ ConfigChange
      PROVE  adsClients' \subseteq adsClients /\ UNCHANGED <<newest, global, pushAll>>
  BY <1>8 DEF PushInitContext, PushFails, SenderRuns, AcquireToken, SenderWaits, SenderDequeues,
              ConfigChange, pushVars, conVars, ghostVars
<1>9. ASSUME NEW j \in Jobs, \/ OfferTaken(j) \/ OfferAbandoned(j) \/ DoneReleases(j)
                             \/ PushSucceeds(j) \/ PushSkips(j) \/ PushErrs(j) \/ DoneMarks(j)
      PROVE  adsClients' \subseteq adsClients /\ UNCHANGED <<newest, global, pushAll>>
  BY <1>9 DEF OfferTaken, OfferAbandoned, DoneReleases, PushSucceeds, PushSkips, PushErrs,
              DoneMarks, pushVars, conVars, ghostVars
<1>10. ASSUME NEW c \in Conns,
              InitProxy(c) \/ AnswerRequest(c) \/ Disconnect(c) \/ HandlerReturns(c)
       PROVE  adsClients' \subseteq adsClients /\ UNCHANGED <<newest, global, pushAll>>
  BY <1>10 DEF InitProxy, AnswerRequest, Disconnect, HandlerReturns, pushVars, conVars, ghostVars
<1>11. ASSUME UNCHANGED serverVars
       PROVE  adsClients' \subseteq adsClients /\ UNCHANGED <<newest, global, pushAll>>
  BY <1>11 DEF serverVars, pushVars, conVars, ghostVars
<1> QED
  BY <1>1, <1>2, <1>3, <1>4, <1>5, <1>6, <1>7, <1>8, <1>9, <1>10, <1>11
  DEF ServerNext, PushEnds, PushAllRuns, JobRuns, HandlerRuns, Environment

(* What is queued for a connection that is not excused is the newest. *)
LEMMA QueueFreshStep == ServerInv /\ [ServerNext]_serverVars => QueueFresh'
<1> SUFFICES ASSUME ServerInv, [ServerNext]_serverVars PROVE QueueFresh'
  OBVIOUS
<1>0. TypesInv /\ LifeInv /\ QueueInv /\ TypeOK /\ QueueFresh
  BY DEF ServerInv, QueueInv
<1>1. ASSUME UNCHANGED <<eventsMap, newest, excused>> PROVE QueueFresh'
  BY <1>0, <1>1 DEF QueueFresh
<1>2. ASSUME NEW con \in Conns, NEW r \in PushRequests, r.push \in 0..global,
             EnqueueOp(con, r), Record(con, r.push)
      PROVE  QueueFresh'
  BY <1>0, <1>2, EnqueueRecords DEF QueueFresh
<1>3. ASSUME NEW g \in Goroutines, NEW c \in Conns, EnqueueClient(g, c) PROVE QueueFresh'
  <2>1. Record(c, pushAll[g].req.push)
    BY <1>3 DEF EnqueueClient
  <2> QED BY <1>2, <1>3, <2>1, EnqueueClientFacts
<1>4. ASSUME NEW d \in Dequeuers, NEW j \in Jobs, SenderDequeues(d, j) PROVE QueueFresh'
  BY <1>0, <1>4 DEF SenderDequeues, Dequeue, DequeueOp, ghostVars, QueueFresh, TypeOK
<1>5. ASSUME NEW j \in Jobs, DoneRequeues(j) PROVE QueueFresh'
  <2>1. /\ Record(job[j].con, job[j].info.push) /\ EnqueueOp(job[j].con, job[j].info)
        /\ job[j] # Idle
    BY <1>5 DEF DoneRequeues, Requeue, Idle
  <2> QED BY <1>2, <2>1, JobFacts
<1>6. ASSUME NEW j \in Jobs, PushSucceeds(j) PROVE QueueFresh'
  <2>1. serving[j] \in Conns /\ eventsMap[serving[j]] = NoReq
    BY <1>6, PushingFacts DEF PushSucceeds
  <2>2. UNCHANGED <<eventsMap, newest>> /\ \A c \in Conns \ {serving[j]} : excused'[c] = excused[c]
    BY <1>0, <1>6 DEF PushSucceeds, vars, queueVars, TypesInv
  <2> QED BY <1>0, <2>1, <2>2 DEF QueueFresh
<1>7. ASSUME NEW j \in Jobs, PushSkips(j) PROVE QueueFresh'
  <2>1. UNCHANGED <<eventsMap, newest>> /\ \A c \in Conns : ~excused'[c] => ~excused[c]
    BY <1>0, <1>7 DEF PushSkips, vars, queueVars, TypesInv
  <2> QED BY <1>0, <2>1 DEF QueueFresh
<1>8. ASSUME NEW c \in Conns, AddCon(c) PROVE QueueFresh'
  <2>1. eventsMap' = eventsMap /\ eventsMap[c] = NoReq
    BY <1>0, <1>8 DEF AddCon, vars, queueVars, LifeInv, Known
  <2>2. \A b \in Conns \ {c} : newest'[b] = newest[b] /\ excused'[b] = excused[b]
    BY <1>0, <1>8 DEF AddCon, TypesInv
  <2> QED BY <1>0, <2>1, <2>2 DEF QueueFresh
<1>9. ASSUME PushInitContext \/ PushEnds \/ AcquireToken \/ Environment
             \/ (\E g \in Goroutines : StartPush(g)) \/ (\E d \in Dequeuers : SenderWaits(d))
      PROVE  UNCHANGED <<eventsMap, newest, excused>>
  BY <1>9 DEF PushInitContext, PushEnds, PushFails, PushPublish, AcquireToken, Environment,
              ConfigChange, ProxyUpdate, InitProxy, Disconnect, StartPush, SenderWaits, Park,
              vars, queueVars, ghostVars
<1>10. ASSUME NEW j \in Jobs, \/ OfferTaken(j) \/ OfferAbandoned(j) \/ DoneReleases(j)
                              \/ PushErrs(j) \/ DoneMarks(j)
       PROVE  UNCHANGED <<eventsMap, newest, excused>>
  BY <1>10 DEF OfferTaken, OfferAbandoned, DoneReleases, PushErrs, DoneMarks, MarkDone, MarkDoneOp,
               vars, queueVars, ghostVars
<1>11. ASSUME NEW c \in Conns, AnswerRequest(c) \/ HandlerReturns(c)
       PROVE  UNCHANGED <<eventsMap, newest, excused>>
  BY <1>11 DEF AnswerRequest, HandlerReturns, vars, queueVars, ghostVars
<1>12. ASSUME UNCHANGED serverVars PROVE UNCHANGED <<eventsMap, newest, excused>>
  BY <1>12 DEF serverVars, vars, queueVars, ghostVars
<1> QED
  BY <1>1, <1>3, <1>4, <1>5, <1>6, <1>7, <1>8, <1>9, <1>10, <1>11, <1>12
  DEF ServerNext, PushAllRuns, SenderRuns, JobRuns, HandlerRuns

(* A push under way carries the newest context, or that has gathered.      *)
LEMMA PushFreshStep == ServerInv /\ [ServerNext]_serverVars => PushFresh'
<1> SUFFICES ASSUME ServerInv, [ServerNext]_serverVars PROVE PushFresh'
  OBVIOUS
<1>0. TypesInv /\ LifeInv /\ JobInv /\ QueueInv /\ TypeOK /\ PushFresh
  BY DEF ServerInv, QueueInv
<1>1. ASSUME UNCHANGED <<phase, job, inProgress, newest, excused>> PROVE PushFresh'
  BY <1>0, <1>1 DEF PushFresh, Gathered
<1>2. ASSUME NEW con \in Conns, NEW r \in PushRequests, r.push \in 0..global,
             EnqueueOp(con, r), Record(con, r.push),
             NEW c \in Conns, ~excused'[c],
             NEW j \in Jobs, phase[j] \in {"offer", "pushing"}, job[j].con = c
      PROVE  job[j].info.push = newest'[c] \/ Gathered(c)'
  <2>1. inProgress[c] # Absent
    BY <1>2, PushingFacts
  <2>2. CASE c = con
    <3>1. inProgress'[con] \in PushRequests /\ inProgress'[con].push = newest'[con]
      BY <1>2, <2>1, <2>2, EnqueueRecords
    <3> QED BY <2>2, <3>1, PushIsNat DEF Gathered
  <2>3. CASE c # con
    <3>1. inProgress'[c] = inProgress[c] /\ newest'[c] = newest[c] /\ excused'[c] = excused[c]
      BY <1>2, <2>3, EnqueueRecords
    <3> QED BY <1>0, <1>2, <3>1 DEF PushFresh, Gathered
  <2> QED BY <2>2, <2>3
<1>3. ASSUME NEW g \in Goroutines, NEW c \in Conns, EnqueueClient(g, c) PROVE PushFresh'
  <2>1. Record(c, pushAll[g].req.push) /\ UNCHANGED <<phase, job>>
    BY <1>3 DEF EnqueueClient, Enqueue, sendVars
  <2>2. \A j \in Jobs, b \in Conns :
           phase[j] \in {"offer", "pushing"} /\ job[j].con = b /\ ~excused'[b] =>
             job[j].info.push = newest'[b] \/ Gathered(b)'
    BY <1>2, <1>3, <2>1, EnqueueClientFacts
  <2>3. \A j \in Jobs : phase[j] \in {"offer", "pushing"} => job[j].con \in Conns
    BY PushingFacts
  <2> QED BY <2>1, <2>2, <2>3 DEF PushFresh, Gathered
<1>4. ASSUME NEW d \in Dequeuers, NEW j \in Jobs, SenderDequeues(d, j) PROVE PushFresh'
  <2>1. PICK head \in Conns : head = Head(connections) /\ head \in Queued
    BY <1>0, <1>4 DEF SenderDequeues, Dequeue, DequeueOp, TypeOK, Queued
  <2>2. eventsMap[head] # NoReq
    BY <1>0, <2>1 DEF QueueInv, OrderMatchesMap
  <2>3. ~excused[head] => eventsMap[head].push = newest[head]
    BY <2>2 DEF ServerInv, QueueFresh
  <2>4. /\ inProgress' = [inProgress EXCEPT ![head] = NoReq]
        /\ job' = [job EXCEPT ![j] =
                     [stage |-> "pushing", con |-> head, info |-> eventsMap[head]]]
        /\ phase' = [phase EXCEPT ![j] = "offer"]
        /\ UNCHANGED <<newest, excused>>
    BY <1>4, <2>1 DEF SenderDequeues, Dequeue, DequeueOp, ghostVars
  <2>5. job'[j].con = head /\ job'[j].info = eventsMap[head]
    BY <1>0, <2>4 DEF TypeOK
  <2>6. ASSUME NEW k \in Jobs \ {j}, phase'[k] \in {"offer", "pushing"},
               NEW c \in Conns, job'[k].con = c, ~excused'[c]
        PROVE  job'[k].info.push = newest'[c] \/ Gathered(c)'
    <3>1. job'[k] = job[k] /\ phase'[k] = phase[k]
      BY <1>0, <2>4 DEF TypeOK, TypesInv
    <3>2. c # head
      BY <2>2, <2>6, <3>1, PushingFacts
    <3>3. inProgress'[c] = inProgress[c]
      BY <1>0, <2>4, <3>2 DEF TypeOK
    <3> QED BY <1>0, <2>4, <2>6, <3>1, <3>3 DEF PushFresh, Gathered
  <2>7. \A k \in Jobs \ {j} : phase'[k] \in {"offer", "pushing"} => job'[k].con \in Conns
    BY <1>0, <2>4, PushingFacts DEF TypeOK, TypesInv
  <2> QED BY <2>3, <2>4, <2>5, <2>6, <2>7 DEF PushFresh, Gathered
<1>5. ASSUME NEW j \in Jobs, OfferTaken(j) PROVE PushFresh'
  BY <1>0, <1>5 DEF OfferTaken, vars, queueVars, ghostVars, PushFresh, Gathered, TypesInv
<1>6. ASSUME NEW j \in Jobs, phase' = [phase EXCEPT ![j] = "done"],
             UNCHANGED <<job, inProgress, newest>>,
             \A k \in Jobs \ {j} : phase[k] \in {"offer", "pushing"} /\ ~excused'[job[k].con]
                                    => ~excused[job[k].con]
      PROVE  PushFresh'
  BY <1>0, <1>6 DEF PushFresh, Gathered, TypesInv
<1>7. ASSUME NEW j \in Jobs, OfferAbandoned(j) \/ PushErrs(j) PROVE PushFresh'
  <2>1. phase' = [phase EXCEPT ![j] = "done"] /\ UNCHANGED <<job, inProgress, newest, excused>>
    BY <1>7 DEF OfferAbandoned, PushErrs, vars, queueVars, ghostVars
  <2> QED BY <1>6, <2>1
<1>8. ASSUME NEW j \in Jobs, PushSucceeds(j) PROVE PushFresh'
  <2>1. phase' = [phase EXCEPT ![j] = "done"] /\ UNCHANGED <<job, inProgress, newest>>
    BY <1>8 DEF PushSucceeds, vars, queueVars
  <2>2. \A c \in Conns \ {serving[j]} : excused'[c] = excused[c]
    BY <1>0, <1>8 DEF PushSucceeds, TypesInv
  <2>3. ASSUME NEW k \in Jobs \ {j}, phase[k] \in {"offer", "pushing"}
        PROVE  job[k].con \in Conns \ {serving[j]}
    <3>1. serving[j] = job[j].con /\ job[j].stage = "pushing"
      BY <1>8, PushingFacts DEF PushSucceeds
    <3> QED BY <2>3, <3>1, PushingFacts
  <2> QED BY <1>6, <2>1, <2>2, <2>3
<1>9. ASSUME NEW j \in Jobs, PushSkips(j) PROVE PushFresh'
  <2>1. phase' = [phase EXCEPT ![j] = "done"] /\ UNCHANGED <<job, inProgress, newest>>
    BY <1>9 DEF PushSkips, vars, queueVars
  <2>2. \A c \in Conns : ~excused'[c] => ~excused[c]
    BY <1>0, <1>9 DEF PushSkips, TypesInv
  <2>3. \A k \in Jobs : phase[k] \in {"offer", "pushing"} => job[k].con \in Conns
    BY PushingFacts
  <2> QED BY <1>6, <2>1, <2>2, <2>3
<1>10. ASSUME NEW j \in Jobs, DoneMarks(j) PROVE PushFresh'
  <2>1. /\ phase[j] = "done" /\ job[j].stage = "pushing" /\ UNCHANGED <<newest, excused>>
        /\ \E new \in {"release", "done"} : phase' = [phase EXCEPT ![j] = new]
    BY <1>10 DEF DoneMarks, MarkDone, ghostVars
  <2>2. inProgress' = [inProgress EXCEPT ![job[j].con] = Absent]
    BY <1>10 DEF DoneMarks, MarkDone, MarkDoneOp
  <2>3. \A k \in Jobs \ {j} : job'[k] = job[k] /\ phase'[k] = phase[k]
    BY <1>0, <1>10, <2>1 DEF DoneMarks, MarkDone, TypeOK, TypesInv
  <2>4. phase'[j] \notin {"offer", "pushing"}
    BY <1>0, <2>1 DEF TypesInv
  <2>5. ASSUME NEW k \in Jobs \ {j}, phase[k] \in {"offer", "pushing"},
               NEW c \in Conns, job[k].con = c, ~excused[c]
        PROVE  job[k].info.push = newest[c] \/ Gathered(c)'
    <3>1. c # job[j].con
      BY <2>1, <2>5, PushingFacts
    <3>2. inProgress'[c] = inProgress[c]
      BY <1>0, <2>2, <3>1 DEF TypeOK
    <3> QED BY <1>0, <2>1, <2>5, <3>2 DEF PushFresh, Gathered
  <2>6. \A k \in Jobs : phase[k] \in {"offer", "pushing"} => job[k].con \in Conns
    BY PushingFacts
  <2> QED BY <2>1, <2>3, <2>4, <2>5, <2>6 DEF PushFresh, Gathered
<1>11. ASSUME NEW j \in Jobs, DoneRequeues(j) PROVE PushFresh'
  <2>1. /\ Record(job[j].con, job[j].info.push) /\ EnqueueOp(job[j].con, job[j].info)
        /\ job[j] # Idle /\ job' = [job EXCEPT ![j] = Idle]
        /\ phase' = [phase EXCEPT ![j] = "release"]
    BY <1>11 DEF DoneRequeues, Requeue, Idle
  <2>2. phase'[j] = "release" /\ \A k \in Jobs \ {j} : job'[k] = job[k] /\ phase'[k] = phase[k]
    BY <1>0, <2>1 DEF TypeOK, TypesInv
  <2>3. \A k \in Jobs, b \in Conns :
           phase[k] \in {"offer", "pushing"} /\ job[k].con = b /\ ~excused'[b] =>
             job[k].info.push = newest'[b] \/ Gathered(b)'
    BY <1>2, <2>1, JobFacts
  <2>4. \A k \in Jobs : phase[k] \in {"offer", "pushing"} => job[k].con \in Conns
    BY PushingFacts
  <2> QED BY <2>2, <2>3, <2>4 DEF PushFresh, Gathered
<1>12. ASSUME NEW j \in Jobs, DoneReleases(j) PROVE PushFresh'
  BY <1>0, <1>12 DEF DoneReleases, vars, queueVars, ghostVars, PushFresh, Gathered, TypesInv
<1>13. ASSUME NEW c \in Conns, AddCon(c) PROVE PushFresh'
  <2>1. UNCHANGED <<phase, job, inProgress>> /\ ~Known(c)
    BY <1>13 DEF AddCon, vars, queueVars, sendVars, Known
  <2>2. \A b \in Conns \ {c} : newest'[b] = newest[b] /\ excused'[b] = excused[b]
    BY <1>0, <1>13 DEF AddCon, TypesInv
  <2>3. \A k \in Jobs : phase[k] \in {"offer", "pushing"} => job[k].con \in Conns \ {c}
    BY <1>0, <2>1, PushingFacts DEF LifeInv
  <2> QED BY <1>0, <2>1, <2>2, <2>3 DEF PushFresh, Gathered
<1>14. ASSUME PushInitContext \/ PushEnds \/ AcquireToken \/ Environment
              \/ (\E g \in Goroutines : StartPush(g)) \/ (\E d \in Dequeuers : SenderWaits(d))
       PROVE  UNCHANGED <<phase, job, inProgress, newest, excused>>
  BY <1>14 DEF PushInitContext, PushEnds, PushFails, PushPublish, AcquireToken, Environment,
               ConfigChange, ProxyUpdate, InitProxy, Disconnect, StartPush, SenderWaits, Park,
               vars, queueVars, sendVars, ghostVars
<1>15. ASSUME NEW c \in Conns, AnswerRequest(c) \/ HandlerReturns(c)
       PROVE  UNCHANGED <<phase, job, inProgress, newest, excused>>
  BY <1>15 DEF AnswerRequest, HandlerReturns, vars, queueVars, sendVars, ghostVars
<1>16. ASSUME UNCHANGED serverVars PROVE UNCHANGED <<phase, job, inProgress, newest, excused>>
  BY <1>16 DEF serverVars, vars, queueVars, sendVars, ghostVars
<1> QED
  BY <1>1, <1>3, <1>4, <1>5, <1>7, <1>8, <1>9, <1>10, <1>11, <1>12, <1>13, <1>14, <1>15, <1>16
  DEF ServerNext, PushAllRuns, SenderRuns, JobRuns, HandlerRuns

(* The newest context a waiting proxy is due never gets lost between the   *)
(* queue, the jobs and the proxy.                                          *)
LEMMA ClientsFreshStep == ServerInv /\ [ServerNext]_serverVars => ClientsFresh'
<1> SUFFICES ASSUME ServerInv, [ServerNext]_serverVars PROVE ClientsFresh'
  OBVIOUS
<1>0. /\ TypesInv /\ LifeInv /\ JobInv /\ QueueInv /\ TypeOK /\ ClientsFresh
      /\ adsClients \subseteq Conns
  BY DEF ServerInv, QueueInv, TypesInv
<1> DEFINE Same(c) ==
       /\ eventsMap'[c] = eventsMap[c] /\ inProgress'[c] = inProgress[c]
       /\ newest'[c] = newest[c] /\ got'[c] = got[c] /\ scope'[c] = scope[c]
       /\ handler'[c] = "first" <=> handler[c] = "first"
       /\ \A k \in Jobs : (RequeuedFor(k, c) => RequeuedFor(k, c)')
                            /\ (OfferedTo(k, c) => OfferedTo(k, c)')
<1>1. ASSUME NEW c \in adsClients, Same(c), Waiting(c), Waiting(c)' PROVE Coming(c)' \/ Arrived(c)'
  BY <1>0, <1>1 DEF ClientsFresh, Coming, Arrived, Gathered
<1>2. ASSUME NEW con \in Conns, NEW r \in PushRequests, r.push \in 0..global,
             EnqueueOp(con, r), Record(con, r.push),
             \A k \in Jobs : job'[k] = job[k] \/ job[k].con = con,
             \A k \in Jobs : phase'[k] = phase[k] \/ job[k].con = con,
             UNCHANGED <<stream, handler, adsClients, scope, got>>
      PROVE  ClientsFresh'
  <2> SUFFICES ASSUME NEW c \in adsClients, Waiting(c)' PROVE Coming(c)' \/ Arrived(c)'
    BY <1>2 DEF ClientsFresh
  <2>1. CASE c = con
    <3>1. \/ inProgress'[con] \in PushRequests /\ inProgress'[con].push = newest'[con]
          \/ eventsMap'[con] \in PushRequests
      BY <1>2, <2>1, EnqueueRecords DEF Waiting
    <3> QED BY <2>1, <3>1, PushIsNat DEF Coming, Gathered
  <2>2. CASE c # con
    <3>1. /\ eventsMap'[c] = eventsMap[c] /\ inProgress'[c] = inProgress[c]
          /\ newest'[c] = newest[c] /\ excused'[c] = excused[c]
      BY <1>0, <1>2, <2>2, EnqueueRecords
    <3>2. Same(c) /\ Waiting(c)
      BY <1>2, <2>2, <3>1 DEF RequeuedFor, OfferedTo, Waiting
    <3> QED BY <1>1, <3>2
  <2> QED BY <2>1, <2>2
<1>3. ASSUME NEW g \in Goroutines, NEW c \in Conns, EnqueueClient(g, c) PROVE ClientsFresh'
  <2>1. /\ Record(c, pushAll[g].req.push)
        /\ UNCHANGED <<phase, job, stream, handler, adsClients, scope, got>>
    BY <1>3 DEF EnqueueClient, Enqueue, sendVars, conVars
  <2> QED BY <1>2, <1>3, <2>1, EnqueueClientFacts
<1>4. ASSUME NEW d \in Dequeuers, NEW j \in Jobs, SenderDequeues(d, j) PROVE ClientsFresh'
  <2>1. PICK head \in Conns : head = Head(connections) /\ head \in Queued
    BY <1>0, <1>4 DEF SenderDequeues, Dequeue, DequeueOp, TypeOK, Queued
  <2>2. eventsMap[head] # NoReq
    BY <1>0, <2>1 DEF QueueInv, OrderMatchesMap
  <2>3. ~excused[head] => eventsMap[head].push = newest[head]
    BY <2>2 DEF ServerInv, QueueFresh
  <2>4. /\ eventsMap' = [eventsMap EXCEPT ![head] = NoReq]
        /\ inProgress' = [inProgress EXCEPT ![head] = NoReq]
        /\ job[j] = Idle
        /\ job' = [job EXCEPT ![j] =
                     [stage |-> "pushing", con |-> head, info |-> eventsMap[head]]]
        /\ phase[j] = "idle" /\ phase' = [phase EXCEPT ![j] = "offer"]
        /\ UNCHANGED <<newest, excused, stream, handler, adsClients, scope, got>>
    BY <1>4, <2>1 DEF SenderDequeues, Dequeue, DequeueOp, ghostVars, conVars
  <2>5. /\ job'[j].con = head /\ job'[j].info = eventsMap[head] /\ phase'[j] = "offer"
        /\ \A k \in Jobs \ {j} : job'[k] = job[k] /\ phase'[k] = phase[k]
    BY <1>0, <2>4 DEF TypeOK, TypesInv
  <2> SUFFICES ASSUME NEW c \in adsClients, Waiting(c)' PROVE Coming(c)' \/ Arrived(c)'
    BY <2>4 DEF ClientsFresh
  <2>6. CASE c = head
    <3>1. OfferedTo(j, c)'
      BY <2>3, <2>4, <2>5, <2>6 DEF OfferedTo, Waiting
    <3> QED BY <3>1 DEF Coming
  <2>7. CASE c # head
    <3>1. ~RequeuedFor(j, c) /\ ~OfferedTo(j, c)
      BY <2>4 DEF RequeuedFor, OfferedTo, Idle
    <3>2. Same(c)
      BY <1>0, <2>4, <2>5, <2>7, <3>1 DEF RequeuedFor, OfferedTo, TypeOK
    <3>3. Waiting(c)
      BY <2>4 DEF Waiting
    <3> QED BY <1>1, <3>2, <3>3
  <2> QED BY <2>6, <2>7
<1>5. ASSUME NEW j \in Jobs, OfferTaken(j) PROVE ClientsFresh'
  <2>1. /\ phase[j] = "offer" /\ phase' = [phase EXCEPT ![j] = "pushing"]
        /\ handler[job[j].con] = "select" /\ handler' = [handler EXCEPT ![job[j].con] = "push"]
        /\ UNCHANGED <<vars, stream, adsClients, scope, got, newest, excused>>
    BY <1>5 DEF OfferTaken, ghostVars
  <2>2. \A c \in Conns : /\ handler'[c] = "first" <=> handler[c] = "first"
                         /\ Waiting(c)' => Waiting(c)
    BY <1>0, <2>1 DEF Waiting, TypesInv
  <2>3. \A c \in Conns : Same(c)
    BY <1>0, <2>1, <2>2 DEF RequeuedFor, OfferedTo, TypesInv, vars, queueVars
  <2> QED BY <1>0, <1>1, <2>1, <2>2, <2>3 DEF ClientsFresh
<1>6. ASSUME NEW j \in Jobs, OfferAbandoned(j) PROVE ClientsFresh'
  <2>1. /\ phase' = [phase EXCEPT ![j] = "done"] /\ stream[job[j].con] = "closed"
        /\ UNCHANGED <<vars, stream, handler, adsClients, scope, got, newest, excused>>
    BY <1>6 DEF OfferAbandoned, ghostVars, conVars
  <2>2. ASSUME NEW c \in adsClients, Waiting(c)' PROVE Same(c) /\ Waiting(c)
    BY <1>0, <2>1, <2>2 DEF RequeuedFor, OfferedTo, TypesInv, vars, queueVars, Waiting
  <2> QED BY <1>1, <2>1, <2>2 DEF ClientsFresh
<1>7. ASSUME NEW j \in Jobs, PushSucceeds(j) PROVE ClientsFresh'
  <2>1. PICK con \in Conns : con = serving[j] /\ con = job[j].con
    BY <1>7, PushingFacts DEF PushSucceeds
  <2>2. /\ job[j].info.push \in Nat /\ newest[con] \in Nat /\ job[j].info.push <= newest[con]
        /\ handler[con] # "first"
    BY <1>0, <1>7, <2>1, PushingFacts, JobFacts DEF PushSucceeds, TypesInv
  <2>3. /\ phase[j] = "pushing" /\ phase' = [phase EXCEPT ![j] = "done"]
        /\ scope' = [scope EXCEPT ![con] = job[j].info.push]
        /\ got' = [got EXCEPT ![con] = job[j].info.push]
        /\ excused' = [excused EXCEPT ![con] = @ /\ job[j].info.push < newest[con]]
        /\ UNCHANGED <<vars, stream, handler, adsClients, newest>>
    BY <1>7, <2>1 DEF PushSucceeds
  <2> SUFFICES ASSUME NEW c \in adsClients, Waiting(c)' PROVE Coming(c)' \/ Arrived(c)'
    BY <2>3 DEF ClientsFresh
  <2>4. CASE c = con /\ job[j].info.push = newest[con]
    BY <1>0, <2>2, <2>3, <2>4 DEF Arrived, TypesInv
  <2>5. CASE c = con /\ job[j].info.push # newest[con]
    <3>1. job[j].info.push < newest[con]
      BY <2>2, <2>5
    <3>2. ~excused'[con]
      BY <2>5 DEF Waiting
    <3>3. ~excused[con]
      BY <1>0, <2>3, <3>1, <3>2 DEF TypesInv
    <3>4. Gathered(con)
      BY <2>1, <2>3, <2>5, <3>3 DEF ServerInv, PushFresh
    <3> QED BY <2>3, <2>5, <3>4 DEF Coming, Gathered, vars, queueVars
  <2>6. CASE c # con
    <3>1. Same(c) /\ Waiting(c)
      BY <1>0, <2>1, <2>3, <2>6 DEF RequeuedFor, OfferedTo, TypesInv, vars, queueVars, Waiting
    <3> QED BY <1>1, <3>1
  <2> QED BY <2>4, <2>5, <2>6
<1>8. ASSUME NEW j \in Jobs, PushSkips(j) PROVE ClientsFresh'
  <2>1. serving[j] = job[j].con
    BY <1>8, PushingFacts DEF PushSkips
  <2>2. /\ phase' = [phase EXCEPT ![j] = "done"] /\ excused' = [excused EXCEPT ![job[j].con] = TRUE]
        /\ UNCHANGED <<vars, stream, handler, adsClients, scope, got, newest>>
    BY <1>8, <2>1 DEF PushSkips, conVars
  <2>3. ASSUME NEW c \in adsClients, Waiting(c)' PROVE Same(c) /\ Waiting(c)
    BY <1>0, <2>2, <2>3 DEF RequeuedFor, OfferedTo, TypesInv, vars, queueVars, Waiting
  <2> QED BY <1>1, <2>2, <2>3 DEF ClientsFresh
<1>9. ASSUME NEW j \in Jobs, PushErrs(j) PROVE ClientsFresh'
  <2>1. PICK con \in Conns : con = serving[j] /\ con = job[j].con
    BY <1>9, PushingFacts DEF PushErrs
  <2>2. /\ phase' = [phase EXCEPT ![j] = "done"] /\ handler' = [handler EXCEPT ![con] = "failed"]
        /\ \A c \in Conns \ {con} : scope'[c] = scope[c] /\ got'[c] = got[c]
        /\ UNCHANGED <<vars, stream, adsClients, newest, excused>>
    BY <1>0, <1>9, <2>1 DEF PushErrs, ghostVars, TypesInv
  <2>3. ASSUME NEW c \in adsClients, Waiting(c)' PROVE c # con
    BY <1>0, <2>2, <2>3 DEF TypesInv, Waiting
  <2>4. ASSUME NEW c \in adsClients, Waiting(c)' PROVE Same(c) /\ Waiting(c)
    BY <1>0, <2>1, <2>2, <2>3, <2>4
    DEF RequeuedFor, OfferedTo, TypesInv, vars, queueVars, Waiting
  <2> QED BY <1>1, <2>2, <2>4 DEF ClientsFresh
<1>10. ASSUME NEW j \in Jobs, DoneMarks(j) PROVE ClientsFresh'
  <2>1. job[j] # Idle /\ job[j].con \in Conns
    BY <1>10, JobFacts DEF DoneMarks, MarkDone, Idle
  <2>2. PICK con \in Conns : con = job[j].con
    BY <2>1
  <2>3. /\ inProgress' = [inProgress EXCEPT ![con] = Absent]
        /\ job' = [job EXCEPT ![j] = IF inProgress[con] \in {NoReq, Absent} THEN Idle
                     ELSE [stage |-> "requeue", con |-> con, info |-> inProgress[con]]]
        /\ phase[j] = "done" /\ job[j].stage = "pushing"
        /\ UNCHANGED <<eventsMap, stream, handler, adsClients, scope, got, newest, excused>>
    BY <1>10, <2>2 DEF DoneMarks, MarkDone, MarkDoneOp, conVars, ghostVars
  <2>4. \A k \in Jobs \ {j} : job'[k] = job[k] /\ phase'[k] = phase[k]
    BY <1>0, <1>10, <2>3 DEF DoneMarks, TypeOK, TypesInv
  <2>5. \A c : ~RequeuedFor(j, c) /\ ~OfferedTo(j, c)
    BY <2>3 DEF RequeuedFor, OfferedTo
  <2> SUFFICES ASSUME NEW c \in adsClients, Waiting(c)' PROVE Coming(c)' \/ Arrived(c)'
    BY <2>3 DEF ClientsFresh
  <2>6. Waiting(c) /\ (Coming(c) \/ Arrived(c))
    BY <1>0, <2>3 DEF Waiting, ClientsFresh
  <2>7. CASE c = con /\ Gathered(c)
    <3>1. job' = [job EXCEPT ![j] = [stage |-> "requeue", con |-> con, info |-> inProgress[con]]]
      BY <2>3, <2>7 DEF Gathered
    <3>2. RequeuedFor(j, c)'
      BY <1>0, <2>3, <2>7, <3>1 DEF RequeuedFor, Gathered, TypeOK
    <3> QED BY <3>2 DEF Coming
  <2>8. CASE ~(c = con /\ Gathered(c))
    <3>1. Gathered(c) => Gathered(c)'
      BY <1>0, <2>3, <2>8 DEF Gathered, TypeOK
    <3>2. \A k \in Jobs : (RequeuedFor(k, c) => RequeuedFor(k, c)')
                            /\ (OfferedTo(k, c) => OfferedTo(k, c)')
      BY <2>3, <2>4, <2>5 DEF RequeuedFor, OfferedTo
    <3> QED BY <2>3, <2>6, <3>1, <3>2 DEF Coming, Arrived
  <2> QED BY <2>7, <2>8
<1>11. ASSUME NEW j \in Jobs, DoneRequeues(j) PROVE ClientsFresh'
  <2>1. /\ Record(job[j].con, job[j].info.push) /\ EnqueueOp(job[j].con, job[j].info)
        /\ job[j] # Idle /\ job' = [job EXCEPT ![j] = Idle]
        /\ phase' = [phase EXCEPT ![j] = "release"]
        /\ UNCHANGED <<stream, handler, adsClients, scope, got>>
    BY <1>11 DEF DoneRequeues, Requeue, Idle, conVars
  <2>2. /\ job[j].con \in Conns /\ job[j].info \in PushRequests /\ job[j].info.push \in 0..global
    BY <2>1, JobFacts
  <2>3. \A k \in Jobs \ {j} : job'[k] = job[k] /\ phase'[k] = phase[k]
    BY <1>0, <2>1 DEF TypeOK, TypesInv
  <2> QED BY <1>2, <2>1, <2>2, <2>3
<1>12. ASSUME NEW j \in Jobs, DoneReleases(j) PROVE ClientsFresh'
  <2>1. /\ phase[j] = "release" /\ phase' = [phase EXCEPT ![j] = "idle"]
        /\ handler' = [c \in Conns |-> IF serving[j] = c THEN AfterPush(handler[c]) ELSE handler[c]]
        /\ UNCHANGED <<vars, stream, adsClients, scope, got, newest, excused>>
    BY <1>12 DEF DoneReleases, ghostVars
  <2>2. \A c \in Conns : serving[j] = c => handler[c] \in {"push", "failed"}
    BY <1>0 DEF JobInv, ServingOf
  <2>3. \A c \in Conns : /\ handler'[c] = "first" <=> handler[c] = "first"
                         /\ Waiting(c)' => Waiting(c)
    BY <2>1, <2>2 DEF AfterPush, Waiting
  <2>4. \A c \in Conns : Same(c)
    BY <1>0, <2>1, <2>3 DEF RequeuedFor, OfferedTo, TypesInv, vars, queueVars
  <2> QED BY <1>0, <1>1, <2>1, <2>3, <2>4 DEF ClientsFresh
<1>13. ASSUME NEW b \in Conns, InitProxy(b) PROVE ClientsFresh'
  <2>1. handler[b] = "none"
    BY <1>0, <1>13 DEF InitProxy, LifeInv
  <2>2. b \notin adsClients
    BY <1>0, <2>1 DEF LifeInv, Known
  <2>3. /\ UNCHANGED <<vars, phase, adsClients, got, newest, excused>>
        /\ \A c \in Conns \ {b} :
              stream'[c] = stream[c] /\ scope'[c] = scope[c] /\ handler'[c] = handler[c]
    BY <1>0, <1>13 DEF InitProxy, sendVars, ghostVars, TypesInv
  <2>4. ASSUME NEW c \in adsClients, Waiting(c)' PROVE Same(c) /\ Waiting(c)
    BY <1>0, <2>2, <2>3, <2>4 DEF RequeuedFor, OfferedTo, vars, queueVars, Waiting
  <2> QED BY <1>1, <2>3, <2>4 DEF ClientsFresh
<1>14. ASSUME NEW b \in Conns, AddCon(b) PROVE ClientsFresh'
  <2>1. /\ adsClients' = adsClients \cup {b} /\ handler' = [handler EXCEPT ![b] = "first"]
        /\ handler[b] = "register" /\ newest' = [newest EXCEPT ![b] = global]
        /\ excused' = [excused EXCEPT ![b] = scope[b] < global]
        /\ UNCHANGED <<vars, phase, stream, scope, got>>
    BY <1>14 DEF AddCon, sendVars
  <2>2. b \notin adsClients
    BY <1>0, <2>1 DEF LifeInv, Known
  <2>3. Waiting(b)' => Arrived(b)'
    <3>1. scope[b] \in Nat /\ global \in Nat /\ scope[b] <= global
      BY <1>0 DEF TypesInv
    <3>2. newest'[b] = global /\ handler'[b] = "first" /\ scope'[b] = scope[b]
      BY <1>0, <2>1 DEF TypesInv
    <3>3. ~excused'[b] => ~(scope[b] < global)
      BY <1>0, <2>1 DEF TypesInv
    <3>4. ~excused'[b] => scope[b] = global
      BY <3>1, <3>3
    <3> QED BY <3>2, <3>4 DEF Waiting, Arrived
  <2>4. ASSUME NEW c \in adsClients, Waiting(c)' PROVE Same(c) /\ Waiting(c)
    BY <1>0, <2>1, <2>2, <2>4 DEF RequeuedFor, OfferedTo, vars, queueVars, Waiting, TypesInv
  <2> QED BY <1>1, <2>1, <2>3, <2>4 DEF ClientsFresh
<1>15. ASSUME NEW b \in Conns, AnswerRequest(b) PROVE ClientsFresh'
  <2>1. /\ handler[b] = "first" /\ UNCHANGED <<vars, phase, stream, adsClients, scope, newest, excused>>
        /\ \/ got' = [got EXCEPT ![b] = scope[b]] /\ handler' = [handler EXCEPT ![b] = "select"]
           \/ handler' = [handler EXCEPT ![b] = "returning"] /\ got' = got
    BY <1>15 DEF AnswerRequest, sendVars, ghostVars
  <2> SUFFICES ASSUME NEW c \in adsClients, Waiting(c)' PROVE Coming(c)' \/ Arrived(c)'
    BY <2>1 DEF ClientsFresh
  <2>2. CASE c = b
    <3>1. got'[b] = scope[b] /\ handler'[b] = "select" /\ Waiting(b)
      BY <1>0, <2>1, <2>2 DEF Waiting, TypesInv
    <3>2. Coming(b) => Coming(b)'
      BY <2>1 DEF Coming, Gathered, RequeuedFor, OfferedTo, vars, queueVars
    <3>3. Arrived(b) => Arrived(b)'
      BY <2>1, <3>1 DEF Arrived
    <3> QED BY <1>0, <2>2, <3>1, <3>2, <3>3 DEF ClientsFresh
  <2>3. CASE c # b
    <3>1. Same(c) /\ Waiting(c)
      BY <1>0, <2>1, <2>3 DEF RequeuedFor, OfferedTo, vars, queueVars, Waiting, TypesInv
    <3> QED BY <1>1, <3>1
  <2> QED BY <2>2, <2>3
<1>16. ASSUME NEW b \in Conns, Disconnect(b) \/ HandlerReturns(b) PROVE ClientsFresh'
  <2>1. /\ stream' = [stream EXCEPT ![b] = "closed"] /\ adsClients' \subseteq adsClients
        /\ handler' = handler \/ handler' = [handler EXCEPT ![b] = "gone"]
        /\ UNCHANGED <<vars, phase, scope, got, newest, excused>>
    BY <1>16 DEF Disconnect, HandlerReturns, sendVars, ghostVars
  <2>2. ASSUME NEW c \in adsClients, Waiting(c)' PROVE Same(c) /\ Waiting(c)
    <3>1. c # b
      BY <1>0, <2>1, <2>2 DEF Waiting, TypesInv
    <3> QED BY <1>0, <2>1, <2>2, <3>1
            DEF RequeuedFor, OfferedTo, vars, queueVars, Waiting, TypesInv
  <2> QED BY <1>1, <2>1, <2>2 DEF ClientsFresh
<1>17. ASSUME UNCHANGED <<eventsMap, inProgress, job, phase, conVars, newest, excused>>
       PROVE  ClientsFresh'
  BY <1>0, <1>17 DEF ClientsFresh, Waiting, Coming, Arrived, Gathered, RequeuedFor, OfferedTo,
                     conVars
<1>18. ASSUME PushInitContext \/ PushEnds \/ AcquireToken \/ ConfigChange
       PROVE  UNCHANGED <<eventsMap, inProgress, job, phase, conVars, newest, excused>>
  BY <1>18 DEF PushInitContext, PushEnds, PushFails, PushPublish, AcquireToken, ConfigChange,
               vars, queueVars, sendVars, ghostVars
<1>19. ASSUME NEW g \in Goroutines, StartPush(g) \/ \E c \in Conns : ProxyUpdate(g, c)
       PROVE  UNCHANGED <<eventsMap, inProgress, job, phase, conVars, newest, excused>>
  BY <1>19 DEF StartPush, ProxyUpdate, vars, queueVars, sendVars, ghostVars
<1>20. ASSUME NEW d \in Dequeuers, SenderWaits(d)
       PROVE  UNCHANGED <<eventsMap, inProgress, job, phase, conVars, newest, excused>>
  BY <1>20 DEF SenderWaits, Park, queueVars, sendVars, ghostVars
<1>21. ASSUME UNCHANGED serverVars
       PROVE  UNCHANGED <<eventsMap, inProgress, job, phase, conVars, newest, excused>>
  BY <1>21 DEF serverVars, vars, queueVars, sendVars, ghostVars
<1> QED
  BY <1>3, <1>4, <1>5, <1>6, <1>7, <1>8, <1>9, <1>10, <1>11, <1>12, <1>13, <1>14, <1>15, <1>16,
     <1>17, <1>18, <1>19, <1>20, <1>21
  DEF ServerNext, PushAllRuns, SenderRuns, JobRuns, HandlerRuns, Environment

-----------------------------------------------------------------------------
(* A server without connections satisfies the invariant. *)
LEMMA ServerInitInv == ServerInit => ServerInv
<1> SUFFICES ASSUME ServerInit PROVE ServerInv
  OBVIOUS
<1>1. QueueInv
  BY InitInv DEF ServerInit
<1>2. TypesInv
  BY DiscoveryAssumption DEF ServerInit, TypesInv, Resting
<1>3. PushAllInv /\ NewestDue
  BY DEF ServerInit, PushAllInv, NewestDue, Resting
<1>4. HeldInv /\ LifeInv
  BY DEF ServerInit, Init, InitQueue, HeldInv, LifeInv, Resting
<1>5. JobInv
  <2>1. \A c \in Conns : c # NoConn
    BY DiscoveryAssumption
  <2> QED BY <2>1 DEF ServerInit, Init, JobInv, ServingOf
<1>6. TokenInv
  <2>1. Active = {}
    BY DEF ServerInit, Active
  <2> QED BY <2>1, FS_EmptySet DEF ServerInit, TokenInv, TokensCountPushes
<1>7. QueueFresh /\ PushFresh /\ ClientsFresh
  BY DEF ServerInit, Init, InitQueue, QueueFresh, PushFresh, ClientsFresh
<1> QED BY <1>1, <1>2, <1>3, <1>4, <1>5, <1>6, <1>7 DEF ServerInv

(* The invariant holds in every behaviour of the server. *)
LEMMA ServerInvariant == ServerSpec => []ServerInv
<1>1. ServerInv /\ [ServerNext]_serverVars => ServerInv'
  BY ServerQueueStep, TypesStep, PushAllStep, HeldStep, JobStep, LifeStep, TokenStep,
     NewestStep, QueueFreshStep, PushFreshStep, ClientsFreshStep
  DEF ServerInv
<1> QED BY <1>1, ServerInitInv, PTL DEF ServerSpec

(* The server's variables keep their types: in particular the semaphore    *)
(* never holds more than PushThrottle tokens and is never emptied by a     *)
(* push that did not take one, and no context is newer than the config.    *)
THEOREM ServerTypeCorrect == ServerSpec => []ServerTypeOK
<1>1. ServerInv => ServerTypeOK
  <2> SUFFICES ASSUME ServerInv PROVE ServerTypeOK
    OBVIOUS
  <2>1. TypesInv /\ TypeOK
    BY DEF ServerInv, QueueInv
  <2>2. 0..global \subseteq 0..version /\ tokens \in 0..PushThrottle
    BY <2>1, DiscoveryAssumption DEF TypesInv
  <2> QED BY <2>1, <2>2 DEF TypesInv, ServerTypeOK
<1> QED BY <1>1, ServerInvariant, PTL

(* concurrentPushLimit holds one token for each push that is not over and  *)
(* one for a sender that waits for work, for any throttle and any number   *)
(* of pushes, also when streams close under way.                           *)
THEOREM ServerCountsTokens == ServerSpec => []TokensCountPushes
  BY ServerInvariant, PTL DEF ServerInv, TokenInv

(* doneFunc runs once for an event, whichever goroutine runs it, and a     *)
(* handler that is busy with a push is busy with exactly one.              *)
THEOREM ServerDoneOnce == ServerSpec => []DoneOncePerEvent
<1>1. ServerInv => DoneOncePerEvent
  <2> SUFFICES ASSUME ServerInv PROVE DoneOncePerEvent
    OBVIOUS
  <2>1. JobInv
    BY DEF ServerInv
  <2>2. ASSUME NEW c \in Conns
        PROVE  Cardinality({j \in Jobs : serving[j] = c})
                 = (IF handler[c] \in {"push", "failed"} THEN 1 ELSE 0)
    <3>1. CASE handler[c] \in {"push", "failed"}
      <4>1. PICK j \in Jobs : ServingOf(c) = {j}
        BY <2>1, <3>1 DEF JobInv
      <4>2. Cardinality(ServingOf(c)) = 1
        BY <4>1, FS_Singleton
      <4> QED BY <3>1, <4>2 DEF ServingOf
    <3>2. CASE handler[c] \notin {"push", "failed"}
      <4>1. Cardinality(ServingOf(c)) = 0
        BY <2>1, <3>2, FS_EmptySet DEF JobInv
      <4> QED BY <3>2, <4>1 DEF ServingOf
    <3> QED BY <3>1, <3>2
  <2> QED BY <2>1, <2>2 DEF JobInv, DoneOncePerEvent
<1> QED BY <1>1, ServerInvariant, PTL

(* When everything asked for has been pushed, every connected proxy has    *)
(* the config of the current context unless one of the known causes struck *)
(* it: no other interleaving of connecting, pushing, marking done and      *)
(* failing leaves a proxy behind, with any number of them.                 *)
THEOREM ServerLeavesNoneBehind == ServerSpec => []StaleOnlyByKnownCause
<1>1. ServerInv => StaleOnlyByKnownCause
  <2> SUFFICES ASSUME ServerInv, Quiescent, NEW c \in adsClients,
                      handler[c] = "select", stream[c] = "open", ~excused[c]
               PROVE  got[c] = global
    BY DEF StaleOnlyByKnownCause
  <2>0. QueueInv /\ TypeOK /\ JobInv /\ c \in Conns
    BY DEF ServerInv, QueueInv, TypesInv
  <2>1. \A j \in Jobs : phase[j] = "idle" /\ job[j] = Idle
    BY <2>0 DEF Quiescent, Active, JobInv
  <2>2. \A j \in Jobs : ~RequeuedFor(j, c) /\ ~OfferedTo(j, c)
    BY <2>1 DEF RequeuedFor, OfferedTo, Idle
  <2>3. eventsMap[c] = NoReq
    BY <2>0 DEF Quiescent, QueueInv, OrderMatchesMap, Queued
  <2>4. inProgress[c] = Absent
    BY <2>0, <2>1 DEF QueueInv, OnePushPerConnection, Pushing, Idle
  <2>5. Arrived(c)
    BY <2>2, <2>3, <2>4 DEF ServerInv, ClientsFresh, Waiting, Coming, Gathered
  <2>6. newest[c] = global
    BY DEF ServerInv, NewestDue, DueFrom, Quiescent, Resting
  <2> QED BY <2>5, <2>6 DEF Arrived
<1> QED BY <1>1, ServerInvariant, PTL

-----------------------------------------------------------------------------
(* The server's steps as steps of the queue: outside the queue's own       *)
(* operations it does not touch the queue.                                 *)
LEMMA ServerRefines ==
    ServerInv /\ [ServerNext]_serverVars => [Coalescer!Next]_(Coalescer!coalescerVars)
<1> SUFFICES ASSUME ServerInv, [ServerNext]_serverVars
             PROVE  Coalescer!Next \/ UNCHANGED Coalescer!coalescerVars
  OBVIOUS
<1>0. QueueInv
  BY DEF ServerInv
<1>1. ASSUME NEW g \in Goroutines, NEW c \in Conns, EnqueueClient(g, c)
      PROVE  Coalescer!Next \/ UNCHANGED Coalescer!coalescerVars
  <2>1. pushAll[g].req \in PushRequests /\ Enqueue(c, pushAll[g].req)
    BY <1>1, EnqueueClientFacts DEF EnqueueClient
  <2> QED BY <1>0, <2>1, EnqueueRefines DEF Coalescer!Next
<1>2. ASSUME UNCHANGED <<eventsMap, inProgress, job>>
      PROVE  UNCHANGED Coalescer!coalescerVars
  <2>1. owedMap' = owedMap /\ currentMap' = currentMap
    BY <1>2 DEF owedMap, currentMap, Owed, Current, Held, Pushing
  <2> QED BY <2>1 DEF Coalescer!coalescerVars
<1>3. ASSUME NEW d \in Dequeuers, SenderWaits(d)
      PROVE  UNCHANGED <<eventsMap, inProgress, job>>
  BY <1>3 DEF SenderWaits, Park, queueVars
<1>4. ASSUME NEW d \in Dequeuers, NEW j \in Jobs, SenderDequeues(d, j)
      PROVE  Coalescer!Next \/ UNCHANGED Coalescer!coalescerVars
  BY <1>0, <1>4, DequeueRefines DEF SenderDequeues, Coalescer!Next
<1>5. ASSUME NEW j \in Jobs, DoneMarks(j)
      PROVE  Coalescer!Next \/ UNCHANGED Coalescer!coalescerVars
  BY <1>0, <1>5, MarkDoneRefines DEF DoneMarks, Coalescer!Next
<1>6. ASSUME NEW j \in Jobs, DoneRequeues(j)
      PROVE  Coalescer!Next \/ UNCHANGED Coalescer!coalescerVars
  BY <1>0, <1>6, RequeueRefines DEF DoneRequeues
<1>7. ASSUME PushInitContext \/ PushEnds \/ \E g \in Goroutines : StartPush(g)
      PROVE  UNCHANGED vars
  BY <1>7 DEF PushInitContext, PushEnds, PushFails, PushPublish, StartPush
<1>8. ASSUME \E j \in Jobs : \/ OfferTaken(j) \/ OfferAbandoned(j) \/ DoneReleases(j)
                             \/ PushSucceeds(j) \/ PushSkips(j) \/ PushErrs(j)
      PROVE  UNCHANGED vars
  BY <1>8 DEF OfferTaken, OfferAbandoned, DoneReleases, PushSucceeds, PushSkips, PushErrs
<1>9. ASSUME AcquireToken \/ Environment \/ \E c \in Conns : HandlerRuns(c)
      PROVE  UNCHANGED vars
  BY <1>9 DEF AcquireToken, Environment, HandlerRuns, ConfigChange, ProxyUpdate, InitProxy,
              Disconnect, AddCon, AnswerRequest, HandlerReturns
<1>10. ASSUME UNCHANGED vars PROVE UNCHANGED <<eventsMap, inProgress, job>>
  BY <1>10 DEF vars, queueVars
<1> QED
  BY <1>1, <1>2, <1>3, <1>4, <1>5, <1>6, <1>7, <1>8, <1>9, <1>10
  DEF ServerNext, PushAllRuns, SenderRuns, JobRuns, serverVars

(* The queue keeps its promise inside the server: whatever startPush and   *)
(* ProxyUpdate enqueue for a connection stays owed until doSendPushes      *)
(* takes it for a push of that connection, one push at a time, also when   *)
(* streams close, pushes fail and doneFunc runs in between.                *)
THEOREM ServerImplementsCoalescer == ServerSpec => ImplementsCoalescer
<1>1. ServerInit => Coalescer!Init
  BY InitRefines DEF ServerInit
<1>2. ServerSpec => Coalescer!Spec
  BY <1>1, ServerInvariant, ServerRefines, PTL DEF ServerSpec, Coalescer!Spec
<1> QED BY <1>2 DEF ImplementsCoalescer

=============================================================================
