--------------------------- MODULE PushQueueOrder ---------------------------
(***************************************************************************)
(* PushQueue used by one caller that enqueues push contexts strictly in    *)
(* the order they were created (one startPush after the other, see         *)
(* pilot/pkg/proxy/envoy/v2/ads.go), with a record of the newest context   *)
(* asked for and of the context each connection was last pushed.           *)
(***************************************************************************)
EXTENDS PushQueue

CONSTANT MaxContext      \* bound: contexts created in a behaviour

VARIABLES
    newest,   \* the last context enqueued for each connection
    pushed    \* the context of the last push handed out for each connection

orderVars == <<vars, newest, pushed>>

OrderInit ==
    /\ Init
    /\ newest = [c \in Conns |-> 0]
    /\ pushed = [c \in Conns |-> 0]

(* A full push of the next context, as startPush enqueues it. *)
FullPush(context) ==
    [full |-> TRUE, push |-> context, eds |-> {}, namespaces |-> {}, configs |-> {}]

EnqueueNewest(con) ==
    /\ newest[con] < MaxContext
    /\ Enqueue(con, FullPush(newest[con] + 1))
    /\ newest' = [newest EXCEPT ![con] = @ + 1]
    /\ UNCHANGED pushed

DequeueAndPush(d, j) ==
    /\ Dequeue(d, j)
    /\ pushed' = [pushed EXCEPT ![Head(connections)] = eventsMap[Head(connections)].push]
    /\ UNCHANGED newest

OrderNext ==
    \/ \E con \in Conns : EnqueueNewest(con)
    \/ \E d \in Dequeuers, j \in Jobs : DequeueAndPush(d, j)
    \/ /\ \/ \E d \in Dequeuers : Park(d)
          \/ \E j \in Jobs : MarkDone(j) \/ Requeue(j)
       /\ UNCHANGED <<newest, pushed>>

OrderSpec == OrderInit /\ [][OrderNext]_orderVars

(* Merge's comment: "The other push context is presumed to be later and    *)
(* more up to date".  With contexts enqueued in order, every request the   *)
(* queue hands out would then carry the newest context asked for, except   *)
(* what is still held back by a push or a MarkDone in progress: once those *)
(* are over, the last context pushed to a connection is the newest.        *)
MergeKeepsNewest ==
    \A c \in Conns :
        (Pushing(c) = {} /\ Held(c) = {} /\ eventsMap[c] = NoReq)
            => pushed[c] = newest[c]

=============================================================================
