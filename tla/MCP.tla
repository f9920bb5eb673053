--------------------------------- MODULE MCP ---------------------------------
(***************************************************************************)
(* The Mesh Configuration Protocol end to end: the source of MCPSource and *)
(* a sink (pkg/mcp/sink/sink.go, client_sink.go) that keeps one stream     *)
(* open, applies what it receives and answers ACK or NACK, over streams    *)
(* that end at any moment and lose what was under way.  The old stream's   *)
(* goroutine at the source may outlive the new stream's start.             *)
(*                                                                         *)
(* store is both what the sink's Updater holds, which applies a Change as  *)
(* the comments of Change require, and state.versions: the two are updated *)
(* together.  The InitialResourceVersions of a first request are left out: *)
(* the source never reads them.                                            *)
(***************************************************************************)
EXTENDS MCPSource

CONSTANTS
    IncSink,      \* the collections the sink requests incrementally
    MaxNacks      \* bound: changes the Updater rejects

VARIABLES
    stream,       \* the sink's current stream; 0 between two
    opened,       \* streams opened so far
    initial,      \* collections whose initial request is still to be sent
    store,        \* collection -> the resources the sink holds
    nacks,        \* changes rejected so far
    rejected,     \* history: the last response of the collection was rejected
    inherited     \* history: names held since before the current stream

sinkVars == <<stream, opened, initial, store, nacks, rejected, inherited>>
vars == <<sourceVars, sinkVars>>

ASSUME MCPAssumption == IncSink \subseteq Collections /\ MaxNacks \in Nat

Init ==
    /\ SourceInit
    /\ stream = 0
    /\ opened = 0
    /\ initial = {}
    /\ store = [c \in Collections |-> Nothing]
    /\ nacks = 0
    /\ rejected = [c \in Collections |-> FALSE]
    /\ inherited = [c \in Collections |-> {}]

-----------------------------------------------------------------------------
(* Client.Run: (re)connect; the source starts ProcessStream for it. *)
EstablishResourceStream ==
    /\ stream = 0
    /\ opened < MaxBreaks + 1
    /\ opened' = opened + 1
    /\ stream' = opened'
    /\ pc' = [pc EXCEPT ![opened'] = "select"]
    /\ initial' = Collections
    /\ rejected' = [c \in Collections |-> FALSE]
    /\ inherited' = [c \in Collections |-> DOMAIN store[c]]
    /\ UNCHANGED <<cacheVars, queue, streamNonce, watch, netVars, store, nacks>>

Request(c, nonce, nack, inc) ==
    [coll |-> c, nonce |-> nonce, nack |-> nack, inc |-> inc]

(* Sink.ProcessStream: one initial request per collection comes first. *)
SendInitialRequest ==
    /\ stream # 0 /\ ~broken[stream]
    /\ \E c \in initial :
          /\ initial' = initial \ {c}
          /\ toSource' = [toSource EXCEPT ![stream] =
                Append(@, Request(c, 0, FALSE, c \in IncSink))]
    /\ UNCHANGED <<cacheVars, conVars, toSink, broken, stream, opened, store,
                   nacks, rejected, inherited>>

(* The answer to a response; Send fails on a stream that has ended. *)
Answer(req) ==
    toSource' = IF broken[stream] THEN toSource
                ELSE [toSource EXCEPT ![stream] = Append(@, req)]

(* handleResponse when the Updater accepts the change, and *)
HandleResponse ==
    /\ stream # 0 /\ initial = {}
    /\ toSink[stream] # <<>>
    /\ LET msg == Head(toSink[stream])
           c == msg.coll
       IN  /\ store' = [store EXCEPT ![c] = Track(@, msg)]
           /\ rejected' = [rejected EXCEPT ![c] = FALSE]
           /\ inherited' = [inherited EXCEPT ![c] = IF msg.inc THEN @ \ msg.removed ELSE {}]
           /\ Answer(Request(c, msg.nonce, FALSE, c \in IncSink))
    /\ toSink' = [toSink EXCEPT ![stream] = Tail(@)]
    /\ UNCHANGED <<cacheVars, conVars, broken, stream, opened, initial, nacks>>

(* when it does not: sendNACKRequest leaves Incremental unset.             *)
RejectResponse ==
    /\ stream # 0 /\ initial = {}
    /\ toSink[stream] # <<>>
    /\ nacks < MaxNacks
    /\ nacks' = nacks + 1
    /\ LET msg == Head(toSink[stream])
       IN  /\ rejected' = [rejected EXCEPT ![msg.coll] = TRUE]
           /\ Answer(Request(msg.coll, msg.nonce, TRUE, FALSE))
    /\ toSink' = [toSink EXCEPT ![stream] = Tail(@)]
    /\ UNCHANGED <<cacheVars, conVars, broken, stream, opened, initial, store, inherited>>

(* Recv or Send fails: ProcessStream returns to Client.Run. *)
SinkStreamEnds ==
    /\ stream # 0 /\ broken[stream]
    /\ stream' = 0
    /\ initial' = {}
    /\ toSink' = [toSink EXCEPT ![stream] = <<>>]
    /\ UNCHANGED <<cacheVars, conVars, toSource, broken, opened, store, nacks,
                   rejected, inherited>>

(* The network or either side drops a stream; the last one stays. *)
StreamBreaks(s) ==
    /\ s <= MaxBreaks /\ s <= opened
    /\ ~broken[s]
    /\ broken' = [broken EXCEPT ![s] = TRUE]
    /\ UNCHANGED <<cacheVars, conVars, toSource, toSink, sinkVars>>

SourceRuns(s) == SourceStep(s) /\ UNCHANGED sinkVars

SinkStep ==
    \/ EstablishResourceStream
    \/ SendInitialRequest
    \/ HandleResponse
    \/ SinkStreamEnds

Next ==
    \/ \E s \in Streams : SourceRuns(s)
    \/ SinkStep
    \/ RejectResponse
    \/ Publish /\ UNCHANGED sinkVars
    \/ AnswerWatch /\ UNCHANGED sinkVars
    \/ ClearSnapshot /\ UNCHANGED sinkVars
    \/ ClearStatus /\ UNCHANGED sinkVars
    \/ \E s \in Streams : StreamBreaks(s)

(* The goroutines of both sides keep running and a stream delivers what it *)
(* carries; snapshots, rejections and breaks happen or not.                *)
Fairness ==
    /\ \A s \in Streams : WF_vars(SourceRuns(s))
    /\ WF_vars(AnswerWatch /\ UNCHANGED sinkVars)
    /\ WF_vars(SinkStep)

Spec == Init /\ [][Next]_vars /\ Fairness

-----------------------------------------------------------------------------
Requests == [coll : Collections, nonce : Nat, nack : BOOLEAN, inc : BOOLEAN]
IsMessage(m) ==
    /\ m.coll \in Collections /\ m.version \in Generations(m.coll)
    /\ m.nonce \in Nat /\ m.inc \in BOOLEAN

(* Every field keeps the shape its declaration gives it, and readyChan     *)
(* never holds less than nothing or more than its capacity.                *)
TypeOK ==
    /\ snapshot = NoSnapshot \/ \A c \in Collections : snapshot[c] \in Generations(c)
    /\ openWatches \subseteq [stream : Streams, coll : Collections, inc : BOOLEAN,
                              version : UNION {Generations(c) : c \in Collections}]
    /\ pc \in [Streams -> {"none", "select", "dequeue", "closing", "gone"}]
    /\ \A s \in Streams :
          /\ queue[s].ready \in 0 .. MaxDepth
          /\ Len(queue[s].items) <= MaxDepth
          /\ \A c \in Collections :
                watch[s][c].pending = NoMsg \/ IsMessage(watch[s][c].pending)
          /\ toSource[s] \in Seq(Requests)
          /\ \A i \in DOMAIN toSink[s] : IsMessage(toSink[s][i])
    /\ stream \in 0 .. opened /\ opened \in 0 .. (MaxBreaks + 1)
    /\ initial \subseteq Collections

Serving(s) == pc[s] \in {"select", "dequeue"} /\ ~queue[s].closed
Of(c, seq) == {i \in DOMAIN seq : seq[i].coll = c}

(* Where collection c of stream s may be: an initial request not yet sent, *)
(* a request under way, a watch in the cache, a response in the queue, a   *)
(* response under way.                                                     *)
Turns(s, c) ==
    (IF stream = s /\ c \in initial THEN 1 ELSE 0)
    + Cardinality(Of(c, toSource[s]))
    + Cardinality({k \in openWatches : k.stream = s /\ k.coll = c})
    + Cardinality({i \in DOMAIN queue[s].items : queue[s].items[i].key = c})
    + Cardinality(Of(c, toSink[s]))

(* On a stream that is up, every collection is in exactly one place: no    *)
(* watch, queued response or acknowledgement is ever lost or doubled, not  *)
(* by a queue that is full and not by a snapshot that arrives between      *)
(* Ready and Dequeue.  And every queued response has its token in          *)
(* readyChan, unless ProcessStream has just taken it: a response without   *)
(* one would never be sent.                                                *)
OneTurn ==
    \A s \in Streams :
        /\ Serving(s) /\ ~broken[s] => \A c \in Collections : Turns(s, c) = 1
        /\ Len(queue[s].items) = queue[s].ready + (IF pc[s] = "dequeue" THEN 1 ELSE 0)

(* The branch of processClientRequest that "should not happen": a request  *)
(* always answers the response its collection waits for.                   *)
NoStaleRequests ==
    \A s \in Streams : \A i \in DOMAIN toSource[s] :
        toSource[s][i].nonce = PendingNonce(watch[s][toSource[s][i].coll])

(* A connection that is gone has left no watch in the cache. *)
NoLeakedWatches == \A k \in openWatches : pc[k.stream] # "gone"

(* When the source waits with an open watch on the sink's current stream,  *)
(* and SetSnapshot is not about to answer it, the watch has the snapshot's *)
(* generation of the collection, and the sink holds it, unless it rejected *)
(* it; an incremental collection may also hold names it inherited from an  *)
(* earlier stream.                                                         *)
Holds(c, version) ==
    LET want == Resources(c, version)
    IN  /\ \A n \in DOMAIN want : n \in DOMAIN store[c] /\ store[c][n] = want[n]
        /\ DOMAIN store[c] \subseteq DOMAIN want \cup inherited[c]

SyncedMeansHeld ==
    \A k \in openWatches :
        k.stream = stream /\ ~broken[stream] =>
            /\ snapshot # NoSnapshot /\ k \notin answering => k.version = snapshot[k.coll]
            /\ k.version # 0 => rejected[k.coll] \/ Holds(k.coll, k.version)

(* When streams stop breaking and snapshots stop changing, the sink comes  *)
(* to hold the last snapshot in every collection it did not reject.        *)
Converged ==
    /\ stream # 0
    /\ snapshot # NoSnapshot =>
          \A c \in Collections : rejected[c] \/ Holds(c, snapshot[c])

SinkConverges == <>[]Converged
=============================================================================
