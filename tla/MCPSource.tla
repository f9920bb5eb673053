------------------------------ MODULE MCPSource ------------------------------
(***************************************************************************)
(* The source of the Mesh Configuration Protocol as Galley runs it:        *)
(* the snapshot cache (pkg/mcp/snapshot/snapshot.go) and the goroutine     *)
(* that serves each stream (pkg/mcp/source/source.go).                     *)
(*                                                                         *)
(* Every method of Cache is one critical section of its mutex; SetSnapshot *)
(* queues its responses one by one while it holds it.  A stream's          *)
(* goroutine selects between a ready queue, a request and a closed queue;  *)
(* between taking a ready token and Dequeue the cache may touch the queue, *)
(* so these are two steps.  The goroutine that receives requests and hands *)
(* them over an unbuffered channel is part of the stream's FIFO.           *)
(*                                                                         *)
(* One group of sinks.  A version is the generation of the collection (0   *)
(* for the empty string, which is also the version of a collection the     *)
(* snapshot does not have), and Contents gives the resources of every      *)
(* generation: a function from names to resource versions.                 *)
(***************************************************************************)
EXTENDS Naturals, Sequences, FiniteSets, UniqueQueue

CONSTANTS
    Collections,  \* the collections both sides support
    IncSource,    \* those the source has configured as incremental
    Contents,     \* collection -> sequence of its generations
    MaxBreaks,    \* bound: streams that end before the last one
    NoSnapshot    \* the group has no snapshot

VARIABLES
    snapshot,     \* snapshots[group]: collection -> version, or NoSnapshot
    published,    \* generations handed to SetSnapshot so far
    openWatches,  \* status[group].watches
    answering,    \* those SetSnapshot has still to answer, holding c.mu
    pc,           \* stream -> where ProcessStream is
    queue,        \* stream -> con.queue
    streamNonce,  \* stream -> con.streamNonce
    watch,        \* stream -> collection -> con.watches[collection]
    toSource,     \* stream -> requests under way to the source
    toSink,       \* stream -> responses under way to the sink
    broken        \* stream -> the stream has ended

cacheVars == <<snapshot, published, openWatches, answering>>
conVars == <<pc, queue, streamNonce, watch>>
netVars == <<toSource, toSink, broken>>
sourceVars == <<cacheVars, conVars, netVars>>

Streams == 1 .. (MaxBreaks + 1)
MaxDepth == Cardinality(Collections)
Generations(c) == 0 .. Len(Contents[c])
Nothing == [n \in {} |-> 0]

ASSUME MCPSourceAssumption ==
    /\ MaxBreaks \in Nat
    /\ IsFiniteSet(Collections)
    /\ IncSource \subseteq Collections
    /\ \A c \in Collections : Len(Contents[c]) \in Nat

(* Snapshot.Resources *)
Resources(c, version) == IF version = 0 THEN Nothing ELSE Contents[c][version]

-----------------------------------------------------------------------------
(* pending is nil: no response awaits its ACK or NACK.  GetNonce of nil is *)
(* the empty string, 0 here; the nonces of responses start at 1.           *)
NoMsg == [nonce |-> 0]

(* func newConnection *)
NewWatch == [pending |-> NoMsg, acked |-> Nothing, cancel |-> FALSE]

SourceInit ==
    /\ snapshot = NoSnapshot
    /\ published = [c \in Collections |-> 0]
    /\ openWatches = {}
    /\ answering = {}
    /\ pc = [s \in Streams |-> "none"]
    /\ queue = [s \in Streams |-> NewQueue]
    /\ streamNonce = [s \in Streams |-> 0]
    /\ watch = [s \in Streams |-> [c \in Collections |-> NewWatch]]
    /\ toSource = [s \in Streams |-> <<>>]
    /\ toSink = [s \in Streams |-> <<>>]
    /\ broken = [s \in Streams |-> FALSE]

-----------------------------------------------------------------------------
(* The snapshot cache. *)

(* queueResponse with the WatchResponse for watch k at the given version.  *)
queueResponse(q, k, version) ==
    [q EXCEPT ![k.stream] =
        Enqueue(@, MaxDepth, k.coll, [version |-> version, inc |-> k.inc])]

(* SetSnapshot takes c.mu and info.mu; what follows is its loop over the   *)
(* watches, which answers those whose version differs, in the order of the *)
(* iteration over the map, and discards them.  Both mutexes are held until *)
(* the last one, but not the mutexes of the queues.                        *)
SetSnapshot(new) ==
    /\ answering = {}
    /\ snapshot' = new
    /\ answering' = {k \in openWatches : new[k.coll] # k.version}

(* Mutant: a watch that was answered is not discarded. *)
AnswerWatchKeepsIt ==
    /\ \E k \in answering :
          /\ queue' = queueResponse(queue, k, snapshot[k.coll])
          /\ answering' = answering \ {k}
    /\ UNCHANGED <<snapshot, published, openWatches, pc, streamNonce, watch, netVars>>

AnswerWatch ==
    /\ \E k \in answering :
          /\ queue' = queueResponse(queue, k, snapshot[k.coll])
          /\ openWatches' = openWatches \ {k}
          /\ answering' = answering \ {k}
    /\ UNCHANGED <<snapshot, published, pc, streamNonce, watch, netVars>>

(* Galley publishes snapshots in which some collections have moved on to a *)
(* new generation.                                                         *)
Publish ==
    /\ \E changed \in (SUBSET Collections) \ {{}} :
          /\ \A c \in changed : published[c] < Len(Contents[c])
          /\ published' = [c \in Collections |->
                IF c \in changed THEN published[c] + 1 ELSE published[c]]
    /\ SetSnapshot(published')
    /\ UNCHANGED <<openWatches, conVars, netVars>>

ClearSnapshot ==
    /\ answering = {}
    /\ snapshot # NoSnapshot
    /\ \E c \in Collections : published[c] < Len(Contents[c])
    /\ snapshot' = NoSnapshot
    /\ UNCHANGED <<published, openWatches, answering, conVars, netVars>>

(* ClearStatus: the nil response closes the queue of every stream that has *)
(* a watch, and the status entry disappears with its watches.              *)
ClearStatus ==
    /\ answering = {}
    /\ openWatches # {}
    /\ \A k \in openWatches : k.stream <= MaxBreaks
    /\ openWatches' = {}
    /\ queue' = [s \in Streams |->
          IF \E k \in openWatches : k.stream = s THEN Close(queue[s]) ELSE queue[s]]
    /\ UNCHANGED <<snapshot, published, answering, pc, streamNonce, watch, netVars>>

(* Cache.Watch: an immediate response, and no cancel function, when the    *)
(* snapshot has another version than the request; a watch otherwise.       *)
Answered(k) == snapshot # NoSnapshot /\ snapshot[k.coll] # k.version

(* Mutant: Watch does not compare the snapshot with the request. *)
WatchWithoutLooking(k, others) ==
    /\ answering = {}
    /\ openWatches' = others \cup {k}
    /\ UNCHANGED queue

Watch(k, others) ==
    /\ answering = {}
    /\ IF Answered(k)
       THEN /\ queue' = queueResponse(queue, k, snapshot[k.coll])
            /\ openWatches' = others
       ELSE /\ openWatches' = others \cup {k}
            /\ UNCHANGED queue

(* The cancel functions of stream s for the collections in C. *)
Uncancelled(s, C) ==
    {k \in openWatches : ~(k.stream = s /\ k.coll \in C /\ watch[s][k.coll].cancel)}

-----------------------------------------------------------------------------
(* The goroutine of one stream. *)

(* Mutant: a resource that changed is taken for one the sink has. *)
calculateDeltaNewOnly(current, acked) ==
    [added |-> [n \in DOMAIN current \ DOMAIN acked |-> current[n]],
     removed |-> DOMAIN acked \ DOMAIN current]

calculateDelta(current, acked) ==
    [added |-> [n \in {m \in DOMAIN current :
                         m \notin DOMAIN acked \/ acked[m] # current[m]} |-> current[n]],
     removed |-> DOMAIN acked \ DOMAIN current]

(* The message pushServerResponse sends: a delta only if the collection is *)
(* incremental here and the sink's last request asked for it.              *)
Message(c, resp, w, nonce) ==
    LET inc == c \in IncSource /\ resp.inc
        all == Resources(c, resp.version)
        delta == IF inc THEN calculateDelta(all, w.acked)
                 ELSE [added |-> all, removed |-> {}]
    IN  [coll |-> c, version |-> resp.version, nonce |-> nonce, inc |-> inc,
         added |-> delta.added, removed |-> delta.removed]

(* internal.UpdateResourceVersionTracking, also how an Updater is to apply *)
(* a Change.                                                               *)
Track(versions, msg) ==
    IF msg.inc
    THEN [n \in (DOMAIN versions \cup DOMAIN msg.added) \ msg.removed |->
             IF n \in DOMAIN msg.added THEN msg.added[n] ELSE versions[n]]
    ELSE msg.added

(* Mutant: Dequeue is tried without waiting for Ready. *)
TakeReadyUnguarded(s) ==
    /\ pc[s] = "select"
    /\ queue' = [queue EXCEPT ![s] = TakeToken(@)]
    /\ pc' = [pc EXCEPT ![s] = "dequeue"]
    /\ UNCHANGED <<cacheVars, streamNonce, watch, netVars>>

(* case <-con.queue.Ready() *)
TakeReady(s) ==
    /\ pc[s] = "select"
    /\ queue[s].ready > 0
    /\ queue' = [queue EXCEPT ![s] = TakeToken(@)]
    /\ pc' = [pc EXCEPT ![s] = "dequeue"]
    /\ UNCHANGED <<cacheVars, streamNonce, watch, netVars>>

(* Dequeue, which finds an entry for every token (OneTurn), and            *)
(* pushServerResponse.  Send on a stream that has ended fails, or succeeds *)
(* and the message is lost.                                                *)
PushServerResponse(s) ==
    /\ pc[s] = "dequeue"
    /\ queue[s].items # <<>>
    /\ LET head == Head(queue[s].items)
           msg == Message(head.key, head.val, watch[s][head.key], streamNonce[s] + 1)
       IN  /\ queue' = [queue EXCEPT ![s] = Dequeue(@)]
           /\ streamNonce' = [streamNonce EXCEPT ![s] = @ + 1]
           /\ \/ /\ pc' = [pc EXCEPT ![s] = "select"]
                 /\ watch' = [watch EXCEPT ![s][head.key] =
                       [pending |-> msg, acked |-> @.acked, cancel |-> @.cancel]]
                 /\ toSink' = IF broken[s] THEN toSink
                              ELSE [toSink EXCEPT ![s] = Append(@, msg)]
              \/ /\ broken[s]
                 /\ pc' = [pc EXCEPT ![s] = "closing"]
                 /\ UNCHANGED <<watch, toSink>>
    /\ UNCHANGED <<cacheVars, toSource, broken>>

PendingNonce(w) == w.pending.nonce

(* processClientRequest on the next request: a first request, an ACK or a  *)
(* NACK.  Even a NACK asks next for what differs from the version it       *)
(* rejects.  A request with another nonce is skipped.                      *)
ProcessClientRequest(s) ==
    /\ pc[s] = "select"
    /\ toSource[s] # <<>>
    /\ LET req == Head(toSource[s])
           c == req.coll
           w == watch[s][c]
           k == [stream |-> s, coll |-> c, inc |-> req.inc,
                 version |-> IF w.pending = NoMsg THEN 0 ELSE w.pending.version]
       IN  IF req.nonce = 0 \/ req.nonce = PendingNonce(w)
           THEN /\ Watch(k, Uncancelled(s, {c}))
                /\ watch' = [watch EXCEPT ![s][c] =
                      [pending |-> NoMsg,
                       cancel |-> ~Answered(k),
                       acked |-> IF w.pending # NoMsg /\ ~req.nack
                                 THEN Track(w.acked, w.pending) ELSE w.acked]]
           ELSE UNCHANGED <<queue, openWatches, watch>>
    /\ toSource' = [toSource EXCEPT ![s] = Tail(@)]
    /\ UNCHANGED <<snapshot, published, answering, pc, streamNonce, toSink, broken>>

(* The request channel or the queue is closed: ProcessStream returns. *)
ProcessStreamReturns(s) ==
    /\ pc[s] = "select"
    /\ broken[s] \/ queue[s].closed
    /\ pc' = [pc EXCEPT ![s] = "closing"]
    /\ UNCHANGED <<cacheVars, queue, streamNonce, watch, netVars>>

(* Mutant: the watches are not cancelled. *)
CloseConnectionKeepsWatches(s) ==
    /\ pc[s] = "closing"
    /\ pc' = [pc EXCEPT ![s] = "gone"]
    /\ broken' = [broken EXCEPT ![s] = TRUE]
    /\ UNCHANGED <<cacheVars, queue, streamNonce, watch, toSource, toSink>>

(* closeConnection, deferred: cancel the watches; then the stream ends.    *)
(* What the connection held goes with it.                                  *)
CloseConnection(s) ==
    /\ pc[s] = "closing"
    /\ (\E c \in Collections : watch[s][c].cancel) => answering = {}
    /\ openWatches' = Uncancelled(s, Collections)
    /\ pc' = [pc EXCEPT ![s] = "gone"]
    /\ broken' = [broken EXCEPT ![s] = TRUE]
    /\ queue' = [queue EXCEPT ![s] = NewQueue]
    /\ streamNonce' = [streamNonce EXCEPT ![s] = 0]
    /\ watch' = [watch EXCEPT ![s] = [c \in Collections |-> NewWatch]]
    /\ toSource' = [toSource EXCEPT ![s] = <<>>]
    /\ UNCHANGED <<snapshot, published, answering, toSink>>

SourceStep(s) ==
    \/ TakeReady(s)
    \/ PushServerResponse(s)
    \/ ProcessClientRequest(s)
    \/ ProcessStreamReturns(s)
    \/ CloseConnection(s)
=============================================================================
