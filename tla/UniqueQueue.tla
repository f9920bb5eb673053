----------------------------- MODULE UniqueQueue -----------------------------
(***************************************************************************)
(* The queue of responses that an MCP source connection has still to send  *)
(* (pkg/mcp/internal/queue.go): one entry per key, a fixed depth, a        *)
(* channel readyChan that holds one token per entry, and a Close that      *)
(* makes every later Enqueue a no-op.  Each method is one critical section *)
(* of mu, so a queue is a value and its methods are operators on it.  The  *)
(* ring of maxDepth + 1 slots is the sequence of the slots in use.         *)
(***************************************************************************)
LOCAL INSTANCE Naturals
LOCAL INSTANCE Sequences

(* func NewUniqueScheduledQueue *)
NewQueue == [items |-> <<>>, ready |-> 0, closed |-> FALSE]

Queued(q, key) == \E i \in DOMAIN q.items : q.items[i].key = key

full(q, maxDepth) == Len(q.items) = maxDepth

(* trySchedule: the channel has room for maxDepth tokens, one more is      *)
(* dropped with a warning.                                                 *)
trySchedule(q, maxDepth) ==
    [q EXCEPT !.ready = IF @ < maxDepth THEN @ + 1 ELSE @]

(* Mutant: only the first entry of an empty queue is scheduled. *)
EnqueueWakesWhenEmpty(q, maxDepth, key, val) ==
    IF q.closed THEN q
    ELSE IF Queued(q, key) \/ full(q, maxDepth) THEN q
    ELSE LET new == [q EXCEPT !.items = Append(@, [key |-> key, val |-> val])]
         IN  IF q.items = <<>> THEN trySchedule(new, maxDepth) ELSE new

(* Enqueue: a key that is queued keeps its place and takes the new value.  *)
Enqueue(q, maxDepth, key, val) ==
    IF q.closed THEN q
    ELSE IF Queued(q, key)
    THEN [q EXCEPT !.items = [i \in DOMAIN @ |->
             IF @[i].key = key THEN [key |-> key, val |-> val] ELSE @[i]]]
    ELSE IF full(q, maxDepth) THEN q
    ELSE trySchedule([q EXCEPT !.items = Append(@, [key |-> key, val |-> val])],
                     maxDepth)

(* <-Ready() takes a token; Dequeue then removes the head. *)
TakeToken(q) == [q EXCEPT !.ready = @ - 1]
Dequeue(q) == [q EXCEPT !.items = Tail(@)]

Close(q) == [q EXCEPT !.closed = TRUE]
=============================================================================
