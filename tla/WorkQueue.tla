------------------------------ MODULE WorkQueue ------------------------------
(***************************************************************************)
(* The task queue of the Kubernetes controllers (pkg/queue/instance.go).   *)
(* A queue is a value; each operator is one critical section of cond.L.    *)
(* run is where the goroutine in Run is: "ready" to look at the tasks,     *)
(* "waiting" in cond.Wait, "returned".                                     *)
(***************************************************************************)
LOCAL INSTANCE Sequences

(* func NewQueue *)
NewQueue == [tasks |-> <<>>, closing |-> FALSE, run |-> "ready"]

(* Queues of tasks of a type: Run waits, or is gone, only with no task     *)
(* left, and is gone only from a queue that is closing.                    *)
QueueOf(Task) ==
    {q \in [tasks : Seq(Task), closing : BOOLEAN, run : {"ready", "waiting", "returned"}] :
        /\ q.run # "ready" => q.tasks = <<>>
        /\ q.run = "returned" => q.closing}

(* cond.Signal *)
signal(q) == [q EXCEPT !.run = IF @ = "waiting" THEN "ready" ELSE @]

(* Mutant: no signal. *)
PushSilently(q, item) == IF q.closing THEN q ELSE [q EXCEPT !.tasks = Append(@, item)]

(* Push: dropped once the queue is closing, signalled either way. *)
Push(q, item) ==
    signal(IF q.closing THEN q ELSE [q EXCEPT !.tasks = Append(@, item)])

(* The goroutine Run starts: it marks the queue closing, without a signal. *)
Stop(q) == [q EXCEPT !.closing = TRUE]

(* Mutant: a queue that is closing is left with its tasks. *)
LookStops(q) ==
    [q EXCEPT !.run = IF q.closing THEN "returned"
                      ELSE IF q.tasks # <<>> THEN @ ELSE "waiting"]

(* Run looks at the queue: with no task it waits, or returns if the queue  *)
(* is closing; closing does not keep it from draining the queue.           *)
Look(q) ==
    [q EXCEPT !.run = IF q.tasks # <<>> THEN @
                      ELSE IF q.closing THEN "returned" ELSE "waiting"]

(* Run takes the first task, runs it, and looks again. *)
CanTake(q) == q.run = "ready" /\ q.tasks # <<>>
Take(q) == Look([q EXCEPT !.tasks = Tail(@)])
=============================================================================
