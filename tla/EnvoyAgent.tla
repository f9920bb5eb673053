----------------------------- MODULE EnvoyAgent -----------------------------
(***************************************************************************)
(* The agent that runs Envoy (pkg/envoy/agent.go, proxy.go): Restart       *)
(* starts a new epoch next to the running ones, the control loop Run       *)
(* collects exits and, when its context ends, drains and aborts them.      *)
(*                                                                         *)
(* Three kinds of goroutines share the agent: callers of Restart, one      *)
(* runWait per epoch, and Run.  mutex guards activeEpochs, currentEpoch    *)
(* and currentConfig, so each of its critical sections is one step.        *)
(* restartMutex is held over the whole of Restart, the wait for the        *)
(* previous epoch included: restarting is its holder.  An epoch's abort    *)
(* channel has room for one message; statusCh has none, so the goroutine   *)
(* of an exited epoch stays "reporting" until Run receives from it.        *)
(***************************************************************************)
EXTENDS Integers

CONSTANTS
    Configs,      \* what Restart may be called with
    MaxEpoch,     \* bound: the last epoch
    NoConfig      \* currentConfig before the first Restart

VARIABLES
    nextEpoch,    \* currentEpoch + 1
    currentConfig,
    activeEpochs, \* the keys of activeEpochs
    abort,        \* epoch -> errAbort lies in its abort channel
    restarting,   \* the epoch whose Restart waits with restartMutex, or Nobody
    epochState,   \* epoch -> how far its life has gone
    files,        \* epochs whose bootstrap file exists
    agent,        \* where Run is
    ctxDone,      \* the context Run was given has ended
    late          \* history: epochs added after Run last looked

vars == <<nextEpoch, currentConfig, activeEpochs, abort, restarting, epochState,
          files, agent, ctxDone, late>>

Epochs == 0 .. MaxEpoch
Nobody == MaxEpoch + 1

ASSUME EnvoyAgentAssumption == MaxEpoch \in Nat /\ NoConfig \notin Configs

(* "waiting" in Restart for the previous epoch; "spawned": runWait has not *)
(* started the process yet; "starting" and "live": the process runs.       *)
EpochStates == {"none", "waiting", "spawned", "starting", "live", "reporting", "done"}

Running(e) == epochState[e] \in {"starting", "live"}
Unfinished(e) == epochState[e] \in {"waiting", "spawned", "starting", "live"}

-----------------------------------------------------------------------------
(* func NewAgent *)
Init ==
    /\ nextEpoch = 0
    /\ currentConfig = NoConfig
    /\ activeEpochs = {}
    /\ abort = [e \in Epochs |-> FALSE]
    /\ restarting = Nobody
    /\ epochState = [e \in Epochs |-> "none"]
    /\ files = {}
    /\ agent = "loop"
    /\ ctxDone = FALSE
    /\ late = {}

(* Mutant: an epoch that has to wait is not entered in activeEpochs. *)
RestartUntracked(config) ==
    /\ restarting = Nobody
    /\ config # currentConfig
    /\ nextEpoch \in Epochs
    /\ nextEpoch' = nextEpoch + 1
    /\ currentConfig' = config
    /\ IF activeEpochs # {}
       THEN /\ restarting' = nextEpoch
            /\ epochState' = [epochState EXCEPT ![nextEpoch] = "waiting"]
            /\ UNCHANGED activeEpochs
       ELSE /\ epochState' = [epochState EXCEPT ![nextEpoch] = "spawned"]
            /\ activeEpochs' = {nextEpoch}
            /\ UNCHANGED restarting
    /\ late' = IF agent = "returned" THEN late \cup {nextEpoch} ELSE late
    /\ UNCHANGED <<abort, files, agent, ctxDone>>

(* Restart with another configuration than the current one: the next epoch *)
(* becomes active before anything is awaited.  With the same configuration *)
(* it returns at once.                                                     *)
Restart(config) ==
    /\ restarting = Nobody
    /\ config # currentConfig
    /\ nextEpoch \in Epochs
    /\ nextEpoch' = nextEpoch + 1
    /\ currentConfig' = config
    /\ activeEpochs' = activeEpochs \cup {nextEpoch}
    /\ IF activeEpochs # {}
       THEN /\ restarting' = nextEpoch
            /\ epochState' = [epochState EXCEPT ![nextEpoch] = "waiting"]
       ELSE /\ epochState' = [epochState EXCEPT ![nextEpoch] = "spawned"]
            /\ UNCHANGED restarting
    /\ late' = IF agent = "returned" THEN late \cup {nextEpoch} ELSE late
    /\ UNCHANGED <<abort, files, agent, ctxDone>>

(* waitUntilLive is over: go runWait, and restartMutex is free. *)
Spawn(e) ==
    /\ restarting = e
    /\ epochState' = [epochState EXCEPT ![e] = "spawned"]
    /\ restarting' = Nobody
    /\ UNCHANGED <<nextEpoch, currentConfig, activeEpochs, abort, files, agent,
                   ctxDone, late>>

(* IsLive asks whichever process answers on the admin port. *)
IsLive == \E e \in Epochs : epochState[e] = "live"

(* isDone: the previous epoch is no longer active, or Envoy is live. *)
PreviousIsDone(e) ==
    /\ Spawn(e)
    /\ e - 1 \notin activeEpochs \/ IsLive

(* Mutant: waitUntilLive has no timer. *)
WaitNeverTimesOut(e) == PreviousIsDone(e)

(* The timer of waitUntilLive fires. *)
WaitTimesOut(e) == Spawn(e)

(* runWait calls Run, which writes the bootstrap file and starts Envoy. *)
ProxyStarts(e) ==
    /\ epochState[e] = "spawned"
    /\ epochState' = [epochState EXCEPT ![e] = "starting"]
    /\ files' = files \cup {e}
    /\ UNCHANGED <<nextEpoch, currentConfig, activeEpochs, abort, restarting, agent,
                   ctxDone, late>>

GoesLive(e) ==
    /\ epochState[e] = "starting"
    /\ epochState' = [epochState EXCEPT ![e] = "live"]
    /\ UNCHANGED <<nextEpoch, currentConfig, activeEpochs, abort, restarting, files,
                   agent, ctxDone, late>>

(* The process ends, or never came up; Run returns and Cleanup removes the *)
(* file.  runWait goes on to send on statusCh.                             *)
ProxyExits(e) ==
    /\ epochState[e] \in {"spawned", "starting", "live"}
    /\ epochState' = [epochState EXCEPT ![e] = "reporting"]
    /\ files' = files \ {e}
    /\ UNCHANGED <<nextEpoch, currentConfig, activeEpochs, abort, restarting, agent,
                   ctxDone, late>>

(* Run receives from the abort channel and kills the process. *)
ProxyAborted(e) ==
    /\ Running(e)
    /\ abort[e]
    /\ abort' = [abort EXCEPT ![e] = FALSE]
    /\ epochState' = [epochState EXCEPT ![e] = "reporting"]
    /\ files' = files \ {e}
    /\ UNCHANGED <<nextEpoch, currentConfig, activeEpochs, restarting, agent,
                   ctxDone, late>>

(* Mutant: the exited epoch stays in activeEpochs. *)
EpochExitedKept(e) ==
    /\ agent = "loop"
    /\ epochState[e] = "reporting"
    /\ epochState' = [epochState EXCEPT ![e] = "done"]
    /\ agent' = IF activeEpochs = {e} THEN "returned" ELSE "loop"
    /\ UNCHANGED <<nextEpoch, currentConfig, activeEpochs, abort, restarting, files,
                   ctxDone, late>>

(* Run, case status := <-a.statusCh: it returns when no epoch is left. *)
EpochExited(e) ==
    /\ agent = "loop"
    /\ epochState[e] = "reporting"
    /\ epochState' = [epochState EXCEPT ![e] = "done"]
    /\ activeEpochs' = activeEpochs \ {e}
    /\ agent' = IF activeEpochs' = {} THEN "returned" ELSE "loop"
    /\ UNCHANGED <<nextEpoch, currentConfig, abort, restarting, files, ctxDone, late>>

ContextEnds ==
    /\ ~ctxDone
    /\ ctxDone' = TRUE
    /\ UNCHANGED <<nextEpoch, currentConfig, activeEpochs, abort, restarting,
                   epochState, files, agent, late>>

(* Run, case <-ctx.Done(): terminate drains and sleeps, *)
Drain ==
    /\ agent = "loop"
    /\ ctxDone
    /\ agent' = "draining"
    /\ UNCHANGED <<nextEpoch, currentConfig, activeEpochs, abort, restarting,
                   epochState, files, ctxDone, late>>

(* Mutant: the abort channels have no room, so each send waits until the   *)
(* epoch's Run receives.                                                   *)
AbortAllUnbuffered ==
    /\ agent = "draining"
    /\ \A e \in activeEpochs : Running(e)
    /\ abort' = [e \in Epochs |-> e \in activeEpochs]
    /\ agent' = "returned"
    /\ UNCHANGED <<nextEpoch, currentConfig, activeEpochs, restarting, epochState,
                   files, ctxDone, late>>

(* then abortAll puts errAbort in every active epoch's channel, with mutex *)
(* held: a full channel would block it for ever.                           *)
AbortAll ==
    /\ agent = "draining"
    /\ \A e \in activeEpochs : ~abort[e]
    /\ abort' = [e \in Epochs |-> abort[e] \/ e \in activeEpochs]
    /\ agent' = "returned"
    /\ UNCHANGED <<nextEpoch, currentConfig, activeEpochs, restarting, epochState,
                   files, ctxDone, late>>

AgentStep ==
    \/ \E e \in Epochs : EpochExited(e)
    \/ Drain
    \/ AbortAll

EpochStep(e) ==
    \/ ProxyStarts(e)
    \/ ProxyAborted(e)

Next ==
    \/ \E config \in Configs : Restart(config)
    \/ \E e \in Epochs : \/ PreviousIsDone(e)
                         \/ WaitTimesOut(e)
                         \/ GoesLive(e)
                         \/ ProxyExits(e)
                         \/ EpochStep(e)
    \/ ContextEnds
    \/ AgentStep

(* The timer of waitUntilLive fires in the end, spawned goroutines run and *)
(* so does Run, which prefers neither of its cases for ever.  Envoy may    *)
(* start, go live and exit when it likes.                                  *)
Fairness ==
    /\ \A e \in Epochs : WF_vars(WaitTimesOut(e)) /\ WF_vars(EpochStep(e))
    /\ WF_vars(AgentStep)
    /\ WF_vars(Drain)

Spec == Init /\ [][Next]_vars /\ Fairness

-----------------------------------------------------------------------------
(* The fields of the agent keep their types, and an epoch is active        *)
(* exactly from its Restart until Run has seen it exit.                    *)
TypeOK ==
    /\ nextEpoch \in 0 .. (MaxEpoch + 1)
    /\ currentConfig \in Configs \cup {NoConfig}
    /\ activeEpochs = {e \in Epochs : epochState[e] \notin {"none", "done"}}
    /\ abort \in [Epochs -> BOOLEAN]
    /\ restarting \in Epochs \cup {Nobody}
    /\ epochState \in [Epochs -> EpochStates]
    /\ files = {e \in Epochs : Running(e)}
    /\ agent \in {"loop", "draining", "returned"}
    /\ ctxDone \in BOOLEAN
    /\ late \subseteq Epochs

(* When Run has returned, every proxy that runs or will run has been sent  *)
(* an abort, also the one whose Restart is still waiting for the previous  *)
(* epoch; only a Restart that comes after Run returned escapes.            *)
NoOrphans ==
    agent = "returned" => \A e \in Epochs \ late : Unfinished(e) => abort[e]

(* After the context ends, Run returns and every proxy it knew of stops,   *)
(* whatever Restart or an exit was under way.                              *)
AgentStopsItsProxies ==
    ctxDone ~> (agent = "returned" /\ \A e \in Epochs \ late : ~Unfinished(e))

(* Restart never waits for ever: its epoch gets as far as running Envoy.   *)
RestartsStart ==
    \A e \in Epochs : epochState[e] = "waiting" ~> epochState[e] \notin {"waiting", "spawned"}
=============================================================================
