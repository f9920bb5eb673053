-------------------------- MODULE EnvoyAgentProofs --------------------------
(* That the agent leaves no proxy behind, for any number of epochs and     *)
(* configurations.                                                         *)
EXTENDS EnvoyAgent, TLAPS

(* What TypeOK and NoOrphans need to be inductive: an epoch that was never *)
(* given out has no state, so Restart cannot overwrite a running one, and  *)
(* the epoch Restart waits with has not been spawned.                      *)
EpochOrder ==
    /\ \A e \in Epochs : e >= nextEpoch => epochState[e] = "none"
    /\ restarting \in Epochs => epochState[restarting] = "waiting"

IndInv == TypeOK /\ EpochOrder /\ NoOrphans

(* NewAgent establishes the invariant. *)
LEMMA InitIndInv == Init => IndInv
<1> SUFFICES ASSUME Init PROVE IndInv
    OBVIOUS
<1> USE EnvoyAgentAssumption DEF Init, Epochs, Nobody, EpochStates, Running, Unfinished
<1>1. \A e \in Epochs : epochState[e] = "none"
    OBVIOUS
<1>2. activeEpochs = {e \in Epochs : epochState[e] \notin {"none", "done"}}
    BY <1>1
<1>3. files = {e \in Epochs : Running(e)}
    BY <1>1
<1>4. /\ nextEpoch \in 0 .. (MaxEpoch + 1)
      /\ restarting \in Epochs \cup {Nobody}
      /\ currentConfig \in Configs \cup {NoConfig}
      /\ late \subseteq Epochs
    OBVIOUS
<1>5. /\ abort \in [Epochs -> BOOLEAN]
      /\ epochState \in [Epochs -> EpochStates]
    OBVIOUS
<1>6. /\ agent \in {"loop", "draining", "returned"}
      /\ ctxDone \in BOOLEAN
    OBVIOUS
<1>7. TypeOK
    BY <1>2, <1>3, <1>4, <1>5, <1>6 DEF TypeOK
<1>8. EpochOrder
    BY <1>1 DEF EpochOrder
<1>9. NoOrphans
    BY <1>1 DEF NoOrphans
<1> QED BY <1>7, <1>8, <1>9 DEF IndInv

(* Restart keeps it: the new epoch is active at once, or late. *)
LEMMA RestartKeeps == \A config \in Configs : IndInv /\ Restart(config) => IndInv'
<1> SUFFICES ASSUME NEW config \in Configs, IndInv, Restart(config) PROVE IndInv'
    OBVIOUS
<1> USE EnvoyAgentAssumption DEF Epochs, Nobody, EpochStates, Running, Unfinished
<1>1. epochState[nextEpoch] = "none" /\ nextEpoch \in Epochs /\ nextEpoch \in Nat
    BY DEF IndInv, TypeOK, EpochOrder, Restart
<1>2. PICK st \in {"waiting", "spawned"} :
          epochState' = [epochState EXCEPT ![nextEpoch] = st]
    BY DEF Restart
<1>3. TypeOK'
    BY <1>1, <1>2 DEF IndInv, TypeOK, Restart
<1>4. EpochOrder'
    BY <1>1 DEF IndInv, TypeOK, EpochOrder, Restart
<1>5. NoOrphans'
    BY <1>1, <1>2 DEF IndInv, TypeOK, NoOrphans, Restart
<1> QED BY <1>3, <1>4, <1>5 DEF IndInv

(* The steps of an epoch's own goroutine keep it. *)
LEMMA EpochKeeps ==
    \A e \in Epochs :
        IndInv /\ (Spawn(e) \/ GoesLive(e) \/ ProxyExits(e) \/ EpochStep(e)) => IndInv'
<1> SUFFICES ASSUME NEW e \in Epochs, IndInv,
                    Spawn(e) \/ GoesLive(e) \/ ProxyExits(e) \/ EpochStep(e)
             PROVE  IndInv'
    OBVIOUS
<1> USE EnvoyAgentAssumption
    DEF Epochs, Nobody, EpochStates, Running, Unfinished, IndInv, TypeOK, EpochOrder,
        NoOrphans
<1>1. CASE Spawn(e)
    BY <1>1 DEF Spawn
<1>2. CASE GoesLive(e)
    BY <1>2 DEF GoesLive
<1>3. CASE ProxyExits(e)
    BY <1>3 DEF ProxyExits
<1>4. CASE ProxyStarts(e)
    BY <1>4 DEF ProxyStarts
<1>5. CASE ProxyAborted(e)
    BY <1>5 DEF ProxyAborted
<1> QED BY <1>1, <1>2, <1>3, <1>4, <1>5 DEF EpochStep

(* The steps of Run keep it: Run returns only when no epoch is active or   *)
(* all active ones have been aborted.                                      *)
LEMMA AgentKeeps == IndInv /\ AgentStep => IndInv'
<1> SUFFICES ASSUME IndInv, AgentStep PROVE IndInv'
    OBVIOUS
<1> USE EnvoyAgentAssumption
    DEF Epochs, Nobody, EpochStates, Running, Unfinished, IndInv, TypeOK, EpochOrder,
        NoOrphans
<1>1. ASSUME NEW e \in Epochs, EpochExited(e) PROVE IndInv'
    BY <1>1 DEF EpochExited
<1>2. CASE Drain
    BY <1>2 DEF Drain
<1>3. CASE AbortAll
    BY <1>3 DEF AbortAll
<1> QED BY <1>1, <1>2, <1>3 DEF AgentStep

(* So does every step. *)
LEMMA NextKeeps == IndInv /\ [Next]_vars => IndInv'
<1> SUFFICES ASSUME IndInv, [Next]_vars PROVE IndInv'
    OBVIOUS
<1>1. CASE UNCHANGED vars
    BY <1>1 DEF vars, IndInv, TypeOK, EpochOrder, NoOrphans, Running, Unfinished
<1>2. CASE ContextEnds
    BY <1>2 DEF ContextEnds, IndInv, TypeOK, EpochOrder, NoOrphans, Running, Unfinished
<1>3. ASSUME NEW e \in Epochs, PreviousIsDone(e) \/ WaitTimesOut(e) PROVE IndInv'
    BY <1>3, EpochKeeps DEF PreviousIsDone, WaitTimesOut
<1> QED BY <1>1, <1>2, <1>3, RestartKeeps, EpochKeeps, AgentKeeps DEF Next

(* The agent's fields keep their types, and activeEpochs is exactly the    *)
(* epochs between their Restart and the moment Run has seen them exit.     *)
THEOREM AgentTypeCorrect == Spec => []TypeOK
<1>1. IndInv => TypeOK
    BY DEF IndInv
<1> QED BY <1>1, InitIndInv, NextKeeps, PTL DEF Spec

(* Run returns only after every proxy it knew of has exited or was sent an *)
(* abort, however Restart, exits and the end of the context interleave.    *)
THEOREM AgentLeavesNoOrphans == Spec => []NoOrphans
<1>1. IndInv => NoOrphans
    BY DEF IndInv
<1> QED BY <1>1, InitIndInv, NextKeeps, PTL DEF Spec
=============================================================================
