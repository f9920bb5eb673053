------------------------------- MODULE Debounce -------------------------------
(***************************************************************************)
(* The debouncer of pilot/pkg/proxy/envoy/v2/discovery.go: event sources   *)
(* call ConfigUpdate, which sends on a bounded channel; one goroutine      *)
(* merges what arrives and starts Push when things have been quiet for     *)
(* DebounceAfter or the oldest event is DebounceMax old, one Push at a     *)
(* time.                                                                   *)
(*                                                                         *)
(* Time is discrete.  sinceStart and sinceLast are the ages of             *)
(* startDebounce and lastConfigUpdateTime; timer is what is left of        *)
(* timeChan: Off when it is nil or was received from, 0 when it has fired  *)
(* and was not yet received.  debouncedEvents is zero exactly when req is  *)
(* nil and is left out.                                                    *)
(*                                                                         *)
(* edsUpdate (eds.go) calls ConfigUpdate with the server's mutex held, and *)
(* a full Push takes the same mutex (updateServiceShards -> edsUpdate) and *)
(* may send to the channel as well: the model keeps who holds the mutex.   *)
(***************************************************************************)
EXTENDS PushRequest, Sequences

CONSTANTS
    DebounceAfter, DebounceMax,
    ChanCap,             \* capacity of pushChannel
    Callers,             \* goroutines that call ConfigUpdate
    Requests,            \* what they pass
    MaxBurst,            \* bound: calls between two clock ticks
    MaxImmediate,        \* bound: undebounced EDS pushes running at once
    Off, Nobody, PushGoroutine

ASSUME DebounceAssumption ==
    /\ DebounceAfter \in Nat \ {0} /\ DebounceMax \in Nat \ {0}
    /\ ChanCap \in Nat \ {0} /\ MaxBurst \in Nat /\ MaxImmediate \in Nat
    /\ Requests \subseteq PushRequests
    /\ Off \notin Nat
    /\ Nobody \notin Callers /\ PushGoroutine \notin Callers /\ Nobody # PushGoroutine

VARIABLES
    ch,          \* pushChannel
    caller,      \* caller -> the request it is sending, or NoReq
    mutex,       \* holder of DiscoveryServer.mutex
    req,         \* merged request, or NoReq
    timer, sinceStart, sinceLast,
    free,
    freeCh,      \* number of tokens in freeCh
    pusher,      \* the goroutine running push: its request and stage
    immediate,   \* requests of goroutines running pushFn directly
    burst,
    EnableEDSDebounce,  \* PILOT_ENABLE_EDS_DEBOUNCE, set at the start
    late         \* history: time has passed, since the first event of req, while
                 \* the debouncer had something to do

loopVars == <<req, timer, sinceStart, sinceLast, free, late>>
debounceVars == <<ch, caller, mutex, loopVars, freeCh, pusher, immediate, burst,
                  EnableEDSDebounce>>

NoPush == [stage |-> "none", req |-> NoReq]
MaxAge == DebounceMax + DebounceAfter   \* bound: older is as good as this old

Init ==
    /\ ch = <<>>
    /\ caller = [c \in Callers |-> NoReq]
    /\ mutex = Nobody
    /\ req = NoReq
    /\ timer = Off
    /\ sinceStart = MaxAge
    /\ sinceLast = MaxAge
    /\ free = TRUE
    /\ freeCh = 0
    /\ pusher = NoPush
    /\ immediate = <<>>
    /\ burst = 0
    /\ EnableEDSDebounce \in BOOLEAN
    /\ late = FALSE

-----------------------------------------------------------------------------
(* An event source calls ConfigUpdate, by way of edsUpdate with the mutex  *)
(* (Lock) or directly (config and service handlers).                       *)
Call(c, r) ==
    /\ burst < MaxBurst
    /\ caller[c] = NoReq
    /\ \/ mutex = Nobody /\ mutex' = c
       \/ r.full /\ UNCHANGED mutex
    /\ caller' = [caller EXCEPT ![c] = r]
    /\ burst' = burst + 1
    /\ UNCHANGED <<ch, loopVars, freeCh, pusher, immediate, EnableEDSDebounce>>

(* func ConfigUpdate: the send, blocked while the channel is full, then    *)
(* edsUpdate's deferred Unlock.                                            *)
ConfigUpdate(c) ==
    /\ caller[c] # NoReq
    /\ Len(ch) < ChanCap
    /\ ch' = Append(ch, caller[c])
    /\ caller' = [caller EXCEPT ![c] = NoReq]
    /\ mutex' = IF mutex = c THEN Nobody ELSE mutex
    /\ UNCHANGED <<loopVars, freeCh, pusher, immediate, burst, EnableEDSDebounce>>

-----------------------------------------------------------------------------
(* func debounce, the closure pushWorker: push what there is when it is    *)
(* due, otherwise look again later.                                        *)
PushIfDue(due, idle, timerLeft) ==
    IF due
    THEN /\ timer' = timerLeft
         /\ IF req # NoReq
            THEN /\ free' = FALSE
                 /\ pusher' = [stage |-> "run", req |-> req]
                 /\ req' = NoReq
            ELSE free' = idle /\ UNCHANGED <<pusher, req>>
    ELSE /\ timer' = DebounceAfter - sinceLast
         /\ free' = idle
         /\ UNCHANGED <<pusher, req>>

(* Mutant: no limit on how long events are gathered. *)
PushWorkerNoMax(idle, timerLeft) ==
    PushIfDue(sinceLast >= DebounceAfter, idle, timerLeft)

(* Mutant: the timer is re-armed for what is left of debounceMax. *)
PushWorkerRearmsLate(idle, timerLeft) ==
    IF sinceStart >= DebounceMax \/ sinceLast >= DebounceAfter
    THEN PushIfDue(TRUE, idle, timerLeft)
    ELSE /\ timer' = DebounceMax - sinceLast
         /\ free' = idle
         /\ UNCHANGED <<pusher, req>>

(* Mutant: free is not cleared when a push starts. *)
PushWorkerStaysFree(idle, timerLeft) ==
    /\ timer' = timerLeft
    /\ free' = idle
    /\ IF req # NoReq
       THEN pusher' = [stage |-> "run", req |-> req] /\ req' = NoReq
       ELSE UNCHANGED <<pusher, req>>

(* What there is is due when it is old enough or things have been quiet. *)
PushWorker(idle, timerLeft) ==
    PushIfDue(sinceStart >= DebounceMax \/ sinceLast >= DebounceAfter, idle, timerLeft)

(* Mutant: the end of a push does not look at what gathered meanwhile. *)
ReceiveFreeOnly ==
    /\ freeCh > 0
    /\ freeCh' = freeCh - 1
    /\ free' = TRUE
    /\ UNCHANGED <<ch, caller, mutex, req, timer, sinceStart, sinceLast, late, pusher,
                   immediate, burst, EnableEDSDebounce>>

(* case <-freeCh *)
ReceiveFree ==
    /\ freeCh > 0
    /\ freeCh' = freeCh - 1
    /\ PushWorker(TRUE, timer)
    /\ UNCHANGED <<ch, caller, mutex, sinceStart, sinceLast, late, immediate, burst,
                   EnableEDSDebounce>>

(* case r := <-ch, for an update that is debounced; gathered is what req   *)
(* becomes.                                                                *)
Gather(gathered) ==
    /\ ch # <<>>
    /\ EnableEDSDebounce \/ Head(ch).full
    /\ req' = gathered
    /\ ch' = Tail(ch)
    /\ sinceLast' = 0
    /\ IF req = NoReq THEN timer' = DebounceAfter /\ sinceStart' = 0 /\ late' = FALSE
                      ELSE UNCHANGED <<timer, sinceStart, late>>
    /\ UNCHANGED <<caller, mutex, free, freeCh, pusher, immediate, burst, EnableEDSDebounce>>

(* Mutant: the latest update replaces what was gathered. *)
ReceiveUpdateReplaces == Gather(Head(ch))

(* Mutant: updates are not received while a push runs. *)
ReceiveUpdateWhenFree == free /\ Gather(Merge(req, Head(ch)))

ReceiveUpdate == Gather(Merge(req, Head(ch)))

(* case r := <-ch, "trigger push now, just for EDS" *)
ReceiveImmediate ==
    /\ ch # <<>>
    /\ ~EnableEDSDebounce /\ ~Head(ch).full
    /\ Len(immediate) < MaxImmediate
    /\ immediate' = Append(immediate, Head(ch))
    /\ ch' = Tail(ch)
    /\ UNCHANGED <<caller, mutex, loopVars, freeCh, pusher, burst, EnableEDSDebounce>>

(* case <-timeChan *)
ReceiveTimer ==
    /\ timer = 0
    /\ IF free THEN PushWorker(TRUE, Off)
               ELSE timer' = Off /\ UNCHANGED <<req, free, pusher>>
    /\ UNCHANGED <<ch, caller, mutex, sinceStart, sinceLast, late, freeCh, immediate, burst,
                   EnableEDSDebounce>>

-----------------------------------------------------------------------------
(* func Push in the push goroutine.  A full one reconciles the shards of   *)
(* non-Kubernetes services under the mutex; for a service that has lost    *)
(* its endpoints edsUpdate asks for an incremental push on the way.        *)
PushLocks ==
    /\ pusher.stage = "run" /\ pusher.req.full
    /\ mutex = Nobody
    /\ burst < MaxBurst
    /\ mutex' = PushGoroutine
    /\ pusher' = [pusher EXCEPT !.stage = "sending"]
    /\ burst' = burst + 1
    /\ UNCHANGED <<ch, caller, loopVars, freeCh, immediate, EnableEDSDebounce>>

PushSends(r) ==
    /\ pusher.stage = "sending"
    /\ ~r.full
    /\ Len(ch) < ChanCap
    /\ ch' = Append(ch, r)
    /\ mutex' = Nobody
    /\ pusher' = [pusher EXCEPT !.stage = "run"]
    /\ UNCHANGED <<caller, loopVars, freeCh, immediate, burst, EnableEDSDebounce>>

(* pushFn(req) returns. *)
PushReturns ==
    /\ pusher.stage = "run"
    /\ pusher.req.full => mutex = Nobody
    /\ pusher' = [pusher EXCEPT !.stage = "returned"]
    /\ UNCHANGED <<ch, caller, mutex, loopVars, freeCh, immediate, burst, EnableEDSDebounce>>

(* freeCh <- struct{}{}, a channel of capacity 1 *)
PushFrees ==
    /\ pusher.stage = "returned"
    /\ freeCh < 1
    /\ freeCh' = freeCh + 1
    /\ pusher' = NoPush
    /\ UNCHANGED <<ch, caller, mutex, loopVars, immediate, burst, EnableEDSDebounce>>

ImmediateReturns ==
    /\ immediate # <<>>
    /\ immediate' = Tail(immediate)
    /\ UNCHANGED <<ch, caller, mutex, loopVars, freeCh, pusher, burst, EnableEDSDebounce>>

-----------------------------------------------------------------------------
Older(age) == IF age < MaxAge THEN age + 1 ELSE age

Ready == ch # <<>> \/ timer = 0 \/ freeCh > 0

Tick ==
    /\ late' = (late \/ Ready)
    /\ sinceStart' = Older(sinceStart)
    /\ sinceLast' = Older(sinceLast)
    /\ timer' = IF timer \in {Off, 0} THEN timer ELSE timer - 1
    /\ burst' = 0
    /\ UNCHANGED <<ch, caller, mutex, req, free, freeCh, pusher, immediate, EnableEDSDebounce>>

Receive == ReceiveFree \/ ReceiveUpdate \/ ReceiveImmediate \/ ReceiveTimer

Next ==
    \/ \E c \in Callers, r \in Requests : Call(c, r)
    \/ \E c \in Callers : ConfigUpdate(c)
    \/ Receive
    \/ \E r \in Requests : PushSends(r)
    \/ PushLocks \/ PushReturns \/ PushFrees \/ ImmediateReturns
    \/ Tick

(* select chooses at random among the cases that are ready, so each of     *)
(* them is taken eventually; time passes.  The waiters of a Go mutex and   *)
(* of a channel are served in order, so whoever keeps finding the mutex    *)
(* free or room in the channel gets it: strong fairness.                   *)
Fairness ==
    /\ WF_debounceVars(ReceiveFree) /\ WF_debounceVars(ReceiveTimer)
    /\ WF_debounceVars(ReceiveUpdate) /\ WF_debounceVars(ReceiveImmediate)
    /\ \A c \in Callers : SF_debounceVars(ConfigUpdate(c))
    /\ SF_debounceVars(\E r \in Requests : PushSends(r))
    /\ SF_debounceVars(PushReturns) /\ WF_debounceVars(PushFrees)
    /\ WF_debounceVars(ImmediateReturns)
    /\ WF_debounceVars(Tick)

Spec == Init /\ [][Next]_debounceVars
FairSpec == Spec /\ Fairness

-----------------------------------------------------------------------------
Ages == 0..MaxAge

TypeOK ==
    /\ ch \in Seq(PushRequests)
    /\ caller \in [Callers -> PushRequests \cup {NoReq}]
    /\ mutex \in Callers \cup {Nobody, PushGoroutine}
    /\ req \in PushRequests \cup {NoReq}
    /\ timer \in (0..DebounceAfter) \cup {Off}
    /\ sinceStart \in Ages /\ sinceLast \in Ages
    /\ free \in BOOLEAN
    /\ freeCh \in 0..1
    /\ pusher \in {NoPush} \cup [stage : {"run", "sending", "returned"}, req : PushRequests]
    /\ immediate \in Seq(PushRequests)
    /\ burst \in Nat
    /\ EnableEDSDebounce \in BOOLEAN /\ late \in BOOLEAN

(* free says exactly whether a debounced push is under way, up to the      *)
(* token the push leaves in freeCh.  So pushes never overlap, and the send *)
(* on freeCh never blocks the push goroutine.                              *)
OnePushAtATime == free <=> (pusher = NoPush /\ freeCh = 0)

(* The debouncer never forgets a request it holds: a timer will make it    *)
(* look again, or the end of the running push will (a timer that fires     *)
(* during a push is thrown away).                                          *)
NeverStuck == req # NoReq => (timer # Off \/ ~free)

(* If the debouncer has been prompt since the first event of a held        *)
(* request, then while no push is running the next look at it comes less   *)
(* than DebounceMax + DebounceAfter after that event, and the look pushes  *)
(* once DebounceMax is over: events that keep arriving cannot hold it back *)
(* longer.  (The timer is re-armed from the last event, so it can pass     *)
(* DebounceMax by nearly DebounceAfter.)                                   *)
DelayBound ==
    (req # NoReq /\ free /\ ~late) =>
        /\ timer # Off
        /\ sinceStart + timer < DebounceMax + DebounceAfter

-----------------------------------------------------------------------------
(* The debouncer as a PushCoalescer with one client, the server: asked for *)
(* are the requests being sent, in the channel and merged, except those    *)
(* that will not be debounced.                                             *)
InChannel == {ch[i] : i \in 1..Len(ch)}

Server == {"server"}
DebouncedWants(r) == IF EnableEDSDebounce \/ (r # NoReq /\ r.full) THEN Wants(r) ELSE {}

owedMap ==
    [s \in Server |-> Wants(req) \cup (UNION {DebouncedWants(r) : r \in InChannel})
                                \cup (UNION {DebouncedWants(caller[c]) : c \in Callers})]
currentMap == [s \in Server |-> Wants(pusher.req)]

Coalescer == INSTANCE PushCoalescer
                 WITH Conns <- Server, owed <- owedMap, current <- currentMap,
                      Items <- AllWants

(* The debouncer only coalesces: nothing debounced is lost between         *)
(* ConfigUpdate, the channel, the merged request and the push, one push    *)
(* runs at a time, and incremental updates that go past the debouncer,     *)
(* when EDS debouncing is off, do not disturb it.                          *)
ImplementsCoalescer == Coalescer!Spec

(* Whatever is asked is eventually part of a push, even if events never    *)
(* stop arriving.                                                          *)
EventuallyPushed == Coalescer!Served

(* Nobody stays blocked in ConfigUpdate, although callers block with the   *)
(* server's mutex held and the push they wait for needs that mutex and may *)
(* send on the same channel.                                               *)
CallersReturn == \A c \in Callers : (caller[c] # NoReq) ~> (caller[c] = NoReq)

=============================================================================
