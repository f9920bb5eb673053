--------------------------- MODULE DebounceProofs ----------------------------
(***************************************************************************)
(* Theorems about Debounce for any durations, channel capacity, callers    *)
(* and requests.                                                           *)
(***************************************************************************)
EXTENDS Debounce, PushRequestProofs

(* A push that has left its token in freeCh is over: needed so that the    *)
(* token makes free true only when no push is running.                     *)
TokenAfterPush == pusher # NoPush => freeCh = 0

DebounceInv == TypeOK /\ OnePushAtATime /\ TokenAfterPush /\ NeverStuck

(* An idle debouncer satisfies the inductive invariant. *)
LEMMA DebounceInit == Init => DebounceInv
<1> SUFFICES ASSUME Init PROVE DebounceInv
  OBVIOUS
<1>1. MaxAge \in Ages
  BY DebounceAssumption DEF Ages, MaxAge
<1>2. free \in BOOLEAN /\ EnableEDSDebounce \in BOOLEAN /\ late \in BOOLEAN
  BY DEF Init
<1>3. TypeOK
  BY <1>1, <1>2, DebounceAssumption DEF Init, TypeOK
<1> QED
  BY <1>3 DEF Init, DebounceInv, OnePushAtATime, TokenAfterPush, NeverStuck

(* pushWorker, called with free about to be idle and with the timer about  *)
(* to be timerLeft, keeps hold of the request or pushes it.                *)
LEMMA PushWorkerInv ==
    ASSUME TypeOK, NEW timerLeft \in (0..DebounceAfter) \cup {Off},
           pusher = NoPush, freeCh' = 0, PushWorker(TRUE, timerLeft)
    PROVE  /\ timer' \in (0..DebounceAfter) \cup {Off}
           /\ req' \in PushRequests \cup {NoReq}
           /\ free' \in BOOLEAN
           /\ pusher' \in {NoPush} \cup [stage : {"run", "sending", "returned"}, req : PushRequests]
           /\ OnePushAtATime' /\ TokenAfterPush' /\ NeverStuck'
<1> USE DebounceAssumption
<1>1. CASE /\ sinceStart >= DebounceMax \/ sinceLast >= DebounceAfter
           /\ req # NoReq
  <2>1. /\ timer' = timerLeft /\ free' = FALSE /\ req' = NoReq
        /\ pusher' = [stage |-> "run", req |-> req]
    BY <1>1 DEF PushWorker, PushIfDue
  <2>2. pusher' # NoPush
    BY <2>1 DEF NoPush
  <2> QED
    BY <1>1, <2>1, <2>2 DEF TypeOK, OnePushAtATime, TokenAfterPush, NeverStuck
<1>2. CASE /\ sinceStart >= DebounceMax \/ sinceLast >= DebounceAfter
           /\ req = NoReq
  BY <1>2 DEF PushWorker, PushIfDue, TypeOK, OnePushAtATime, TokenAfterPush, NeverStuck
<1>3. CASE ~(sinceStart >= DebounceMax \/ sinceLast >= DebounceAfter)
  <2>1. timer' = DebounceAfter - sinceLast /\ free' = TRUE /\ pusher' = pusher /\ req' = req
    BY <1>3 DEF PushWorker, PushIfDue
  <2>2. sinceLast \in Nat /\ sinceLast < DebounceAfter
    BY <1>3 DEF TypeOK, Ages, MaxAge
  <2>3. timer' \in 0..DebounceAfter /\ timer' # Off
    BY <2>1, <2>2
  <2> QED
    BY <2>1, <2>3 DEF TypeOK, OnePushAtATime, TokenAfterPush, NeverStuck
<1> QED BY <1>1, <1>2, <1>3

(* Every step of events, timers, push workers and clock keeps the invariant. *)
LEMMA DebounceNext == DebounceInv /\ [Next]_debounceVars => DebounceInv'
<1> SUFFICES ASSUME DebounceInv, [Next]_debounceVars PROVE DebounceInv'
  OBVIOUS
<1> USE DebounceAssumption DEF DebounceInv
<1>1. CASE \E c \in Callers, r \in Requests : Call(c, r)
  BY <1>1 DEF Call, TypeOK, OnePushAtATime, TokenAfterPush, NeverStuck, loopVars
<1>2. CASE \E c \in Callers : ConfigUpdate(c)
  BY <1>2 DEF ConfigUpdate, TypeOK, OnePushAtATime, TokenAfterPush, NeverStuck, loopVars
<1>3. CASE ReceiveFree
  <2>1. freeCh = 1 /\ freeCh' = 0 /\ pusher = NoPush
    BY <1>3 DEF ReceiveFree, TypeOK, TokenAfterPush
  <2>2. PushWorker(TRUE, timer) /\ timer \in (0..DebounceAfter) \cup {Off}
    BY <1>3 DEF ReceiveFree, TypeOK
  <2>3. /\ timer' \in (0..DebounceAfter) \cup {Off}
        /\ req' \in PushRequests \cup {NoReq}
        /\ free' \in BOOLEAN
        /\ pusher' \in {NoPush} \cup [stage : {"run", "sending", "returned"}, req : PushRequests]
        /\ OnePushAtATime' /\ TokenAfterPush' /\ NeverStuck'
    BY <2>1, <2>2, PushWorkerInv
  <2>4. TypeOK'
    BY <1>3, <2>1, <2>3 DEF ReceiveFree, TypeOK
  <2> QED
    BY <2>3, <2>4
<1>4. CASE ReceiveUpdate
  <2>1. Head(ch) \in PushRequests /\ Tail(ch) \in Seq(PushRequests)
    BY <1>4 DEF ReceiveUpdate, Gather, TypeOK
  <2>2. req' \in PushRequests
    BY <1>4, <2>1, MergeType DEF ReceiveUpdate, Gather, TypeOK
  <2>3. TypeOK'
    <3>1. 0 \in Ages
      BY DEF Ages, MaxAge
    <3>2. late' \in BOOLEAN /\ sinceStart' \in Ages /\ timer' \in (0..DebounceAfter) \cup {Off}
      <4>1. CASE req = NoReq
        <5>1. late' = FALSE /\ sinceStart' = 0 /\ timer' = DebounceAfter
          BY <1>4, <4>1 DEF ReceiveUpdate, Gather
        <5>2. FALSE \in BOOLEAN /\ DebounceAfter \in 0..DebounceAfter
          OBVIOUS
        <5>3. late' \in BOOLEAN
          BY <5>1, <5>2, Zenon
        <5> QED
          BY <3>1, <5>1, <5>2, <5>3
      <4>2. CASE req # NoReq
        BY <1>4, <4>2 DEF ReceiveUpdate, Gather, TypeOK
      <4> QED BY <4>1, <4>2
    <3> QED
      BY <1>4, <2>1, <2>2, <3>1, <3>2 DEF ReceiveUpdate, Gather, TypeOK
  <2>4. NeverStuck'
    <3>1. CASE req = NoReq
      BY <1>4, <3>1 DEF ReceiveUpdate, Gather, NeverStuck
    <3>2. CASE req # NoReq
      BY <1>4, <3>2 DEF ReceiveUpdate, Gather, NeverStuck
    <3> QED BY <3>1, <3>2
  <2> QED
    BY <1>4, <2>3, <2>4 DEF ReceiveUpdate, Gather, OnePushAtATime, TokenAfterPush
<1>5. CASE ReceiveImmediate
  <2>1. Head(ch) \in PushRequests /\ Tail(ch) \in Seq(PushRequests)
    BY <1>5 DEF ReceiveImmediate, TypeOK
  <2>2. TypeOK'
    BY <1>5, <2>1 DEF ReceiveImmediate, TypeOK, loopVars
  <2> QED
    BY <1>5, <2>2 DEF ReceiveImmediate, OnePushAtATime, TokenAfterPush, NeverStuck, loopVars
<1>6. CASE ReceiveTimer
  <2>1. CASE free
    <3>1. pusher = NoPush /\ freeCh' = 0 /\ PushWorker(TRUE, Off)
      BY <1>6, <2>1 DEF ReceiveTimer, OnePushAtATime
    <3> QED
      BY <1>6, <3>1, PushWorkerInv DEF ReceiveTimer, TypeOK
  <2>2. CASE ~free
    BY <1>6, <2>2 DEF ReceiveTimer, TypeOK, OnePushAtATime, TokenAfterPush, NeverStuck
  <2> QED BY <2>1, <2>2
<1>7. CASE \E r \in Requests : PushSends(r)
  <2>1. PICK r \in Requests : PushSends(r)
    BY <1>7
  <2>2. r \in PushRequests /\ pusher # NoPush
    BY <2>1 DEF PushSends, NoPush
  <2>3. pusher' \in [stage : {"run", "sending", "returned"}, req : PushRequests]
    BY <2>1, <2>2 DEF PushSends, TypeOK
  <2>4. pusher' # NoPush
    BY <2>3 DEF NoPush
  <2> QED
    BY <2>1, <2>2, <2>3, <2>4
    DEF PushSends, TypeOK, OnePushAtATime, TokenAfterPush, NeverStuck, loopVars
<1>8. CASE PushLocks
  <2>1. pusher # NoPush
    BY <1>8 DEF PushLocks, NoPush
  <2>2. pusher' \in [stage : {"run", "sending", "returned"}, req : PushRequests]
    BY <1>8, <2>1 DEF PushLocks, TypeOK
  <2>3. pusher' # NoPush
    BY <2>2 DEF NoPush
  <2> QED
    BY <1>8, <2>1, <2>2, <2>3
    DEF PushLocks, TypeOK, OnePushAtATime, TokenAfterPush, NeverStuck, loopVars
<1>9. CASE PushReturns
  <2>1. pusher # NoPush
    BY <1>9 DEF PushReturns, NoPush
  <2>2. pusher' \in [stage : {"run", "sending", "returned"}, req : PushRequests]
    BY <1>9, <2>1 DEF PushReturns, TypeOK
  <2>3. pusher' # NoPush
    BY <2>2 DEF NoPush
  <2> QED
    BY <1>9, <2>1, <2>2, <2>3
    DEF PushReturns, TypeOK, OnePushAtATime, TokenAfterPush, NeverStuck, loopVars
<1>10. CASE PushFrees
  <2>1. pusher # NoPush
    BY <1>10 DEF PushFrees, NoPush
  <2> QED
    BY <1>10, <2>1 DEF PushFrees, TypeOK, OnePushAtATime, TokenAfterPush, NeverStuck, loopVars
<1>11. CASE ImmediateReturns
  <2>1. Tail(immediate) \in Seq(PushRequests)
    BY <1>11 DEF ImmediateReturns, TypeOK
  <2> QED
    BY <1>11, <2>1
    DEF ImmediateReturns, TypeOK, OnePushAtATime, TokenAfterPush, NeverStuck, loopVars
<1>12. CASE Tick
  BY <1>12 DEF Tick, Older, TypeOK, Ages, MaxAge, OnePushAtATime, TokenAfterPush, NeverStuck
<1>13. CASE UNCHANGED debounceVars
  BY <1>13 DEF debounceVars, loopVars, TypeOK, OnePushAtATime, TokenAfterPush, NeverStuck
<1> QED
  BY <1>1, <1>2, <1>3, <1>4, <1>5, <1>6, <1>7, <1>8, <1>9, <1>10, <1>11, <1>12, <1>13
  DEF Next, Receive

(* The invariant holds in every behaviour of the debouncer. *)
LEMMA DebounceInvariant == Spec => []DebounceInv
  BY DebounceInit, DebounceNext, PTL DEF Spec

(* The debouncer's variables keep their types. *)
THEOREM DebounceTypeCorrect == Spec => []TypeOK
  BY DebounceInvariant, PTL DEF DebounceInv

(* Debounced pushes never overlap, and the goroutine of a push always      *)
(* finds room in freeCh when it reports its end.                           *)
THEOREM DebouncePushesAlone == Spec => []OnePushAtATime
  BY DebounceInvariant, PTL DEF DebounceInv

(* A request the debouncer holds always has a timer or the end of a push   *)
(* that will bring it up again.                                            *)
THEOREM DebounceCorrect == Spec => []NeverStuck
  BY DebounceInvariant, PTL DEF DebounceInv

-----------------------------------------------------------------------------
(* The bound on the delay of a request the debouncer has been prompt with. *)
(* It does not depend on free: a timer armed during a push obeys it as     *)
(* well, which is what makes it inductive.                                 *)
TimerBound ==
    (req # NoReq /\ timer # Off /\ ~late) =>
        sinceStart + timer < DebounceMax + DebounceAfter

(* pushWorker keeps the bound on the armed timer and on the age of the request. *)
LEMMA TimerBoundWorker ==
    ASSUME TypeOK, TimerBound, NEW idle \in BOOLEAN,
           \/ PushWorker(idle, timer)
           \/ PushWorker(idle, Off),
           sinceStart' = sinceStart, late' = late
    PROVE  TimerBound'
<1> USE DebounceAssumption
<1>1. sinceStart \in Nat /\ sinceLast \in Nat
  BY DEF TypeOK, Ages, MaxAge
<1>2. CASE sinceStart >= DebounceMax \/ sinceLast >= DebounceAfter
  <2>1. CASE req # NoReq
    <3>1. req' = NoReq
      BY <1>2, <2>1 DEF PushWorker, PushIfDue
    <3> QED BY <3>1 DEF TimerBound
  <2>2. CASE req = NoReq
    <3>1. req' = NoReq
      BY <1>2, <2>2 DEF PushWorker, PushIfDue
    <3> QED BY <3>1 DEF TimerBound
  <2> QED BY <2>1, <2>2
<1>3. CASE ~(sinceStart >= DebounceMax \/ sinceLast >= DebounceAfter)
  <2>1. timer' = DebounceAfter - sinceLast
    BY <1>3 DEF PushWorker, PushIfDue
  <2>2. sinceStart < DebounceMax
    BY <1>1, <1>3
  <2> QED
    BY <1>1, <2>1, <2>2 DEF TimerBound
<1> QED BY <1>2, <1>3

(* Every step keeps the bound on timer and age: a clock tick that finds the *)
(* debouncer with something to do makes the request late instead.          *)
LEMMA TimerBoundNext ==
    ASSUME TypeOK, TimerBound, [Next]_debounceVars
    PROVE  TimerBound'
<1> USE DebounceAssumption
<1>1. CASE UNCHANGED <<req, timer, sinceStart, late>>
  BY <1>1 DEF TimerBound
<1>2. CASE ReceiveFree
  BY <1>2, TimerBoundWorker DEF ReceiveFree
<1>3. CASE ReceiveUpdate
  <2>1. CASE req = NoReq
    BY <1>3, <2>1 DEF ReceiveUpdate, Gather, TimerBound
  <2>2. CASE req # NoReq
    BY <1>3, <2>2 DEF ReceiveUpdate, Gather, TimerBound
  <2> QED BY <2>1, <2>2
<1>4. CASE ReceiveTimer
  <2>1. CASE free
    BY <1>4, <2>1, TimerBoundWorker DEF ReceiveTimer
  <2>2. CASE ~free
    BY <1>4, <2>2 DEF ReceiveTimer, TimerBound
  <2> QED BY <2>1, <2>2
<1>5. CASE Tick
  <2> SUFFICES ASSUME ~late' PROVE TimerBound'
    BY DEF TimerBound
  <2>1. timer # 0 /\ req' = req /\ ~late
    BY <1>5 DEF Tick, Ready
  <2>2. CASE timer = Off
    BY <1>5, <2>2 DEF Tick, TimerBound
  <2>3. CASE timer # Off
    <3>1. timer \in Nat /\ timer > 0 /\ sinceStart \in Nat
      BY <2>1, <2>3 DEF TypeOK, Ages, MaxAge
    <3>2. timer' = timer - 1
      BY <1>5, <2>1, <2>3 DEF Tick
    <3>3. sinceStart' \in Nat /\ sinceStart' <= sinceStart + 1
      BY <1>5, <3>1 DEF Tick, Older
    <3>4. \A age, newAge, left, bound \in Nat :
            (left > 0 /\ newAge <= age + 1 /\ age + left < bound) => newAge + (left - 1) < bound
      OBVIOUS
    <3>5. CASE req # NoReq
      <4>1. DebounceMax + DebounceAfter \in Nat
        OBVIOUS
      <4>2. sinceStart + timer < DebounceMax + DebounceAfter
        BY <2>1, <2>3, <3>5 DEF TimerBound
      <4>3. sinceStart' + (timer - 1) < DebounceMax + DebounceAfter
        BY <3>1, <3>3, <3>4, <4>1, <4>2
      <4> QED BY <3>2, <4>3 DEF TimerBound
    <3>6. CASE req = NoReq
      BY <2>1, <3>6 DEF TimerBound
    <3> QED BY <3>5, <3>6
  <2> QED BY <2>2, <2>3
<1> QED
  BY <1>1, <1>2, <1>3, <1>4, <1>5
  DEF Next, Receive, debounceVars, loopVars, Call, ConfigUpdate, ReceiveImmediate,
      PushLocks, PushSends, PushReturns, PushFrees, ImmediateReturns

(* While no push is running, a request waits less than DebounceMax plus    *)
(* DebounceAfter, however events keep arriving, provided the debouncer     *)
(* goroutine has been scheduled promptly since its first event.            *)
THEOREM DelayIsBounded == Spec => []DelayBound
<1>1. Init => TimerBound
  BY DEF Init, TimerBound
<1>2. DebounceInv /\ TimerBound /\ [Next]_debounceVars => TimerBound'
  BY TimerBoundNext DEF DebounceInv
<1>3. DebounceInv /\ TimerBound => DelayBound
  BY DEF DebounceInv, NeverStuck, TimerBound, DelayBound
<1> QED
  BY <1>1, <1>2, <1>3, DebounceInit, DebounceNext, PTL DEF Spec

-----------------------------------------------------------------------------
(* The debouncer implements PushCoalescer.  What is owed, spelled out      *)
(* place by place.                                                         *)
Sent(x) == \E i \in 1..Len(ch) : x \in DebouncedWants(ch[i])
Sending(x) == \E c \in Callers : x \in DebouncedWants(caller[c])
OwedNow(x) == x \in Wants(req) \/ Sent(x) \/ Sending(x)

owedSet == owedMap["server"]
currentSet == currentMap["server"]

(* What is owed is what is merged, in the channel or being sent. *)
LEMMA OwedPlaces ==
    /\ \A x : x \in owedSet <=> OwedNow(x)
    /\ \A x : (x \in owedSet)' <=> OwedNow(x)'
<1>1. "server" \in Server
  BY DEF Server
<1>2. owedSet = Wants(req) \cup (UNION {DebouncedWants(r) : r \in InChannel})
                  \cup (UNION {DebouncedWants(caller[c]) : c \in Callers})
  BY <1>1 DEF owedSet, owedMap
<1>3. \A x : x \in UNION {DebouncedWants(r) : r \in InChannel} <=> Sent(x)
  BY Zenon DEF InChannel, Sent
<1>4. \A x : x \in UNION {DebouncedWants(caller[c]) : c \in Callers} <=> Sending(x)
  BY Zenon DEF Sending
<1>5. \A x : x \in owedSet <=> OwedNow(x)
  <2>1. PICK A, B : A = UNION {DebouncedWants(r) : r \in InChannel}
                    /\ B = UNION {DebouncedWants(caller[c]) : c \in Callers}
    OBVIOUS
  <2>2. owedSet = Wants(req) \cup A \cup B
    BY <1>2, <2>1
  <2>3. \A x : (x \in A <=> Sent(x)) /\ (x \in B <=> Sending(x))
    BY <1>3, <1>4, <2>1, Zenon
  <2> QED
    BY <2>2, <2>3 DEF OwedNow
<1>6. owedSet' = (Wants(req) \cup (UNION {DebouncedWants(r) : r \in InChannel})
                   \cup (UNION {DebouncedWants(caller[c]) : c \in Callers}))'
  BY <1>1, Zenon DEF owedSet, owedMap
<1>7. \A x : x \in (UNION {DebouncedWants(r) : r \in InChannel})' <=> Sent(x)'
  BY Zenon DEF InChannel, Sent
<1>8. \A x : x \in (UNION {DebouncedWants(caller[c]) : c \in Callers})' <=> Sending(x)'
  BY Zenon DEF Sending
<1>9. \A x : (x \in owedSet)' <=> OwedNow(x)'
  <2>1. PICK A, B : A = (UNION {DebouncedWants(r) : r \in InChannel})'
                    /\ B = (UNION {DebouncedWants(caller[c]) : c \in Callers})'
    OBVIOUS
  <2>2. owedSet' = Wants(req') \cup A \cup B
    BY <1>6, <2>1
  <2>3. \A x : (x \in A <=> Sent(x)') /\ (x \in B <=> Sending(x)')
    BY <1>7, <1>8, <2>1, Zenon
  <2> QED
    BY <2>2, <2>3 DEF OwedNow
<1> QED
  BY <1>5, <1>9

(* A send to the channel adds what the request asks for. *)
LEMMA SentAppended ==
    ASSUME TypeOK, NEW r \in PushRequests, ch' = Append(ch, r),
           EnableEDSDebounce' = EnableEDSDebounce
    PROVE  \A x : Sent(x)' <=> Sent(x) \/ x \in DebouncedWants(r)
<1>1. /\ Len(ch') = Len(ch) + 1 /\ Len(ch) \in Nat /\ ch'[Len(ch) + 1] = r
      /\ \A i \in 1..Len(ch) : ch'[i] = ch[i]
  BY DEF TypeOK
<1>2. \A i : DebouncedWants(ch[i])' = DebouncedWants(ch'[i])
  BY DEF DebouncedWants
<1>3. \A i : i \in 1..Len(ch') <=> (i \in 1..Len(ch) \/ i = Len(ch) + 1)
  BY <1>1
<1>4. ASSUME NEW x PROVE Sent(x)' <=> \E i \in 1..Len(ch') : x \in DebouncedWants(ch'[i])
  BY <1>2 DEF Sent
<1> QED
  BY <1>1, <1>3, <1>4, Zenon DEF Sent

(* A receive takes what the first request in the channel asks for. *)
LEMMA SentTaken ==
    ASSUME TypeOK, ch # <<>>, ch' = Tail(ch), EnableEDSDebounce' = EnableEDSDebounce
    PROVE  \A x : Sent(x) <=> Sent(x)' \/ x \in DebouncedWants(Head(ch))
<1>1. /\ Len(ch) \in Nat /\ Len(ch) > 0 /\ Len(ch') = Len(ch) - 1 /\ Head(ch) = ch[1]
      /\ \A i \in 1..Len(ch') : ch'[i] = ch[i + 1]
  BY DEF TypeOK
<1>2. \A i : DebouncedWants(ch[i])' = DebouncedWants(ch'[i])
  BY DEF DebouncedWants
<1> SUFFICES ASSUME NEW x PROVE Sent(x) <=> Sent(x)' \/ x \in DebouncedWants(Head(ch))
  OBVIOUS
<1>3. Sent(x)' <=> \E i \in 1..Len(ch') : x \in DebouncedWants(ch'[i])
  BY <1>2 DEF Sent
<1>4. ASSUME Sent(x) PROVE Sent(x)' \/ x \in DebouncedWants(Head(ch))
  <2>1. PICK i \in 1..Len(ch) : x \in DebouncedWants(ch[i])
    BY <1>4 DEF Sent
  <2>2. CASE i = 1
    BY <1>1, <2>1, <2>2
  <2>3. CASE i # 1
    <3>1. i - 1 \in 1..Len(ch') /\ ch'[i - 1] = ch[i]
      BY <1>1, <2>3
    <3> QED BY <1>3, <2>1, <3>1
  <2> QED BY <2>2, <2>3
<1>5. ASSUME Sent(x)' PROVE Sent(x)
  <2>1. PICK i \in 1..Len(ch') : x \in DebouncedWants(ch'[i])
    BY <1>3, <1>5
  <2>2. i + 1 \in 1..Len(ch) /\ ch'[i] = ch[i + 1]
    BY <1>1
  <2> QED BY <2>1, <2>2 DEF Sent
<1>6. ASSUME x \in DebouncedWants(Head(ch)) PROVE Sent(x)
  <2>1. 1 \in 1..Len(ch)
    BY <1>1
  <2> QED BY <1>1, <1>6, <2>1 DEF Sent
<1> QED
  BY <1>4, <1>5, <1>6

(* The nil request asks for nothing. *)
LEMMA NothingWanted == Wants(NoReq) = {} /\ DebouncedWants(NoReq) = {}
  BY DEF Wants, DebouncedWants

(* A step that adds what a request asks for is an Ask or a stutter. *)
LEMMA AskRefines ==
    ASSUME NEW S, S \subseteq AllWants, owedSet' = owedSet \cup S, currentSet' = currentSet
    PROVE  [Coalescer!Next]_(Coalescer!coalescerVars)
<1>1. currentMap' = currentMap
  BY DEF currentMap, currentSet, Server
<1>2. owedMap' = [owedMap EXCEPT !["server"] = @ \cup S]
  BY DEF owedMap, owedSet, Server
<1>3. CASE S = {}
  <2>1. owedMap' = owedMap
    BY <1>3 DEF owedMap, owedSet, Server
  <2> QED
    BY <1>1, <2>1 DEF Coalescer!coalescerVars
<1>4. CASE S # {}
  <2>1. Coalescer!Ask("server")
    BY <1>1, <1>2, <1>4 DEF Coalescer!Ask
  <2> QED
    BY <2>1 DEF Coalescer!Next, Server
<1> QED
  BY <1>3, <1>4

(* A step that moves no request is a stutter. *)
LEMMA QuietRefines ==
    ASSUME UNCHANGED <<ch, caller, req, EnableEDSDebounce>>, pusher'.req = pusher.req
    PROVE  [Coalescer!Next]_(Coalescer!coalescerVars)
<1>1. owedMap' = owedMap /\ currentMap' = currentMap
  BY DEF owedMap, currentMap, InChannel, DebouncedWants
<1> QED
  BY <1>1 DEF Coalescer!coalescerVars

(* A step that moves a request from one place to another is a stutter. *)
LEMMA SameRefines ==
    ASSUME owedSet' = owedSet, currentSet' = currentSet
    PROVE  [Coalescer!Next]_(Coalescer!coalescerVars)
<1>1. owedMap' = owedMap
  BY DEF owedMap, owedSet, Server
<1>2. currentMap' = currentMap
  BY DEF currentMap, currentSet, Server
<1> QED
  BY <1>1, <1>2 DEF Coalescer!coalescerVars

(* pushWorker gives everything that was merged to a push, or nothing. *)
LEMMA BeginRefines ==
    ASSUME DebounceInv, pusher = NoPush, NEW left, PushWorker(TRUE, left),
           UNCHANGED <<ch, caller, EnableEDSDebounce>>
    PROVE  [Coalescer!Next]_(Coalescer!coalescerVars)
<1>1. CASE req' = req /\ pusher' = pusher
  <2>1. owedMap' = owedMap /\ currentMap' = currentMap
    BY <1>1 DEF owedMap, currentMap, InChannel, DebouncedWants
  <2> QED
    BY <2>1 DEF Coalescer!coalescerVars
<1>2. CASE req # NoReq /\ pusher' = [stage |-> "run", req |-> req] /\ req' = NoReq
  <2>1. pusher'.req = req /\ currentSet = {} /\ currentSet' = Wants(req)
    BY <1>2, NothingWanted DEF currentSet, currentMap, Server, NoPush
  <2>2. owedSet = Wants(req) \cup owedSet'
    <3> SUFFICES ASSUME NEW x PROVE x \in owedSet <=> x \in Wants(req) \/ (x \in owedSet)'
      OBVIOUS
    <3>1. OwedNow(x)' <=> Sent(x) \/ Sending(x)
      BY <1>2, NothingWanted DEF OwedNow, Sent, Sending, DebouncedWants
    <3> QED
      BY <3>1, OwedPlaces DEF OwedNow
  <2>3. PICK kept : kept = owedSet'
    OBVIOUS
  <2>4. /\ owedMap' = [owedMap EXCEPT !["server"] = kept] /\ owedMap["server"] = Wants(req) \cup kept
        /\ currentMap' = [currentMap EXCEPT !["server"] = Wants(req)] /\ currentMap["server"] = {}
    BY <2>1, <2>2, <2>3 DEF owedSet, currentSet, owedMap, currentMap, Server
  <2>5. CASE Wants(req) = {}
    <3>1. owedMap' = owedMap /\ currentMap' = currentMap
      BY <2>4, <2>5 DEF owedMap, currentMap, Server
    <3> QED
      BY <3>1 DEF Coalescer!coalescerVars
  <2>6. CASE Wants(req) # {}
    <3>1. Coalescer!Begin("server")
      BY <2>4, <2>6 DEF Coalescer!Begin
    <3> QED
      BY <3>1 DEF Coalescer!Next, Server
  <2> QED
    BY <2>5, <2>6
<1> QED
  BY <1>1, <1>2 DEF PushWorker, PushIfDue

(* Every step of the debouncer is a step or a stutter of PushCoalescer. *)
LEMMA DebounceRefines ==
    ASSUME DebounceInv, [Next]_debounceVars
    PROVE  [Coalescer!Next]_(Coalescer!coalescerVars)
<1> USE DEF DebounceInv
<1>1. ASSUME NEW c \in Callers, NEW r \in Requests, Call(c, r)
      PROVE  [Coalescer!Next]_(Coalescer!coalescerVars)
  <2>1. /\ UNCHANGED <<ch, req, pusher, EnableEDSDebounce>> /\ caller[c] = NoReq
        /\ caller' = [caller EXCEPT ![c] = r]
    BY <1>1 DEF Call, loopVars
  <2>2. r \in PushRequests /\ DebouncedWants(r) \subseteq AllWants
    BY DebounceAssumption, WantsBound DEF DebouncedWants
  <2>3. caller'[c] = r /\ \A d \in Callers : d # c => caller'[d] = caller[d]
    BY <2>1 DEF TypeOK
  <2>4. \A x : Sending(x)' <=> Sending(x) \/ x \in DebouncedWants(r)
    <3> SUFFICES ASSUME NEW x PROVE Sending(x)' <=> Sending(x) \/ x \in DebouncedWants(r)
      OBVIOUS
    <3>1. \A y : DebouncedWants(y)' = DebouncedWants(y)
      BY <2>1 DEF DebouncedWants
    <3>2. \A d \in Callers : DebouncedWants(caller[d])' = DebouncedWants(caller'[d])
      BY <2>1 DEF DebouncedWants
    <3> QED
      BY <2>1, <2>3, <3>2, NothingWanted DEF Sending
  <2>5. owedSet' = owedSet \cup DebouncedWants(r)
    <3> SUFFICES ASSUME NEW x PROVE (x \in owedSet)' <=> x \in owedSet \/ x \in DebouncedWants(r)
      OBVIOUS
    <3>1. Sent(x)' <=> Sent(x)
      BY <2>1 DEF Sent, DebouncedWants
    <3> QED
      BY <2>1, <2>4, <3>1, OwedPlaces DEF OwedNow
  <2>6. currentSet' = currentSet
    BY <2>1 DEF currentSet, currentMap
  <2>7. PICK S : S = DebouncedWants(r)
    OBVIOUS
  <2> QED
    BY <2>2, <2>5, <2>6, <2>7, AskRefines

<1>2. ASSUME NEW c \in Callers, ConfigUpdate(c)
      PROVE  [Coalescer!Next]_(Coalescer!coalescerVars)
  <2>1. /\ UNCHANGED <<req, pusher, EnableEDSDebounce>>
        /\ caller[c] # NoReq /\ ch' = Append(ch, caller[c])
        /\ caller' = [caller EXCEPT ![c] = NoReq]
    BY <1>2 DEF ConfigUpdate, loopVars
  <2>2. caller[c] \in PushRequests
    BY <2>1 DEF TypeOK
  <2>3. PICK r : r = caller[c]
    OBVIOUS
  <2>4. \A x : Sent(x)' <=> Sent(x) \/ x \in DebouncedWants(r)
    BY <2>1, <2>2, <2>3, SentAppended
  <2>5. caller'[c] = NoReq /\ \A d \in Callers : d # c => caller'[d] = caller[d]
    BY <2>1 DEF TypeOK
  <2>6. \A x : Sending(x) <=> Sending(x)' \/ x \in DebouncedWants(r)
    <3> SUFFICES ASSUME NEW x PROVE Sending(x) <=> Sending(x)' \/ x \in DebouncedWants(r)
      OBVIOUS
    <3>1. \A d \in Callers : DebouncedWants(caller[d])' = DebouncedWants(caller'[d])
      BY <2>1 DEF DebouncedWants
    <3> QED
      BY <2>3, <2>5, <3>1, NothingWanted DEF Sending
  <2>7. owedSet' = owedSet
    <3> SUFFICES ASSUME NEW x PROVE (x \in owedSet)' <=> x \in owedSet
      OBVIOUS
    <3> QED
      BY <2>1, <2>4, <2>6, OwedPlaces DEF OwedNow
  <2>8. currentSet' = currentSet
    BY <2>1 DEF currentSet, currentMap
  <2> QED
    BY <2>7, <2>8, SameRefines
<1>3. ASSUME ReceiveUpdate
      PROVE  [Coalescer!Next]_(Coalescer!coalescerVars)
  <2>1. /\ UNCHANGED <<caller, pusher, EnableEDSDebounce>>
        /\ ch # <<>> /\ ch' = Tail(ch)
        /\ EnableEDSDebounce \/ Head(ch).full
        /\ req' = Merge(req, Head(ch))
    BY <1>3 DEF ReceiveUpdate, Gather
  <2>2. Head(ch) \in PushRequests
    BY <2>1 DEF TypeOK
  <2>3. DebouncedWants(Head(ch)) = Wants(Head(ch))
    BY <2>1, <2>2, PushRequestAssumption DEF DebouncedWants
  <2>4. Wants(req') = Wants(req) \cup Wants(Head(ch))
    BY <2>1, <2>2, MergeWants DEF TypeOK
  <2>5. \A x : Sent(x) <=> Sent(x)' \/ x \in Wants(Head(ch))
    BY <2>1, <2>3, SentTaken
  <2>6. \A x : Sending(x)' <=> Sending(x)
    BY <2>1 DEF Sending, DebouncedWants
  <2>7. owedSet' = owedSet
    <3> SUFFICES ASSUME NEW x PROVE (x \in owedSet)' <=> x \in owedSet
      OBVIOUS
    <3>1. x \in Wants(req') <=> x \in Wants(req) \/ x \in Wants(Head(ch))
      BY <2>4
    <3> QED
      BY <2>5, <2>6, <3>1, OwedPlaces DEF OwedNow
  <2>8. currentSet' = currentSet
    BY <2>1 DEF currentSet, currentMap
  <2> QED
    BY <2>7, <2>8, SameRefines
<1>4. ASSUME ReceiveImmediate
      PROVE  [Coalescer!Next]_(Coalescer!coalescerVars)
  <2>1. /\ UNCHANGED <<caller, req, pusher, EnableEDSDebounce>>
        /\ ch # <<>> /\ ch' = Tail(ch)
        /\ ~EnableEDSDebounce /\ ~Head(ch).full
    BY <1>4 DEF ReceiveImmediate, loopVars
  <2>2. DebouncedWants(Head(ch)) = {}
    BY <2>1 DEF DebouncedWants
  <2>3. \A x : Sent(x) <=> Sent(x)'
    BY <2>1, <2>2, SentTaken
  <2>4. \A x : Sending(x)' <=> Sending(x)
    BY <2>1 DEF Sending, DebouncedWants
  <2>5. owedSet' = owedSet
    <3> SUFFICES ASSUME NEW x PROVE (x \in owedSet)' <=> x \in owedSet
      OBVIOUS
    <3> QED
      BY <2>1, <2>3, <2>4, OwedPlaces DEF OwedNow
  <2>6. currentSet' = currentSet
    BY <2>1 DEF currentSet, currentMap
  <2> QED
    BY <2>5, <2>6, SameRefines
<1>5. ASSUME ReceiveFree
      PROVE  [Coalescer!Next]_(Coalescer!coalescerVars)
  <2>1. pusher = NoPush
    BY <1>5 DEF ReceiveFree, TypeOK, TokenAfterPush
  <2>2. PushWorker(TRUE, timer) /\ UNCHANGED <<ch, caller, EnableEDSDebounce>>
    BY <1>5 DEF ReceiveFree
  <2> QED
    BY <2>1, <2>2, BeginRefines
<1>6. ASSUME ReceiveTimer
      PROVE  [Coalescer!Next]_(Coalescer!coalescerVars)
  <2>1. UNCHANGED <<ch, caller, EnableEDSDebounce>>
    BY <1>6 DEF ReceiveTimer
  <2>2. CASE free
    <3>1. pusher = NoPush /\ PushWorker(TRUE, Off)
      BY <1>6, <2>2 DEF ReceiveTimer, OnePushAtATime
    <3> QED
      BY <2>1, <3>1, BeginRefines
  <2>3. CASE ~free
    <3>1. UNCHANGED <<req, pusher>>
      BY <1>6, <2>3 DEF ReceiveTimer
    <3> QED
      BY <2>1, <3>1, QuietRefines
  <2> QED BY <2>2, <2>3
<1>7. ASSUME NEW r \in Requests, PushSends(r)
      PROVE  [Coalescer!Next]_(Coalescer!coalescerVars)
  <2>1. /\ UNCHANGED <<caller, req, EnableEDSDebounce>>
        /\ ch' = Append(ch, r) /\ pusher' = [pusher EXCEPT !.stage = "run"]
    BY <1>7 DEF PushSends, loopVars
  <2>2. r \in PushRequests /\ DebouncedWants(r) \subseteq AllWants
    BY DebounceAssumption, WantsBound DEF DebouncedWants
  <2>3. \A x : Sent(x)' <=> Sent(x) \/ x \in DebouncedWants(r)
    BY <2>1, <2>2, SentAppended
  <2>4. \A x : Sending(x)' <=> Sending(x)
    BY <2>1 DEF Sending, DebouncedWants
  <2>5. owedSet' = owedSet \cup DebouncedWants(r)
    <3> SUFFICES ASSUME NEW x PROVE (x \in owedSet)' <=> x \in owedSet \/ x \in DebouncedWants(r)
      OBVIOUS
    <3> QED
      BY <2>1, <2>3, <2>4, OwedPlaces DEF OwedNow
  <2>6. pusher'.req = pusher.req
    BY <2>1 DEF TypeOK, NoPush
  <2>7. currentSet' = currentSet
    BY <2>6 DEF currentSet, currentMap
  <2>8. PICK S : S = DebouncedWants(r)
    OBVIOUS
  <2> QED
    BY <2>2, <2>5, <2>7, <2>8, AskRefines
<1>8. ASSUME PushLocks \/ PushReturns
      PROVE  [Coalescer!Next]_(Coalescer!coalescerVars)
  <2>1. pusher'.req = pusher.req
    BY <1>8 DEF PushLocks, PushReturns, TypeOK, NoPush
  <2> QED
    BY <1>8, <2>1, QuietRefines DEF PushLocks, PushReturns, loopVars
<1>9. ASSUME PushFrees
      PROVE  [Coalescer!Next]_(Coalescer!coalescerVars)
  <2>1. UNCHANGED <<ch, caller, req, EnableEDSDebounce>> /\ pusher' = NoPush
    BY <1>9 DEF PushFrees, loopVars
  <2>2. owedMap' = owedMap
    BY <2>1 DEF owedMap, InChannel, DebouncedWants
  <2>3. currentSet' = {}
    BY <2>1, NothingWanted DEF currentSet, currentMap, NoPush, Server
  <2>4. currentMap' = [currentMap EXCEPT !["server"] = {}]
    BY <2>3 DEF currentSet, currentMap, Server
  <2>5. CASE currentSet = {}
    <3>1. currentMap' = currentMap
      BY <2>3, <2>5 DEF currentSet, currentMap, Server
    <3> QED
      BY <2>2, <3>1 DEF Coalescer!coalescerVars
  <2>6. CASE currentSet # {}
    <3>1. Coalescer!End("server")
      BY <2>2, <2>4, <2>6 DEF Coalescer!End, currentSet
    <3> QED
      BY <3>1 DEF Coalescer!Next, Server
  <2> QED
    BY <2>5, <2>6
<1>10. ASSUME ImmediateReturns \/ Tick \/ UNCHANGED debounceVars
      PROVE  [Coalescer!Next]_(Coalescer!coalescerVars)
  BY <1>10, QuietRefines DEF ImmediateReturns, Tick, debounceVars, loopVars
<1> QED
  BY <1>1, <1>2, <1>3, <1>4, <1>5, <1>6, <1>7, <1>8, <1>9, <1>10 DEF Next, Receive

(* An idle debouncer owes nothing and pushes nothing. *)
LEMMA DebounceStartsIdle == Init => Coalescer!Init
<1> SUFFICES ASSUME Init PROVE Coalescer!Init
  OBVIOUS
<1>1. ch = <<>> /\ req = NoReq /\ pusher = NoPush /\ caller = [c \in Callers |-> NoReq]
  BY DEF Init
<1>2. \A x : ~OwedNow(x)
  BY <1>1, NothingWanted DEF OwedNow, Sent, Sending
<1>3. owedSet = {}
  BY <1>2, OwedPlaces
<1>4. currentSet = {}
  BY <1>1, NothingWanted DEF currentSet, currentMap, NoPush, Server
<1> QED
  BY <1>3, <1>4 DEF owedSet, currentSet, owedMap, currentMap, Server, Coalescer!Init

(* The debouncer implements PushCoalescer: between ConfigUpdate and Push   *)
(* nothing that was asked for is lost, whatever the order of sends, merges *)
(* and timers, and a push is only begun when the last one is over.         *)
THEOREM DebounceImplementsCoalescer == Spec => ImplementsCoalescer
  BY DebounceInvariant, DebounceStartsIdle, DebounceRefines, PTL
  DEF Spec, ImplementsCoalescer, Coalescer!Spec

=============================================================================
