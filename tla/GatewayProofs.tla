--------------------------- MODULE GatewayProofs ---------------------------
(***************************************************************************)
(* Proofs about the circuit breaker in the gateway, for any thresholds,    *)
(* error rate, number of requests and number of retries.                   *)
(***************************************************************************)
EXTENDS Gateway, TLAPS

\* The part of the invariant that only the breaker's methods change.
BreakerInv ==
  /\ BreakerTypeOK
  /\ TimerMatchesState
  /\ CountersCoverStreak
  /\ FailingServiceIsCutOff

LEMMA BreakerInitInv ==
  ASSUME BreakerInit
  PROVE  BreakerInv
BY CircuitBreakerAssumption
   DEF BreakerInit, BreakerInv, BreakerTypeOK, TimerMatchesState,
       CountersCoverStreak, FailingServiceIsCutOff

LEMMA BreakerFrame ==
  ASSUME BreakerInv, UNCHANGED breakerVars
  PROVE  BreakerInv'
BY DEF breakerVars, counters, evidence, BreakerInv, BreakerTypeOK,
       TimerMatchesState, CountersCoverStreak, FailingServiceIsCutOff

LEMMA ProbeInv ==
  ASSUME BreakerInv, Probe
  PROVE  BreakerInv'
BY CircuitBreakerAssumption
   DEF Probe, BreakerInv, BreakerTypeOK, TimerMatchesState,
       CountersCoverStreak, FailingServiceIsCutOff

\* A success ends the streak, so only the timer needs an argument: the circuit
\* closes from HALF_OPEN and then forgets its timeout.
LEMMA RecordSuccessInv ==
  ASSUME BreakerInv, RecordSuccess
  PROVE  BreakerInv'
<1> DEFINE enough ==
      state = "HALF_OPEN" /\ 2 * (successCount + 1) >= MinimumRequests
<1>1. BreakerTypeOK /\ TimerMatchesState
  BY DEF BreakerInv
<1>2. /\ totalRequests' = totalRequests + 1
      /\ successCount' = IF enough THEN 0 ELSE successCount + 1
      /\ failureCount' = IF state = "HALF_OPEN" THEN 0 ELSE failureCount
      /\ state' = IF enough THEN "CLOSED" ELSE state
      /\ nextAttempt' = IF enough THEN "unset" ELSE nextAttempt
      /\ streak' = 0
      /\ probes' = IF state = "HALF_OPEN" /\ probes < MinimumRequests
                   THEN probes + 1 ELSE probes
  BY DEF RecordSuccess
<1>3. enough => state = "HALF_OPEN"
  OBVIOUS
<1> HIDE DEF enough
<1>4. BreakerTypeOK'
  BY <1>1, <1>2 DEF BreakerTypeOK
<1>5. TimerMatchesState'
  BY <1>1, <1>2, <1>3 DEF TimerMatchesState
<1>6. CountersCoverStreak' /\ FailingServiceIsCutOff'
  BY <1>2, <1>4, CircuitBreakerAssumption
     DEF BreakerTypeOK, CountersCoverStreak, FailingServiceIsCutOff
<1> QED
  BY <1>4, <1>5, <1>6 DEF BreakerInv

\* A failure that leaves the circuit closed or half open has not reached the
\* minimum or has not reached the threshold, and neither has the streak.
LEMMA RecordFailureInv ==
  ASSUME BreakerInv, RecordFailure
  PROVE  BreakerInv'
<1>1. /\ BreakerTypeOK /\ TimerMatchesState
      /\ CountersCoverStreak /\ FailingServiceIsCutOff
  BY DEF BreakerInv
<1>2. /\ failureCount' = failureCount + 1
      /\ totalRequests' = totalRequests + 1
      /\ streak' = IF state = "OPEN" THEN streak ELSE streak + 1
      /\ UNCHANGED <<successCount, probes>>
  BY DEF RecordFailure
<1>3. CASE ShouldOpenCircuit(failureCount', totalRequests')
  <2>1. state' = "OPEN" /\ nextAttempt' = "running"
    BY <1>3 DEF RecordFailure, OpenCircuit
  <2> QED
    BY <1>1, <1>2, <2>1
       DEF BreakerInv, BreakerTypeOK, TimerMatchesState, CountersCoverStreak,
           FailingServiceIsCutOff
<1>4. CASE ~ShouldOpenCircuit(failureCount', totalRequests')
  <2>1. state' = state /\ nextAttempt' = nextAttempt
    BY <1>4 DEF RecordFailure
  <2>2. BreakerTypeOK' /\ TimerMatchesState' /\ CountersCoverStreak'
    BY <1>1, <1>2, <2>1
       DEF BreakerTypeOK, TimerMatchesState, CountersCoverStreak
  <2>3. ~(failureCount' >= FailureThreshold /\ totalRequests' >= MinimumRequests)
    BY <1>4 DEF ShouldOpenCircuit
  <2>4. FailingServiceIsCutOff'
    BY <2>2, <2>3, CircuitBreakerAssumption
       DEF BreakerTypeOK, CountersCoverStreak, FailingServiceIsCutOff
  <2> QED
    BY <2>2, <2>4 DEF BreakerInv
<1> QED
  BY <1>3, <1>4

LEMMA TimeAndInterventionInv ==
  ASSUME BreakerInv,
         RecoveryTimeout \/ ResetCounters \/ Open \/ Close \/ Reset
  PROVE  BreakerInv'
<1> USE CircuitBreakerAssumption
    DEF BreakerInv, BreakerTypeOK, TimerMatchesState, CountersCoverStreak,
        FailingServiceIsCutOff, counters, evidence
<1>1. CASE RecoveryTimeout
  BY <1>1 DEF RecoveryTimeout
<1>2. CASE ResetCounters
  BY <1>2 DEF ResetCounters
<1>3. CASE Open
  BY <1>3 DEF Open, OpenCircuit
<1>4. CASE Close
  BY <1>4 DEF Close
<1>5. CASE Reset
  BY <1>5 DEF Reset
<1> QED
  BY <1>1, <1>2, <1>3, <1>4, <1>5

\* Whatever a handler does, it touches the breaker through its methods.
LEMMA NextUsesMethods ==
  ASSUME [Next]_vars
  PROVE  \/ UNCHANGED breakerVars
         \/ Probe \/ RecordSuccess \/ RecordFailure
         \/ RecoveryTimeout \/ ResetCounters \/ Open \/ Close \/ Reset
<1>1. ASSUME NEW r \in Requests, Arrive(r)
      PROVE  UNCHANGED breakerVars \/ Probe
  BY <1>1 DEF Arrive
<1>2. ASSUME NEW r \in Requests, Serve(r)
      PROVE  UNCHANGED breakerVars \/ RecordSuccess \/ RecordFailure
  BY <1>2 DEF Serve, Send, Answer, Count, Unsendable, TransportError, Fail
<1>3. CASE Tick \/ Hour \/ Intervene
  BY <1>3 DEF Tick, Hour, Intervene
<1>4. CASE UNCHANGED vars
  BY <1>4 DEF vars
<1> QED
  BY <1>1, <1>2, <1>3, <1>4 DEF Next

LEMMA BreakerInvariant == Spec => []BreakerInv
<1>1. Init => BreakerInv
  BY BreakerInitInv DEF Init
<1>2. BreakerInv /\ [Next]_vars => BreakerInv'
  BY NextUsesMethods, BreakerFrame, ProbeInv, RecordSuccessInv,
     RecordFailureInv, TimeAndInterventionInv
<1> QED
  BY <1>1, <1>2, PTL DEF Spec

\* An OPEN circuit always has a timeout after which it is probed, a HALF_OPEN
\* one has waited for it, and a CLOSED one has none left over.
THEOREM TimeoutsMatch == Spec => []TimerMatchesState
<1>1. BreakerInv => TimerMatchesState
  BY DEF BreakerInv
<1> QED
  BY <1>1, BreakerInvariant, PTL

\* Whatever the thresholds, a service that only fails is cut off.
THEOREM FailingServicesAreCutOff == Spec => []FailingServiceIsCutOff
<1>1. BreakerInv => FailingServiceIsCutOff
  BY DEF BreakerInv
<1> QED
  BY <1>1, BreakerInvariant, PTL
-----------------------------------------------------------------------------
HandlerInv ==
  /\ phase \in [Requests -> Phases]
  /\ attempt \in [Requests -> 0..Retries]
  /\ executed \in [Requests -> 0..Retries]
  /\ replies \in [Requests -> 0..1]
  /\ AnsweredOnce
  /\ \A r \in Requests :
       /\ phase[r] = "idle" => attempt[r] = 0
       /\ phase[r] \in {"logging", "backoff"} => attempt[r] < Retries
       /\ phase[r] = "sent" => executed[r] < attempt[r]

LEMMA HandlerInvariant == Spec => []HandlerInv
<1>1. Init => HandlerInv
  BY GatewayAssumption DEF Init, HandlerInv, Phases, AnsweredOnce
<1>2. HandlerInv /\ [Next]_vars => HandlerInv'
  <2> SUFFICES ASSUME HandlerInv, [Next]_vars
               PROVE  HandlerInv'
    OBVIOUS
  <2> USE GatewayAssumption DEF HandlerInv, Phases, AnsweredOnce, Goto, Finish
  <2>1. ASSUME NEW r \in Requests, Arrive(r)
        PROVE  HandlerInv'
    BY <2>1 DEF Arrive
  <2>2. ASSUME NEW r \in Requests, Send(r)
        PROVE  HandlerInv'
    BY <2>2 DEF Send
  <2>3. ASSUME NEW r \in Requests, Answer(r)
        PROVE  HandlerInv'
    BY <2>3 DEF Answer
  <2>4. ASSUME NEW r \in Requests, Count(r)
        PROVE  HandlerInv'
    BY <2>4 DEF Count
  <2>5. ASSUME NEW r \in Requests, Unsendable(r)
        PROVE  HandlerInv'
    BY <2>5 DEF Unsendable
  <2>6. ASSUME NEW r \in Requests, TransportError(r)
        PROVE  HandlerInv'
    BY <2>6 DEF TransportError, MayRetry
  <2>7. ASSUME NEW r \in Requests, Fail(r)
        PROVE  HandlerInv'
    BY <2>7 DEF Fail
  <2>8. CASE Tick \/ Hour \/ Intervene \/ UNCHANGED vars
    BY <2>8 DEF Tick, Hour, Intervene, vars, requestVars
  <2> QED
    BY <2>1, <2>2, <2>3, <2>4, <2>5, <2>6, <2>7, <2>8 DEF Next, Serve
<1> QED
  BY <1>1, <1>2, PTL DEF Spec

\* No handler answers twice or ends without an answer, and the service carries
\* a request out at most as often as it is sent.
THEOREM EveryAnswerIsTheOnlyOne == Spec => []AnsweredOnce
<1>1. HandlerInv => AnsweredOnce
  BY DEF HandlerInv
<1> QED
  BY <1>1, HandlerInvariant, PTL

ManualOK == manual \in 0..MaxManual

LEMMA ManualInvariant == Spec => []ManualOK
<1>1. Init => ManualOK
  BY GatewayAssumption DEF Init, ManualOK
<1>2. ManualOK /\ [Next]_vars => ManualOK'
  <2> SUFFICES ASSUME ManualOK, [Next]_vars PROVE ManualOK'
    OBVIOUS
  <2> USE DEF ManualOK
  <2>1. ASSUME NEW r \in Requests, Arrive(r) \/ Serve(r) PROVE manual' = manual
    BY <2>1 DEF Arrive, Serve, Send, Answer, Count, Unsendable, TransportError, Fail
  <2>2. CASE Tick \/ Hour \/ UNCHANGED vars
    BY <2>2 DEF Tick, Hour, vars
  <2>3. CASE Intervene
    BY <2>3, GatewayAssumption DEF Intervene
  <2> QED
    BY <2>1, <2>2, <2>3 DEF Next
<1> QED
  BY <1>1, <1>2, PTL DEF Spec

\* Breaker and handlers are typed: no handler sends more often than Retries
\* allows, however the breaker is called meanwhile.
THEOREM GatewayTypeCorrect == Spec => []TypeOK
<1>1. BreakerInv /\ HandlerInv /\ ManualOK => TypeOK
  BY DEF ManualOK, BreakerInv, HandlerInv, TypeOK
<1> QED
  BY <1>1, BreakerInvariant, HandlerInvariant, ManualInvariant, PTL
-----------------------------------------------------------------------------
\* While the circuit stays open it admits nobody: what is under way drains.
THEOREM OpenCircuitsDrain == Spec => DrainsWhileOpen
<1>1. HandlerInv /\ [Next]_vars =>
        [state = "OPEN" /\ state' = "OPEN" => Admitted' \subseteq Admitted]_vars
  <2> SUFFICES ASSUME HandlerInv, Next, state = "OPEN", state' = "OPEN",
                      NEW q \in Requests, phase'[q] \in {"logging", "sent", "backoff"}
               PROVE  phase[q] \in {"logging", "sent", "backoff"}
    BY DEF Admitted
  <2>0. phase \in [Requests -> Phases]
    BY DEF HandlerInv
  <2> USE DEF Goto, Finish
  <2>1. ASSUME NEW r \in Requests, Arrive(r) PROVE phase[q] \in {"logging", "sent", "backoff"}
    <3>1. phase' = [phase EXCEPT ![r] = "failing"]
      BY <2>1 DEF Arrive, Allows, Probe
    <3> QED
      BY <2>0, <3>1
  <2>2. ASSUME NEW r \in Requests, Serve(r) PROVE phase[q] \in {"logging", "sent", "backoff"}
    BY <2>0, <2>2 DEF Serve, Send, Answer, Count, Unsendable, TransportError, Fail
  <2>3. CASE Tick \/ Hour \/ Intervene
    BY <2>3 DEF Tick, Hour, Intervene, requestVars
  <2> QED
    BY <2>1, <2>2, <2>3 DEF Next
<1> QED
  BY <1>1, HandlerInvariant, PTL DEF Spec, DrainsWhileOpen
-----------------------------------------------------------------------------
\* The successes a half open circuit has counted were all recorded while it was
\* half open, also when the counters were cleared in between.
EvidenceInv ==
  state = "HALF_OPEN" => successCount <= probes \/ probes >= MinimumRequests

\* Left alone, a circuit closes on evidence only, and never from OPEN.
THEOREM CircuitsCloseOnEvidence == Spec => ClosesOnEvidence
<1> USE CircuitBreakerAssumption DEF EvidenceInv, BreakerTypeOK
<1>1. Init => EvidenceInv
  BY DEF Init, BreakerInit
<1>2. BreakerTypeOK /\ EvidenceInv /\ [Next]_vars => EvidenceInv'
  <2> SUFFICES ASSUME BreakerTypeOK, EvidenceInv, [Next]_vars PROVE EvidenceInv'
    OBVIOUS
  <2>1. CASE UNCHANGED breakerVars
    BY <2>1 DEF breakerVars, counters, evidence
  <2>2. CASE Probe \/ RecordSuccess
    BY <2>2 DEF Probe, RecordSuccess
  <2>3. CASE RecordFailure
    BY <2>3 DEF RecordFailure, OpenCircuit
  <2>4. CASE RecoveryTimeout \/ ResetCounters \/ Open \/ Close \/ Reset
    BY <2>4 DEF RecoveryTimeout, ResetCounters, Open, OpenCircuit, Close, Reset,
                counters, evidence
  <2> QED
    BY <2>1, <2>2, <2>3, <2>4, NextUsesMethods
<1>3. BreakerTypeOK /\ EvidenceInv /\ ManualOK /\ [Next]_vars =>
        [state # "CLOSED" /\ state' = "CLOSED" /\ manual' = manual =>
           state = "HALF_OPEN" /\ 2 * probes' >= MinimumRequests]_vars
  <2> SUFFICES ASSUME BreakerTypeOK, EvidenceInv, ManualOK, Next,
                      state # "CLOSED", state' = "CLOSED", manual' = manual
               PROVE  state = "HALF_OPEN" /\ 2 * probes' >= MinimumRequests
    BY DEF vars
  <2>1. RecordSuccess
    <3>1. ASSUME NEW r \in Requests, Arrive(r) PROVE FALSE
      BY <3>1 DEF Arrive, Probe, breakerVars
    <3>2. ASSUME NEW r \in Requests, Serve(r) PROVE RecordSuccess
      BY <3>2 DEF Serve, Send, Answer, Count, Unsendable, TransportError, Fail,
                  RecordFailure, OpenCircuit, breakerVars
    <3>3. CASE Tick \/ Hour
      BY <3>3 DEF Tick, Hour, RecoveryTimeout, ResetCounters
    <3>4. CASE Intervene
      BY <3>4 DEF Intervene, ManualOK
    <3> QED
      BY <3>1, <3>2, <3>3, <3>4 DEF Next
  <2> QED
    BY <2>1 DEF RecordSuccess
<1>4. BreakerInv => BreakerTypeOK
  BY DEF BreakerInv
<1> QED
  BY <1>1, <1>2, <1>3, <1>4, BreakerInvariant, ManualInvariant, PTL
     DEF Spec, ClosesOnEvidence
=============================================================================
