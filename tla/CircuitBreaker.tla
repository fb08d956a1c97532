--------------------------- MODULE CircuitBreaker ---------------------------
(***************************************************************************)
(* The circuit breaker the API gateway keeps per service: an object whose  *)
(* methods run to completion, called by request handlers that interleave   *)
(* at their awaits.  The stored error rate is refreshed before every use,  *)
(* so it is the quotient of two counters; time is only whether the         *)
(* recovery timeout set by the last opening has run out.                   *)
(***************************************************************************)
EXTENDS Integers

CONSTANTS
  FailureThreshold, MinimumRequests,
  ErrorRate, Parts        \* expectedErrorRate is ErrorRate / Parts

ASSUME CircuitBreakerAssumption ==
  /\ FailureThreshold \in Nat \ {0}
  /\ MinimumRequests \in Nat \ {0}
  /\ ErrorRate \in Nat
  /\ Parts \in Nat \ {0}

VARIABLES
  state,
  failureCount, successCount, totalRequests,
  nextAttempt,   \* the recovery timeout: not set, running or over
  \* history
  streak,        \* failures recorded in a row while the circuit let them pass
  probes         \* successes recorded while HALF_OPEN, counted up to enough

counters == <<failureCount, successCount, totalRequests>>
evidence == <<streak, probes>>
breakerVars == <<state, counters, nextAttempt, evidence>>

BreakerTypeOK ==
  /\ state \in {"CLOSED", "OPEN", "HALF_OPEN"}
  /\ failureCount \in Nat
  /\ successCount \in Nat
  /\ totalRequests \in Nat
  /\ nextAttempt \in {"unset", "running", "over"}
  /\ streak \in Nat
  /\ probes \in Nat

BreakerInit ==
  /\ state = "CLOSED"
  /\ failureCount = 0 /\ successCount = 0 /\ totalRequests = 0
  /\ nextAttempt = "unset"
  /\ streak = 0 /\ probes = 0
-----------------------------------------------------------------------------
(* canExecute                                                              *)

\* Mutant: a circuit that is OPEN keeps letting requests pass.
AllowAlways == TRUE

\* Requests pass without a change of state.
Allows == state \in {"CLOSED", "HALF_OPEN"}

\* Mutant: changeState to HALF_OPEN keeps the successes counted so far.
ProbeKeepingSuccesses ==
  /\ state = "OPEN" /\ nextAttempt = "over"
  /\ state' = "HALF_OPEN"
  /\ streak' = 0 /\ probes' = 0
  /\ UNCHANGED <<counters, nextAttempt>>

\* The first request after the recovery timeout half opens the circuit.
Probe ==
  /\ state = "OPEN" /\ nextAttempt = "over"
  /\ state' = "HALF_OPEN"
  /\ successCount' = 0
  /\ streak' = 0 /\ probes' = 0
  /\ UNCHANGED <<failureCount, totalRequests, nextAttempt>>

Refuses == state = "OPEN" /\ nextAttempt # "over"
-----------------------------------------------------------------------------
RecordSuccess ==
  LET enough == state = "HALF_OPEN" /\ 2 * (successCount + 1) >= MinimumRequests
  IN /\ totalRequests' = totalRequests + 1
     /\ successCount' = IF enough THEN 0 ELSE successCount + 1
     /\ failureCount' = IF state = "HALF_OPEN" THEN 0 ELSE failureCount
     /\ state' = IF enough THEN "CLOSED" ELSE state
     /\ nextAttempt' = IF enough THEN "unset" ELSE nextAttempt
     /\ streak' = 0
     /\ probes' = IF state = "HALF_OPEN" /\ probes < MinimumRequests
                  THEN probes + 1 ELSE probes

\* Mutant: the thresholds must be passed, not reached.
ExceedsThreshold(failures, total) ==
  /\ total > MinimumRequests
  /\ \/ failures > FailureThreshold
     \/ failures * Parts > ErrorRate * total

ShouldOpenCircuit(failures, total) ==
  /\ total >= MinimumRequests
  /\ \/ failures >= FailureThreshold
     \/ failures * Parts >= ErrorRate * total

\* Mutant: the opening sets no timeout.
OpenWithoutTimeout == state' = "OPEN" /\ UNCHANGED nextAttempt

\* An opening while the circuit is OPEN starts the timeout again.
OpenCircuit == state' = "OPEN" /\ nextAttempt' = "running"

RecordFailure ==
  /\ failureCount' = failureCount + 1
  /\ totalRequests' = totalRequests + 1
  /\ IF ShouldOpenCircuit(failureCount', totalRequests')
     THEN OpenCircuit ELSE UNCHANGED <<state, nextAttempt>>
  /\ streak' = IF state = "OPEN" THEN streak ELSE streak + 1
  /\ UNCHANGED <<successCount, probes>>
-----------------------------------------------------------------------------
(* Time and manual intervention.                                           *)

RecoveryTimeout ==
  /\ nextAttempt = "running"
  /\ nextAttempt' = "over"
  /\ UNCHANGED <<state, counters, evidence>>

\* The health check clears the counters every hour, whatever the state.
ResetCounters ==
  /\ counters # <<0, 0, 0>>
  /\ failureCount' = 0 /\ successCount' = 0 /\ totalRequests' = 0
  /\ streak' = 0
  /\ UNCHANGED <<state, nextAttempt, probes>>

Open ==
  /\ OpenCircuit
  /\ UNCHANGED <<counters, evidence>>

Close ==
  /\ state # "CLOSED"
  /\ state' = "CLOSED"
  /\ failureCount' = 0 /\ successCount' = 0
  /\ nextAttempt' = "unset"
  /\ streak' = 0 /\ probes' = 0
  /\ UNCHANGED totalRequests

Reset ==
  /\ state' = "CLOSED"
  /\ failureCount' = 0 /\ successCount' = 0 /\ totalRequests' = 0
  /\ nextAttempt' = "unset"
  /\ streak' = 0 /\ probes' = 0
-----------------------------------------------------------------------------
\* The timeout is set exactly while the circuit is not CLOSED, and it has run
\* out when the circuit is HALF_OPEN: an OPEN circuit can always be probed
\* again, and none half opens early.
TimerMatchesState ==
  /\ state = "CLOSED" <=> nextAttempt = "unset"
  /\ state = "HALF_OPEN" => nextAttempt = "over"

\* A service that only fails is cut off: no more failures in a row pass than
\* it takes to reach both the threshold and the minimum of requests.
FailingServiceIsCutOff ==
  state # "OPEN" =>
    ~(streak >= FailureThreshold /\ streak >= MinimumRequests)

\* What the counters know of the streak.
CountersCoverStreak == streak <= failureCount /\ streak <= totalRequests
=============================================================================
