------------------------------ MODULE Gateway ------------------------------
(***************************************************************************)
(* proxyRequest of the gateway controller, for the requests to one service *)
(* and its circuit breaker.  A handler asks the breaker once, then logs    *)
(* the request, sends it up to Retries times with a pause in between,      *)
(* answers the client and only then records the outcome.  Every HTTP       *)
(* answer counts as a success, whatever its status; what is retried and    *)
(* recorded as a failure is an error of the transport.                     *)
(***************************************************************************)
EXTENDS CircuitBreaker, FiniteSets

CONSTANTS
  Requests,     \* request slots, each serves one request after another
  Retries,
  MaxTotal,     \* bound: requests counted and in flight between two resets
  MaxManual     \* bound: manual interventions

ASSUME GatewayAssumption ==
  /\ Retries \in Nat \ {0}
  /\ MaxTotal \in Nat
  /\ MaxManual \in Nat

VARIABLES
  phase,       \* per request: the await it is at
  attempt,     \* per request: sends so far
  manual,      \* manual interventions left
  \* history
  executed,    \* per request: times the service has carried it out
  replies      \* per request: answers the client has got

requestVars == <<phase, attempt, executed, replies>>
vars == <<breakerVars, requestVars, manual>>

\* logging: logRequest; sent: axios; backoff: delay; logged: answered, in
\* logResponse; failing: handleError.
Phases == {"idle", "logging", "sent", "backoff", "logged", "failing"}

Admitted == {r \in Requests : phase[r] \in {"logging", "sent", "backoff"}}
Uncounted == {r \in Requests : phase[r] \in {"logging", "sent", "backoff", "logged"}}

Init ==
  /\ BreakerInit
  /\ phase = [r \in Requests |-> "idle"]
  /\ attempt = [r \in Requests |-> 0]
  /\ manual = MaxManual
  /\ executed = [r \in Requests |-> 0]
  /\ replies = [r \in Requests |-> 1]

Goto(r, p) == phase' = [phase EXCEPT ![r] = p]

\* The handler of request r is done.
Finish(r) == /\ Goto(r, "idle")
             /\ attempt' = [attempt EXCEPT ![r] = 0]
             /\ executed' = [executed EXCEPT ![r] = 0]
-----------------------------------------------------------------------------
\* A new request has been validated: the breaker lets it pass or not.
Arrive(r) ==
  /\ phase[r] = "idle"
  /\ totalRequests + Cardinality(Uncounted) < MaxTotal
  /\ \/ Allows /\ Goto(r, "logging") /\ UNCHANGED breakerVars
     \/ Probe /\ Goto(r, "logging")
     \/ Refuses /\ Goto(r, "failing") /\ UNCHANGED breakerVars
  /\ replies' = [replies EXCEPT ![r] = 0]
  /\ UNCHANGED <<attempt, executed, manual>>

\* Mutant: a retry asks the breaker again and gives up silently.
SendIfAllowed(r) ==
  /\ phase[r] \in {"logging", "backoff"}
  /\ Goto(r, IF Allows THEN "sent" ELSE "idle")
  /\ attempt' = [attempt EXCEPT ![r] = @ + 1]
  /\ UNCHANGED <<breakerVars, executed, replies, manual>>

\* A request once admitted is sent, and sent again, without asking again.
Send(r) ==
  /\ phase[r] \in {"logging", "backoff"}
  /\ Goto(r, "sent")
  /\ attempt' = [attempt EXCEPT ![r] = @ + 1]
  /\ UNCHANGED <<breakerVars, executed, replies, manual>>

\* The service answers, with any status, and the client gets the answer.
Answer(r) ==
  /\ phase[r] = "sent"
  /\ Goto(r, "logged")
  /\ executed' = [executed EXCEPT ![r] = @ + 1]
  /\ replies' = [replies EXCEPT ![r] = @ + 1]
  /\ UNCHANGED <<breakerVars, attempt, manual>>

\* recordSuccess, when the answer has been logged.
Count(r) ==
  /\ phase[r] = "logged"
  /\ RecordSuccess
  /\ Finish(r)
  /\ UNCHANGED <<replies, manual>>

\* The service answers, but its answer cannot be passed on.
Unsendable(r) ==
  /\ phase[r] = "sent"
  /\ RecordFailure
  /\ Goto(r, "failing")
  /\ executed' = [executed EXCEPT ![r] = @ + 1]
  /\ UNCHANGED <<attempt, replies, manual>>

\* Mutant: one retry too many.
MayRetryOnceMore(r) == attempt[r] <= Retries

MayRetry(r) == attempt[r] < Retries

\* No answer: refused, lost or timed out, and after a time out nobody knows
\* whether the service has carried the request out.
TransportError(r) ==
  /\ phase[r] = "sent"
  /\ IF MayRetry(r)
     THEN Goto(r, "backoff") /\ UNCHANGED breakerVars
     ELSE Goto(r, "failing") /\ RecordFailure
  /\ \E n \in {0, 1} : executed' = [executed EXCEPT ![r] = @ + n]
  /\ UNCHANGED <<attempt, replies, manual>>

\* handleError
Fail(r) ==
  /\ phase[r] = "failing"
  /\ Finish(r)
  /\ replies' = [replies EXCEPT ![r] = @ + 1]
  /\ UNCHANGED <<breakerVars, manual>>

Serve(r) ==
  \/ Send(r)
  \/ Answer(r)
  \/ Count(r)
  \/ Unsendable(r)
  \/ TransportError(r)
  \/ Fail(r)

Tick == UNCHANGED <<requestVars, manual>> /\ RecoveryTimeout
Hour == UNCHANGED <<requestVars, manual>> /\ ResetCounters

Intervene ==
  /\ manual > 0
  /\ manual' = manual - 1
  /\ Open \/ Close \/ Reset
  /\ UNCHANGED requestVars

Next ==
  \/ \E r \in Requests : Arrive(r) \/ Serve(r)
  \/ Tick
  \/ Hour
  \/ Intervene

Spec == Init /\ [][Next]_vars

\* The event loop resumes every await and fires every timer, and clients keep
\* sending requests.
FairSpec ==
  /\ Spec
  /\ \A r \in Requests : WF_vars(Serve(r)) /\ WF_vars(Arrive(r))
  /\ WF_vars(Tick)
  /\ WF_vars(Hour)
-----------------------------------------------------------------------------
TypeOK ==
  /\ BreakerTypeOK
  /\ phase \in [Requests -> Phases]
  /\ attempt \in [Requests -> 0..Retries]
  /\ manual \in 0..MaxManual
  /\ executed \in [Requests -> 0..Retries]
  /\ replies \in [Requests -> 0..1]

\* A handler that is done has answered exactly once, and one that is not has
\* not answered yet; the service carries a request out at most once per send,
\* and never one the breaker refused.
AnsweredOnce ==
  \A r \in Requests :
    /\ replies[r] = IF phase[r] \in {"idle", "logged"} THEN 1 ELSE 0
    /\ executed[r] <= attempt[r]

\* While the circuit stays OPEN the requests that may still reach the service
\* only drain: retries go on, but nobody joins them.
DrainsWhileOpen ==
  [][state = "OPEN" /\ state' = "OPEN" => Admitted' \subseteq Admitted]_vars

\* Left alone, the circuit closes only after half the minimum of requests has
\* succeeded since it half opened, and it never goes from OPEN to CLOSED.
ClosesOnEvidence ==
  [][state # "CLOSED" /\ state' = "CLOSED" /\ manual' = manual =>
       state = "HALF_OPEN" /\ 2 * probes' >= MinimumRequests]_vars

\* Every request gets its answer, whatever the circuit does meanwhile.
EveryRequestIsAnswered ==
  \A r \in Requests : phase[r] # "idle" ~> phase[r] = "idle" /\ replies[r] = 1

\* An OPEN circuit is eventually probed as long as requests keep coming:
\* late failures start its timeout again, but there are only so many of them.
OpenCircuitIsProbed == state = "OPEN" ~> state # "OPEN"
=============================================================================
