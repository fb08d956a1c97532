--------------------------- MODULE PaymentProofs ---------------------------
(***************************************************************************)
(* Proofs about PaymentOrchestrator: its types, that a verdict stands, and *)
(* that updates, open workflows and what a planned restart saves are kept, *)
(* for any number of calls, faults and restarts.                           *)
(*                                                                         *)
(* All of it rests on one fact: until a reload fails or a second instance  *)
(* takes it up, a workflow without a verdict has one object at most, and   *)
(* that object is in the map.                                              *)
(***************************************************************************)
EXTENDS PaymentOrchestrator, TLAPS

-----------------------------------------------------------------------------
(* The inductive invariant.                                                *)

Objects == Tasks \cup {Reloaded}

\* No reload has failed, and one instance at most has held the open workflow.
Single == ~ blind /\ ~ Shared

InitiateCall == Call("initiate")
Calls == {NoCall, InitiateCall} \cup WorkersCalls

InitiateSteps ==
  {"created", "submit", "balance", "recipient", "price", "filled", "job"}

\* What a task may await fits its call.
Fits(p, c) ==
  /\ p = "idle" => c = NoCall
  /\ p \in InitiateSteps => c = InitiateCall
  /\ p \in {"get", "updated"} => c \in WorkersCalls

\* One initiation at most works on an object of its own, and workers call
\* when they have been handed the id.
CallsFit ==
  /\ call \in [Tasks -> Calls]
  /\ \A t \in Tasks :
       /\ Fits(pc[t], call[t])
       /\ pc[t] # "idle" => at[t] \in Instances
       /\ call[t] \in WorkersCalls => known
       /\ pc[t] \in Saving \cup Asking /\ call[t] = InitiateCall =>
            object[t] # NoWorkflow
  /\ \A t, q \in Tasks : call[t] = InitiateCall /\ call[q] = InitiateCall => t = q

\* Before the initiation there is nothing, and while the process is down
\* nothing in memory.
NothingBefore ==
  (\A t \in Tasks : call[t] # InitiateCall) =>
    /\ \A o \in Objects : object[o] = NoWorkflow
    /\ stored = NoWorkflow /\ ~ known
    /\ \A i \in Instances : active[i] = None
    /\ \A t \in Tasks : pc[t] \notin Saving \cup Asking

NothingWhileDown ==
  up = "down" =>
    /\ \A o \in Objects : object[o] = NoWorkflow
    /\ \A i \in Instances : active[i] = None
    /\ \A t \in Tasks : pc[t] \notin Saving \cup Asking

\* A planned restart waits for initiations.
NoInitiationWhileStopping ==
  up = "stopping" =>
    \A t \in Tasks : pc[t] \in Saving \cup Asking => call[t] # InitiateCall

\* An object without a verdict is the only one, and is in the map of an
\* instance that has held it.
OneOpenObject ==
  Single => \A o \in Objects : Open(object[o]) =>
    /\ \E i \in holders : active[i] = o
    /\ \A q \in Objects : q # o => object[q] = NoWorkflow

\* A verdict in Redis is in every object in memory as well, ...
VerdictIsEverywhere ==
  Single /\ HasVerdict(stored) => \A o \in Objects : ~ Open(object[o])

\* ... a snapshot that is parsed has one, ...
ParsedHasVerdict ==
  Single => \A t \in Tasks : pc[t] = "get" /\ seen[t] # NoWorkflow =>
    /\ ~ Open(seen[t])
    /\ \A o \in Objects : ~ Open(object[o])

\* ... as has the snapshot while the maps are empty.
MapIsEmptyAfterVerdict ==
  Single /\ up # "down" /\ Open(stored) => \E i \in holders : active[i] # None

SavedVerdictIsStored ==
  Single => \A t \in Tasks : pc[t] = "verdict" /\ ok[t] => HasVerdict(stored)

\* Whoever has the id finds a snapshot, until it expires.
SavedOnce ==
  ~ expired =>
    /\ \A t \in Tasks :
         /\ pc[t] = "created" /\ ok[t] => stored # NoWorkflow
         /\ pc[t] \in {"submit", "balance", "recipient", "price", "filled"} =>
              stored # NoWorkflow
    /\ known => stored # NoWorkflow

\* No worker knows the workflow yet when the initiation moves its steps.
StepsMoveUnknown ==
  \A t \in Tasks :
    /\ pc[t] \in {"created", "balance", "recipient", "price"} => ~ known
    /\ pc[t] = "submit" => object[t].type # "bitcoin_purchase"
    /\ pc[t] = "filled" /\ object[t].type = "bitcoin_purchase" => ~ known

\* w has the steps as they were last asked for.
HasAsked(w, a) == \A i \in 1..4 : a[i] # "none" => w.steps[i] = a[i]

\* What workers asked for is in memory and, when no call failed, in Redis.
AskedIsKept ==
  /\ asked \in [1..4 -> {"none", "completed", "failed"}]
  /\ ~ known => \A i \in 1..4 : asked[i] = "none"
  /\ faults = 0 /\ ~ Shared =>
       /\ Open(stored) => HasAsked(stored, asked)
       /\ \A o \in Objects : Open(object[o]) => HasAsked(object[o], asked)

BlindAfterFault == blind \in BOOLEAN /\ (blind => faults > 0)

IndInv ==
  /\ TypeOK
  /\ CallsFit
  /\ NothingBefore
  /\ NothingWhileDown
  /\ NoInitiationWhileStopping
  /\ OneOpenObject
  /\ VerdictIsEverywhere
  /\ ParsedHasVerdict
  /\ MapIsEmptyAfterVerdict
  /\ SavedVerdictIsStored
  /\ SavedOnce
  /\ StepsMoveUnknown
  /\ AskedIsKept
  /\ BlindAfterFault
  /\ StoppedIsSaved
-----------------------------------------------------------------------------
(* Workflows and calls.                                                    *)

LEMMA TasksAreNamed == Reloaded \notin Tasks /\ None \notin Objects
BY OrchestratorAssumption DEF Objects

LEMMA WorkflowFacts ==
  ASSUME NEW w \in Workflow
  PROVE  /\ w # NoWorkflow
         /\ w.status \in {"initiated", "completed", "failed"}
         /\ w.type \in Types
         /\ w.steps \in [1..4 -> StepStatus]
<1>1. w.type # "none"
  BY OrchestratorAssumption DEF Workflow
<1>2. NoWorkflow.type = "none"
  BY DEF NoWorkflow
<1> QED
  BY <1>1, <1>2 DEF Workflow

LEMMA Verdicts ==
  /\ ~ Open(NoWorkflow) /\ ~ HasVerdict(NoWorkflow)
  /\ \A w : Open(w) => w # NoWorkflow /\ ~ HasVerdict(w)
  /\ \A w : HasVerdict(w) => w # NoWorkflow /\ ~ Open(w)
  /\ \A w : w # NoWorkflow /\ ~ Open(w) => HasVerdict(w)
BY DEF Open, HasVerdict

LEMMA NewWorkflowFacts ==
  ASSUME NEW type \in Types
  PROVE  NewWorkflow(type) \in Workflow /\ Open(NewWorkflow(type))
<1>1. <<"in_progress", "pending", "pending", "pending">> \in [1..4 -> StepStatus]
  BY DEF StepStatus
<1>2. NewWorkflow(type) \in Workflow
  BY <1>1 DEF NewWorkflow, Workflow
<1> QED
  BY <1>2, WorkflowFacts DEF NewWorkflow, Open

LEMMA ContextFacts ==
  ASSUME NEW w \in Workflow
  PROVE  LET f == [w EXCEPT !.context = TRUE]
         IN /\ f \in Workflow
            /\ f.type = w.type /\ f.steps = w.steps
            /\ Open(f) <=> Open(w)
<1>1. [w EXCEPT !.context = TRUE] \in Workflow
  BY DEF Workflow
<1> QED
  BY <1>1, WorkflowFacts DEF Open, Workflow

LEMMA StatusFacts ==
  ASSUME NEW w \in Workflow, NEW s \in {"completed", "failed"}
  PROVE  LET f == [w EXCEPT !.status = s]
         IN f \in Workflow /\ f.type = w.type /\ ~ Open(f)
BY DEF Workflow, Open

LEMMA StepFacts ==
  ASSUME NEW w \in Workflow, NEW i \in 1..4, NEW s \in StepStatus
  PROVE  LET f == [w EXCEPT !.steps[i] = s]
         IN /\ f \in Workflow
            /\ f.type = w.type
            /\ f.steps = [w.steps EXCEPT ![i] = s]
            /\ Open(f) <=> Open(w)
<1> DEFINE f == [w EXCEPT !.steps[i] = s]
<1>1. w.steps \in [1..4 -> StepStatus]
  BY WorkflowFacts
<1>2. [w.steps EXCEPT ![i] = s] \in [1..4 -> StepStatus]
  BY <1>1
<1>3. f = [w EXCEPT !.steps = [w.steps EXCEPT ![i] = s]]
  BY DEF Workflow
<1>4. f \in Workflow
  BY <1>2, <1>3 DEF Workflow
<1>5. f.type = w.type /\ f.steps = [w.steps EXCEPT ![i] = s] /\ f.status = w.status
  BY <1>3 DEF Workflow
<1> QED
  BY <1>4, <1>5, WorkflowFacts DEF Open

LEMMA MoveToFacts ==
  ASSUME NEW w \in Workflow, NEW j \in 2..3
  PROVE  LET f == MoveTo(w, j)
         IN /\ f \in Workflow
            /\ f.type = w.type
            /\ Open(f) <=> Open(w)
<1> DEFINE steps == [i \in 1..4 |-> IF i < j THEN "completed"
                                   ELSE IF i = j THEN "in_progress"
                                   ELSE w.steps[i]]
<1>1. w.steps \in [1..4 -> StepStatus]
  BY WorkflowFacts
<1>2. steps \in [1..4 -> StepStatus]
  BY <1>1 DEF StepStatus
<1>3. MoveTo(w, j) = [w EXCEPT !.currentStep = j, !.steps = steps]
  BY DEF MoveTo
<1> HIDE DEF steps
<1>4. MoveTo(w, j) \in Workflow
  <2>1. [w EXCEPT !.currentStep = j] \in Workflow
    BY DEF Workflow
  <2>2. MoveTo(w, j) = [[w EXCEPT !.currentStep = j] EXCEPT !.steps = steps]
    BY <1>3
  <2>3. \A v \in Workflow : [v EXCEPT !.steps = steps] \in Workflow
    BY <1>2 DEF Workflow
  <2> QED
    BY <2>1, <2>2, <2>3
<1>5. MoveTo(w, j).type = w.type /\ MoveTo(w, j).status = w.status
  BY <1>3 DEF Workflow
<1> QED
  BY <1>4, <1>5, WorkflowFacts DEF Open

LEMMA CallFacts ==
  /\ NoCall # InitiateCall
  /\ InitiateCall \notin WorkersCalls
  /\ NoCall \notin WorkersCalls
  /\ InitiateCall.method = "initiate"
  /\ \A c \in Calls : c.method = "initiate" => c = InitiateCall
  /\ \A c \in WorkersCalls :
       c.method = "update" => c.step \in {2, 3} /\ c.status \in {"completed", "failed"}
<1>1. NoCall.method = "none" /\ InitiateCall.method = "initiate"
  BY DEF NoCall, InitiateCall, Call
<1>2. /\ Call("complete").method = "complete"
      /\ Call("fail").method = "fail"
  BY DEF NoCall, Call
<1>3. \A i, s : /\ UpdateCall(i, s).method = "update"
                /\ UpdateCall(i, s).step = i
                /\ UpdateCall(i, s).status = s
  BY DEF UpdateCall
<1> HIDE DEF InitiateCall
<1>4. \A c \in WorkersCalls :
        \/ c.method \in {"complete", "fail"}
        \/ c.method = "update" /\ c.step \in {2, 3} /\ c.status \in {"completed", "failed"}
  BY <1>2, <1>3 DEF WorkersCalls
<1> QED
  BY <1>1, <1>4 DEF Calls

\* Holders are never forgotten.
LEMMA SharedStays ==
  ASSUME holders \subseteq holders', blind => blind'
  PROVE  /\ Shared => Shared'
         /\ Single' => Single
BY DEF Shared, Single

USE DEF Objects
-----------------------------------------------------------------------------
(* Kinds of steps.                                                         *)

\* Task t goes on to p, with the call it runs or with a new one of a worker.
Turns(t, p) ==
  /\ pc' = [pc EXCEPT ![t] = p]
  /\ p # "idle"
  /\ up' = up /\ up # "down"
  /\ known' \in BOOLEAN /\ (known => known')
  /\ \/ /\ call' = call /\ at' = at
        /\ pc[t] \in Saving \cup Asking
        /\ Fits(p, call[t])
     \/ /\ pc[t] = "idle" /\ known /\ p \notin InitiateSteps
        /\ \E c \in WorkersCalls, i \in Instances :
             call' = [call EXCEPT ![t] = c] /\ at' = [at EXCEPT ![t] = i]

\* A verdict in Redis is not lost, but for expiry, while no reload failed and no
\* second instance took the workflow up.
Stands ==
  HasVerdict(stored) /\ stored' # NoWorkflow /\ ~ blind /\ ~ Shared' => HasVerdict(stored')

\* Objects stay objects.
Remembered == \A o \in Objects : object[o] # NoWorkflow => object'[o] # NoWorkflow

LEMMA TurnsKeepCalls ==
  ASSUME TypeOK, CallsFit, NothingBefore, NothingWhileDown, NoInitiationWhileStopping,
         NEW t \in Tasks, NEW p, Turns(t, p), Remembered
  PROVE  /\ CallsFit'
         /\ at' \in [Tasks -> Instances \cup {None}] /\ at'[t] \in Instances
         /\ NothingBefore'
         /\ NothingWhileDown'
         /\ NoInitiationWhileStopping'
         /\ \A q \in Tasks : pc'[q] = IF q = t THEN p ELSE pc[q]
         /\ known => known'
         /\ \A q \in Tasks : pc[q] \in Saving \cup Asking => call'[q] = call[q]
         /\ \A q \in Tasks : call'[q] = InitiateCall => call[q] = InitiateCall
<1> USE CallFacts
<1>1. \A q \in Tasks : pc'[q] = IF q = t THEN p ELSE pc[q]
  BY DEF Turns, TypeOK
<1>2. \A q \in Tasks :
        \/ call'[q] = call[q] /\ (q = t => pc[t] \in Saving \cup Asking)
        \/ q = t /\ pc[t] = "idle" /\ known /\ call[q] = NoCall /\ call'[q] \in WorkersCalls
  BY DEF Turns, CallsFit, Fits
<1>3. call' \in [Tasks -> Calls]
  BY DEF Turns, CallsFit, Calls
<1>4. Fits(p, call'[t])
  <2>1. CASE call' = call /\ Fits(p, call[t])
    BY <2>1
  <2>2. CASE /\ p \notin InitiateSteps
             /\ \E c \in WorkersCalls, i \in Instances :
                  call' = [call EXCEPT ![t] = c] /\ at' = [at EXCEPT ![t] = i]
    BY <2>2 DEF Fits, Turns, CallsFit
  <2> QED
    BY <2>1, <2>2 DEF Turns
<1>5. \A q \in Tasks : q # t => Fits(pc'[q], call'[q])
  BY <1>1, <1>2 DEF CallsFit
<1>6. \A q \in Tasks : call'[q] \in WorkersCalls => known'
  BY <1>2 DEF Turns, CallsFit
<1>7. \A q \in Tasks : call'[q] = InitiateCall => call[q] = InitiateCall
  BY <1>2
<1>8. \A q \in Tasks : pc'[q] \in Saving \cup Asking /\ call'[q] = InitiateCall =>
        pc[q] \in Saving \cup Asking /\ call[q] = InitiateCall
  BY <1>1, <1>2
<1>9. \A q \in Tasks : pc'[q] \in Saving \cup Asking /\ call'[q] = InitiateCall =>
        object'[q] # NoWorkflow
  BY <1>8 DEF CallsFit, Remembered
<1>17. /\ at' \in [Tasks -> Instances \cup {None}] /\ at'[t] \in Instances
       /\ \A q \in Tasks : pc'[q] # "idle" => at'[q] \in Instances
  <2>1. CASE at' = at /\ pc[t] \in Saving \cup Asking
    <3>1. pc[t] # "idle"
      BY <2>1 DEF Saving, Asking
    <3> QED
      BY <1>1, <2>1, <3>1 DEF CallsFit, TypeOK
  <2>2. CASE \E i \in Instances : at' = [at EXCEPT ![t] = i]
    BY <1>1, <2>2 DEF CallsFit, TypeOK
  <2> QED
    BY <2>1, <2>2 DEF Turns
<1>10. CallsFit'
  BY <1>17, <1>1, <1>3, <1>4, <1>5, <1>6, <1>7, <1>9 DEF CallsFit
<1>11. \E q \in Tasks : call[q] = InitiateCall
  BY DEF NothingBefore, Turns
<1>12. \E q \in Tasks : call'[q] = InitiateCall
  BY <1>11, <1>2
<1>13. NothingBefore' /\ NothingWhileDown'
  BY <1>12 DEF NothingBefore, NothingWhileDown, Turns
<1>14. NoInitiationWhileStopping'
  BY <1>8 DEF NoInitiationWhileStopping, Turns
<1>15. \A q \in Tasks : pc[q] \in Saving \cup Asking => call'[q] = call[q]
  BY <1>2 DEF Saving, Asking
<1>16. known => known'
  BY DEF Turns
<1> QED
  BY <1>1, <1>7, <1>10, <1>13, <1>14, <1>15, <1>16, <1>17

(* A save of object o, changed to w.                                       *)

Saves(t, o, w, p) ==
  /\ Turns(t, p)
  /\ UpdateWorkflow(t, o, w, p)
  /\ UNCHANGED <<seen, job, known, restarts, blind, expired, holders>>
  /\ o \in Objects /\ w \in Workflow
  /\ p \in {"filled", "updated", "verdict"}
  /\ p = "verdict" => ~ Open(w)
  /\ p = "filled" => /\ o = t
                     /\ w.type = "bitcoin_purchase" => ~ known
                     /\ ~ expired => stored # NoWorkflow
  /\ o # t => w.type = object[o].type
  /\ Single => /\ Open(w) => Open(object[o])
               /\ \A q \in Objects : q # o => ~ Open(object[q])
               /\ Open(w) /\ HasAsked(object[o], asked) => HasAsked(w, asked')
  /\ asked' \in [1..4 -> {"none", "completed", "failed"}]
  /\ asked' = asked \/ known

\* What a save stores, and tells its task.
LEMMA UpdateFacts ==
  ASSUME TypeOK, NEW t \in Tasks, NEW o \in Objects, NEW w \in Workflow, NEW p,
         UpdateWorkflow(t, o, w, p), at'[t] \in Instances
  PROVE  /\ object' \in [Objects -> Workflow \cup {NoWorkflow}]
         /\ \A q \in Objects : object'[q] = IF q = o THEN w ELSE object[q]
         /\ active' \in [Instances -> Objects \cup {None}]
         /\ \A i \in Instances : active'[i] = IF i = at'[t] THEN o ELSE active[i]
         /\ ok' \in [Tasks -> BOOLEAN]
         /\ \A q \in Tasks : q # t => ok'[q] = ok[q]
         /\ ok'[t] => stored' = w
         /\ stored' = w \/ stored' = stored
         /\ faults' \in 0..MaxFaults
         /\ faults' >= faults
         /\ faults' = 0 => faults = 0 /\ stored' = w
<1>1. /\ object' = [object EXCEPT ![o] = w]
      /\ active' = [active EXCEPT ![at'[t]] = o]
      /\ ok' = [ok EXCEPT ![t] = (faults' = faults)]
      /\ Issue(w)
  BY DEF UpdateWorkflow
<1>2. /\ stored' = w \/ stored' = stored
      /\ faults' \in 0..MaxFaults
      /\ faults' >= faults
      /\ faults' = faults => stored' = w
  BY <1>1, OrchestratorAssumption DEF Issue, Fault, TypeOK
<1>3. faults' = 0 => faults = 0 /\ stored' = w
  BY <1>2 DEF TypeOK
<1>4. /\ object' \in [Objects -> Workflow \cup {NoWorkflow}]
      /\ \A q \in Objects : object'[q] = IF q = o THEN w ELSE object[q]
  BY <1>1 DEF TypeOK
<1>6. /\ active' \in [Instances -> Objects \cup {None}]
      /\ \A i \in Instances : active'[i] = IF i = at'[t] THEN o ELSE active[i]
  BY <1>1 DEF TypeOK
<1>5. /\ ok' \in [Tasks -> BOOLEAN]
      /\ \A q \in Tasks : q # t => ok'[q] = ok[q]
      /\ ok'[t] => faults' = faults
  <2> DEFINE said == (faults' = faults)
  <2>1. said \in BOOLEAN
    OBVIOUS
  <2>2. ok' = [ok EXCEPT ![t] = said]
    BY <1>1
  <2> HIDE DEF said
  <2>3. ok \in [Tasks -> BOOLEAN]
    BY DEF TypeOK
  <2>4. ok' \in [Tasks -> BOOLEAN] /\ (\A q \in Tasks : q # t => ok'[q] = ok[q]) /\ ok'[t] = said
    BY <2>1, <2>2, <2>3
  <2> QED
    BY <2>4 DEF said
<1> QED
  BY <1>1, <1>2, <1>3, <1>4, <1>5, <1>6

LEMMA SavesKeepInv ==
  ASSUME IndInv, NEW t \in Tasks, NEW o, NEW w, NEW p, Saves(t, o, w, p)
  PROVE  IndInv' /\ Stands
<1> USE Verdicts
<1>1. /\ TypeOK /\ CallsFit /\ NothingBefore /\ NothingWhileDown
      /\ NoInitiationWhileStopping
      /\ Turns(t, p) /\ UpdateWorkflow(t, o, w, p)
      /\ o \in Objects /\ w \in Workflow /\ w # NoWorkflow
  BY WorkflowFacts DEF IndInv, Saves
<1>19. at'[t] \in Instances /\ at' \in [Tasks -> Instances \cup {None}]
  BY <1>1 DEF Turns, CallsFit, TypeOK, Saving, Asking
<1>20. UNCHANGED <<holders, blind>> /\ Single' = Single /\ Shared' = Shared
  BY DEF Saves, Single, Shared
<1>2. /\ object' \in [Objects -> Workflow \cup {NoWorkflow}]
      /\ \A q \in Objects : object'[q] = IF q = o THEN w ELSE object[q]
      /\ active' \in [Instances -> Objects \cup {None}]
      /\ \A i \in Instances : active'[i] = IF i = at'[t] THEN o ELSE active[i]
      /\ ok' \in [Tasks -> BOOLEAN]
      /\ \A q \in Tasks : q # t => ok'[q] = ok[q]
      /\ ok'[t] => stored' = w
      /\ stored' = w \/ stored' = stored
      /\ faults' \in 0..MaxFaults
      /\ faults' >= faults
      /\ faults' = 0 => faults = 0 /\ stored' = w
  BY <1>1, <1>19, UpdateFacts
<1>3. Remembered
  BY <1>1, <1>2 DEF Remembered
<1>4. /\ CallsFit' /\ NothingBefore' /\ NothingWhileDown' /\ NoInitiationWhileStopping'
      /\ \A q \in Tasks : pc'[q] = IF q = t THEN p ELSE pc[q]
  BY <1>1, <1>3, TurnsKeepCalls
<1>5. /\ UNCHANGED <<seen, job, known, restarts, blind, expired, up>>
      /\ pc' = [pc EXCEPT ![t] = p]
      /\ p \in {"filled", "updated", "verdict"}
      /\ up # "down"
  BY DEF Saves, Turns
<1>6. TypeOK'
  <2>1. \A i \in Instances : active'[i] # None => object'[active'[i]] # NoWorkflow
    <3> SUFFICES ASSUME NEW i \in Instances, active'[i] # None
                 PROVE  object'[active'[i]] # NoWorkflow
      OBVIOUS
    <3>1. CASE i = at'[t]
      BY <1>1, <1>2, <3>1
    <3>2. CASE i # at'[t]
      <4>1. active'[i] = active[i] /\ active[i] \in Objects /\ object[active[i]] # NoWorkflow
        BY <1>1, <1>2, <3>2 DEF TypeOK
      <4> QED
        BY <1>3, <4>1 DEF Remembered
    <3> QED
      BY <3>1, <3>2
  <2> QED
    BY <1>1, <1>2, <1>5, <1>19, <1>20, <2>1 DEF TypeOK, Saving
<1>7. OneOpenObject'
  <2> SUFFICES ASSUME Single, NEW q \in Objects, Open(object'[q])
               PROVE  /\ q = o /\ \A x \in Objects : x # o => object[x] = NoWorkflow
                      /\ \E i \in holders : active'[i] = o
    BY <1>2, <1>20 DEF OneOpenObject
  <2>1. q = o
    BY <1>2 DEF Saves
  <2>2. Open(object[o])
    BY <1>2, <2>1 DEF Saves
  <2>3. /\ \E i \in holders : active[i] = o
        /\ \A x \in Objects : x # o => object[x] = NoWorkflow
    BY <1>1, <2>2 DEF IndInv, OneOpenObject
  <2>4. \A i \in holders : active[i] = o => active'[i] = o
    BY <1>1, <1>2 DEF TypeOK
  <2> QED
    BY <2>1, <2>3, <2>4
<1>8. Single /\ HasVerdict(stored) => \A q \in Objects : ~ Open(object'[q])
  BY <1>1, <1>2 DEF IndInv, VerdictIsEverywhere, Saves
<1>9. VerdictIsEverywhere'
  BY <1>1, <1>2, <1>5, <1>8, <1>20 DEF VerdictIsEverywhere, Saves
<1>10. ParsedHasVerdict'
  BY <1>1, <1>2, <1>4, <1>5, <1>20 DEF IndInv, ParsedHasVerdict, Saves
<1>11. MapIsEmptyAfterVerdict'
  <2> SUFFICES ASSUME Single, Open(stored')
               PROVE  \E i \in holders : active'[i] # None
    BY <1>20 DEF MapIsEmptyAfterVerdict
  <2>1. \E i \in holders : active[i] # None
    <3>1. CASE stored' = stored
      BY <1>5, <2>1, <3>1 DEF IndInv, MapIsEmptyAfterVerdict
    <3>2. CASE stored' = w
      <4>1. Open(object[o])
        BY <3>2 DEF Saves
      <4>2. \E i \in holders : active[i] = o
        BY <1>1, <4>1 DEF IndInv, OneOpenObject
      <4> QED
        BY <1>1, <4>2, TasksAreNamed
    <3> QED
      BY <1>2, <3>1, <3>2
  <2>2. \A i \in holders : active[i] # None => active'[i] # None
    BY <1>1, <1>2, TasksAreNamed DEF TypeOK
  <2> QED
    BY <2>1, <2>2
<1>12. SavedVerdictIsStored'
  <2> SUFFICES ASSUME Single, NEW q \in Tasks, pc'[q] = "verdict", ok'[q]
               PROVE  HasVerdict(stored')
    BY <1>20 DEF SavedVerdictIsStored
  <2>1. CASE q = t
    BY <1>1, <1>2, <1>4, <2>1 DEF Saves
  <2>2. CASE q # t
    <3>1. HasVerdict(stored)
      BY <1>2, <1>4, <2>2 DEF IndInv, SavedVerdictIsStored
    <3>2. ~ Open(w)
      BY <1>1, <1>2, <1>8, <3>1
    <3> QED
      BY <1>1, <1>2, <3>1, <3>2
  <2> QED
    BY <2>1, <2>2
<1>13. SavedOnce'
  <2>1. stored # NoWorkflow => stored' # NoWorkflow
    BY <1>1, <1>2
  <2>2. \A q \in Tasks : q # t => pc'[q] = pc[q] /\ ok'[q] = ok[q]
    BY <1>2, <1>4
  <2>3. pc'[t] = "filled" /\ ~ expired => stored # NoWorkflow
    BY <1>4 DEF Saves
  <2>4. pc'[t] \in {"filled", "updated", "verdict"}
    BY <1>4, <1>5
  <2> QED
    BY <1>5, <2>1, <2>2, <2>3, <2>4 DEF IndInv, SavedOnce
<1>14. StepsMoveUnknown'
  <2>1. \A q \in Tasks : q # t /\ object[q] # NoWorkflow => object'[q].type = object[q].type
    BY <1>2 DEF Saves
  <2>2. \A q \in Tasks : q # t /\ pc[q] \in {"submit", "filled"} => object[q] # NoWorkflow
    BY <1>1 DEF CallsFit, Fits, InitiateSteps, Saving, Asking
  <2>3. \A q \in Tasks : q # t => pc'[q] = pc[q]
    BY <1>4
  <2>4. pc'[t] = p
    BY <1>4
  <2>5. p = "filled" /\ object'[t].type = "bitcoin_purchase" => ~ known
    BY <1>2 DEF Saves
  <2> QED
    BY <1>5, <2>1, <2>2, <2>3, <2>4, <2>5 DEF IndInv, StepsMoveUnknown
<1>15. AskedIsKept'
  <2>1. ~ known' => \A i \in 1..4 : asked'[i] = "none"
    BY <1>5 DEF Saves, IndInv, AskedIsKept
  <2>2. ASSUME faults' = 0, ~ Shared'
        PROVE  \A q \in Objects : Open(object'[q]) => q = o /\ HasAsked(w, asked')
    <3>1. Single /\ ~ Shared /\ faults = 0
      BY <1>1, <1>2, <1>20, <2>2 DEF IndInv, BlindAfterFault, TypeOK, Single
    <3>2. \A q \in Objects : Open(object'[q]) => q = o /\ Open(w)
      BY <1>2, <3>1 DEF Saves
    <3>3. Open(w) => HasAsked(object[o], asked)
      BY <1>1, <3>1 DEF Saves, IndInv, AskedIsKept
    <3> QED
      BY <3>1, <3>2, <3>3 DEF Saves
  <2>3. faults' = 0 /\ ~ Shared' => \A q \in Objects : Open(object'[q]) => HasAsked(object'[q], asked')
    BY <1>2, <2>2
  <2>4. faults' = 0 /\ ~ Shared' /\ Open(stored') => HasAsked(stored', asked')
    BY <1>1, <1>2, <2>2
  <2> QED
    BY <2>1, <2>3, <2>4 DEF AskedIsKept, Saves
<1>16. BlindAfterFault'
  BY <1>1, <1>2, <1>5 DEF IndInv, BlindAfterFault, TypeOK
<1>17. StoppedIsSaved'
  <2> SUFFICES ASSUME faults' = 0, ~ Shared', active'[Service] # None,
                      Open(object'[active'[Service]])
               PROVE  stored' = object'[active'[Service]]
    BY DEF StoppedIsSaved
  <2>1. Single /\ faults = 0
    BY <1>1, <1>2, <1>20 DEF IndInv, BlindAfterFault, TypeOK, Single
  <2>2. active'[Service] \in Objects
    BY <1>2, OrchestratorAssumption
  <2>3. active'[Service] = o
    BY <1>2, <2>1, <2>2 DEF Saves
  <2> QED
    BY <1>1, <1>2, <2>3
<1>18. Stands
  BY <1>1, <1>2, <1>8, <1>20 DEF Stands, Single
<1> QED
  BY <1>4, <1>6, <1>7, <1>9, <1>10, <1>11, <1>12, <1>13, <1>14, <1>15, <1>16, <1>17, <1>18
     DEF IndInv

(* A step that leaves objects, map and snapshot alone.                     *)

Awaits(t, p) ==
  /\ Turns(t, p)
  /\ UNCHANGED <<object, active, stored, ok, job, restarts, asked, blind, expired>>
  /\ holders \subseteq holders' /\ holders' \subseteq Instances
  /\ faults' \in 0..MaxFaults /\ faults' >= faults
  /\ p \in Asking \cup Ended
  /\ known' = known \/ (pc[t] = "created" /\ p = "submit")
  /\ p = "get" => /\ seen' = [seen EXCEPT ![t] = stored]
                  /\ \E i \in Instances :
                       active[i] = None /\ (Open(stored) => i \in holders')
  /\ p # "get" => seen' = seen
  /\ p = "submit" => object[t].type # "bitcoin_purchase"
  /\ p \in {"balance", "recipient", "price"} => ~ known
  /\ p \in {"submit", "balance", "recipient", "price"} /\ ~ expired =>
       stored # NoWorkflow

LEMMA AwaitsKeepInv ==
  ASSUME IndInv, NEW t \in Tasks, NEW p, Awaits(t, p)
  PROVE  IndInv' /\ Stands
<1> USE Verdicts
<1>1. /\ TypeOK /\ CallsFit /\ NothingBefore /\ NothingWhileDown
      /\ NoInitiationWhileStopping
      /\ Turns(t, p) /\ Remembered
  BY DEF IndInv, Awaits, Remembered
<1>2. /\ CallsFit' /\ NothingBefore' /\ NothingWhileDown' /\ NoInitiationWhileStopping'
      /\ \A q \in Tasks : pc'[q] = IF q = t THEN p ELSE pc[q]
      /\ known => known'
  BY <1>1, TurnsKeepCalls
<1>14. /\ holders \subseteq holders' /\ holders' \subseteq Instances
       /\ Shared => Shared'
       /\ Single' => Single
       /\ at' \in [Tasks -> Instances \cup {None}]
  BY <1>1, SharedStays, TurnsKeepCalls DEF Awaits
<1>3. /\ UNCHANGED <<object, active, stored, ok, job, restarts, asked, blind, expired, up>>
      /\ pc' = [pc EXCEPT ![t] = p]
      /\ p \in Asking \cup Ended
      /\ up # "down" /\ known' \in BOOLEAN
  BY DEF Awaits, Turns
<1>4. seen' \in [Tasks -> Workflow \cup {NoWorkflow}]
  BY <1>1 DEF Awaits, TypeOK
<1>5. TypeOK'
  BY <1>1, <1>3, <1>4, <1>14 DEF TypeOK, Awaits
<1>6. OneOpenObject' /\ VerdictIsEverywhere' /\ MapIsEmptyAfterVerdict'
  BY <1>3, <1>14 DEF IndInv, OneOpenObject, VerdictIsEverywhere, MapIsEmptyAfterVerdict
<1>7. ParsedHasVerdict'
  <2> SUFFICES ASSUME Single', NEW q \in Tasks, pc'[q] = "get", seen'[q] # NoWorkflow
               PROVE  ~ Open(seen'[q]) /\ \A o \in Objects : ~ Open(object[o])
    BY <1>3 DEF ParsedHasVerdict
  <2>1. CASE p = "get" /\ q = t
    <3>1. seen'[q] = stored
      BY <1>1, <2>1 DEF Awaits, TypeOK
    <3>2. PICK i \in Instances : active[i] = None /\ (Open(stored) => i \in holders')
      BY <2>1 DEF Awaits
    <3>3. ~ Open(stored)
      <4> SUFFICES ASSUME Open(stored) PROVE FALSE
        OBVIOUS
      <4>1. PICK j \in holders : active[j] # None
        BY <1>3, <1>14 DEF IndInv, MapIsEmptyAfterVerdict
      <4>2. i # j /\ i \in holders' /\ j \in holders'
        BY <1>14, <3>2, <4>1
      <4> QED
        BY <4>2 DEF Single, Shared
    <3>4. HasVerdict(stored)
      BY <3>1, <3>3
    <3>5. \A o \in Objects : ~ Open(object[o])
      BY <1>14, <3>4 DEF IndInv, VerdictIsEverywhere
    <3> QED
      BY <3>1, <3>3, <3>5
  <2>2. CASE q # t
    <3>1. seen'[q] = seen[q]
      BY <1>1, <2>2 DEF Awaits, TypeOK
    <3> QED
      BY <1>2, <1>14, <2>2, <3>1 DEF IndInv, ParsedHasVerdict
  <2> QED
    BY <1>2, <2>1, <2>2
<1>8. SavedVerdictIsStored'
  BY <1>2, <1>3, <1>14 DEF IndInv, SavedVerdictIsStored, Asking, Ended
<1>9. SavedOnce'
  <2>1. p # "created" /\ p # "filled"
    BY <1>3 DEF Asking, Ended
  <2>2. pc'[t] \in {"submit", "balance", "recipient", "price"} /\ ~ expired => stored # NoWorkflow
    BY <1>2 DEF Awaits
  <2>3. known' /\ ~ expired => stored # NoWorkflow
    BY <1>2, <2>2 DEF IndInv, SavedOnce, Awaits
  <2> QED
    BY <1>2, <1>3, <2>1, <2>2, <2>3 DEF IndInv, SavedOnce
<1>10. StepsMoveUnknown'
  <2>1. CASE known' = known
    <3>1. p # "created" /\ p # "filled"
      BY <1>3 DEF Asking, Ended
    <3> QED
      BY <1>2, <1>3, <2>1, <3>1 DEF IndInv, StepsMoveUnknown, Awaits
  <2>2. CASE pc[t] = "created" /\ p = "submit"
    <3>1. call[t] = InitiateCall
      BY <1>1, <2>2 DEF CallsFit, Fits, InitiateSteps
    <3>2. \A q \in Tasks : q # t => pc[q] \notin InitiateSteps
      BY <1>1, <3>1 DEF CallsFit, Fits
    <3> QED
      BY <1>2, <1>3, <2>2, <3>2 DEF StepsMoveUnknown, Awaits, InitiateSteps
  <2> QED
    BY <2>1, <2>2 DEF Awaits
<1>11. AskedIsKept'
  <2>1. faults' = 0 => faults = 0
    BY <1>1 DEF Awaits, TypeOK
  <2> QED
    BY <1>2, <1>3, <1>14, <2>1 DEF IndInv, AskedIsKept
<1>12. BlindAfterFault' /\ StoppedIsSaved'
  BY <1>1, <1>3, <1>14 DEF IndInv, BlindAfterFault, StoppedIsSaved, Awaits, TypeOK
<1>13. Stands
  BY <1>3 DEF Stands
<1> QED
  BY <1>2, <1>5, <1>6, <1>7, <1>8, <1>9, <1>10, <1>11, <1>12, <1>13 DEF IndInv
-----------------------------------------------------------------------------
(* The initiation.                                                         *)

LEMMA QueueKeepsInv ==
  ASSUME IndInv, NEW t \in Tasks, NEW w \in Workflow, NEW step \in 2..3,
         QueueJob(t, w, step),
         pc[t] \in {"recipient", "filled"},
         w.type = object[t].type,
         Open(w) <=> Open(object[t]),
         w = object[t] \/ ~ known,
         UNCHANGED <<up, call, at, seen, restarts, history>>
  PROVE  IndInv' /\ Stands
<1> USE Verdicts
<1>1. /\ TypeOK /\ CallsFit /\ NothingBefore /\ NothingWhileDown
      /\ NoInitiationWhileStopping /\ StepsMoveUnknown
      /\ w # NoWorkflow
  BY WorkflowFacts DEF IndInv
<1>2. /\ call[t] = InitiateCall
      /\ pc[t] \in Saving \cup Asking
      /\ up # "down" /\ up # "stopping"
      /\ object[t] # NoWorkflow
  BY <1>1 DEF CallsFit, Fits, InitiateSteps, Saving, Asking, NothingWhileDown,
              NoInitiationWhileStopping
<1>3. /\ UNCHANGED <<up, call, at, seen, restarts, active, stored, ok, faults,
                     asked, blind, expired, holders>>
      /\ object' = [object EXCEPT ![t] = w]
      /\ job' = step /\ known' = TRUE
      /\ pc' = [pc EXCEPT ![t] = "job"]
  BY DEF QueueJob, Goto, history
<1>4. \A q \in Objects : object'[q] = IF q = t THEN w ELSE object[q]
  BY <1>1, <1>3 DEF TypeOK
<1>15. Single' = Single /\ Shared' = Shared
  BY <1>3 DEF Single, Shared
<1>5. Turns(t, "job") /\ Remembered
  BY <1>1, <1>2, <1>3, <1>4 DEF Turns, Remembered, Fits, InitiateSteps
<1>6. /\ CallsFit' /\ NothingBefore' /\ NothingWhileDown' /\ NoInitiationWhileStopping'
      /\ \A q \in Tasks : pc'[q] = IF q = t THEN "job" ELSE pc[q]
  BY <1>1, <1>5, TurnsKeepCalls
<1>7. TypeOK'
  BY <1>1, <1>3, <1>4, <1>5 DEF TypeOK, Asking, Remembered
<1>8. \A q \in Objects : (Open(object'[q]) <=> Open(object[q])) /\ (object'[q] = NoWorkflow <=> object[q] = NoWorkflow)
  BY <1>1, <1>2, <1>4
<1>9. /\ OneOpenObject' /\ VerdictIsEverywhere' /\ MapIsEmptyAfterVerdict'
      /\ ParsedHasVerdict' /\ SavedVerdictIsStored'
  BY <1>3, <1>6, <1>8, <1>15
     DEF IndInv, OneOpenObject, VerdictIsEverywhere, MapIsEmptyAfterVerdict,
         ParsedHasVerdict, SavedVerdictIsStored
<1>10. SavedOnce'
  BY <1>3, <1>6 DEF IndInv, SavedOnce
<1>11. StepsMoveUnknown'
  <2>1. \A q \in Tasks : q # t => pc[q] \notin InitiateSteps
    BY <1>1, <1>2 DEF CallsFit, Fits
  <2> QED
    BY <1>6, <2>1 DEF StepsMoveUnknown, InitiateSteps
<1>12. AskedIsKept'
  <2>1. faults = 0 /\ ~ Shared /\ Open(w) => HasAsked(w, asked)
    BY <1>1 DEF IndInv, AskedIsKept, HasAsked
  <2> QED
    BY <1>3, <1>4, <1>15, <2>1 DEF IndInv, AskedIsKept
<1>13. BlindAfterFault' /\ StoppedIsSaved'
  BY <1>2, <1>3 DEF IndInv, BlindAfterFault, StoppedIsSaved
<1>14. Stands
  BY <1>3, <1>15 DEF Stands
<1> QED
  BY <1>6, <1>7, <1>9, <1>10, <1>11, <1>12, <1>13, <1>14 DEF IndInv

LEMMA InitiateKeepsInv ==
  ASSUME IndInv, NEW t \in Tasks, Initiate(t)
  PROVE  IndInv' /\ Stands
<1> USE Verdicts, CallFacts
<1>1. PICK type \in Types, i \in Instances :
        /\ up = "running" /\ pc[t] = "idle"
        /\ \A q \in Tasks : call[q].method # "initiate"
        /\ call' = [call EXCEPT ![t] = InitiateCall]
        /\ at' = [at EXCEPT ![t] = i]
        /\ UpdateWorkflow(t, t, NewWorkflow(type), "created")
        /\ holders' = holders \cup {i}
        /\ UNCHANGED <<up, seen, job, known, restarts, asked, before, blind, expired>>
  BY DEF Initiate, InitiateCall
<1> DEFINE w == NewWorkflow(type)
<1>2. /\ TypeOK /\ CallsFit /\ NothingBefore /\ StepsMoveUnknown
      /\ w \in Workflow /\ w # NoWorkflow /\ Open(w)
      /\ UpdateWorkflow(t, t, w, "created")
  BY <1>1, NewWorkflowFacts DEF IndInv
<1> HIDE DEF w
<1>19. /\ at'[t] = i /\ at'[t] \in Instances
       /\ at' \in [Tasks -> Instances \cup {None}]
       /\ \A q \in Tasks : q # t => at'[q] = at[q]
  BY <1>1, <1>2 DEF TypeOK
<1>3. /\ object' \in [Objects -> Workflow \cup {NoWorkflow}]
      /\ \A q \in Objects : object'[q] = IF q = t THEN w ELSE object[q]
      /\ active' \in [Instances -> Objects \cup {None}]
      /\ \A j \in Instances : active'[j] = IF j = at'[t] THEN t ELSE active[j]
      /\ ok' \in [Tasks -> BOOLEAN]
      /\ \A q \in Tasks : q # t => ok'[q] = ok[q]
      /\ ok'[t] => stored' = w
      /\ stored' = w \/ stored' = stored
      /\ faults' \in 0..MaxFaults
      /\ faults' >= faults
      /\ faults' = 0 => faults = 0 /\ stored' = w
  <2>1. TypeOK /\ w \in Workflow /\ UpdateWorkflow(t, t, w, "created")
    BY <1>2
  <2>2. at'[t] \in Instances /\ t \in Objects
    BY <1>19
  <2> QED
    BY <2>1, <2>2, UpdateFacts
<1>4. \A q \in Tasks : call[q] # InitiateCall
  BY <1>1
<1>5. /\ \A o \in Objects : object[o] = NoWorkflow
      /\ stored = NoWorkflow /\ ~ known
      /\ \A j \in Instances : active[j] = None
      /\ \A q \in Tasks : pc[q] \notin Saving \cup Asking
  BY <1>2, <1>4 DEF NothingBefore
<1>6. /\ UNCHANGED <<seen, job, known, restarts, asked, blind, expired, up>>
      /\ pc' = [pc EXCEPT ![t] = "created"]
      /\ \A q \in Tasks : pc'[q] = IF q = t THEN "created" ELSE pc[q]
      /\ \A q \in Tasks : call'[q] = IF q = t THEN InitiateCall ELSE call[q]
  BY <1>1, <1>2 DEF UpdateWorkflow, Goto, TypeOK, CallsFit
<1>7. TypeOK'
  BY <1>1, <1>2, <1>3, <1>5, <1>6, <1>19 DEF TypeOK, Saving
<1>8. CallsFit'
  <2>1. call' \in [Tasks -> Calls]
    BY <1>1, <1>2 DEF CallsFit, Calls
  <2>2. \A q \in Tasks : Fits(pc'[q], call'[q])
    BY <1>2, <1>6 DEF CallsFit, Fits, InitiateSteps
  <2>3. \A q \in Tasks : call'[q] \in WorkersCalls => known'
    BY <1>2, <1>6 DEF CallsFit
  <2>4. \A q \in Tasks : call'[q] = InitiateCall => q = t
    BY <1>4, <1>6
  <2>6. \A q \in Tasks : pc'[q] # "idle" => at'[q] \in Instances
    BY <1>1, <1>2, <1>6, <1>19 DEF CallsFit
  <2>5. \A q \in Tasks : call'[q] = InitiateCall => object'[q] # NoWorkflow
    BY <1>2, <1>3, <2>4
  <2> QED
    BY <2>1, <2>2, <2>3, <2>4, <2>5, <2>6 DEF CallsFit
<1>9. NothingBefore' /\ NothingWhileDown' /\ NoInitiationWhileStopping'
  BY <1>1, <1>6 DEF NothingBefore, NothingWhileDown, NoInitiationWhileStopping
<1>10. OneOpenObject'
  BY <1>1, <1>3, <1>5, <1>19 DEF OneOpenObject
<1>11. VerdictIsEverywhere'
  BY <1>2, <1>3, <1>5 DEF VerdictIsEverywhere
<1>12. ParsedHasVerdict' /\ SavedVerdictIsStored'
  BY <1>5, <1>6 DEF ParsedHasVerdict, SavedVerdictIsStored, Saving, Asking
<1>13. MapIsEmptyAfterVerdict'
  BY <1>1, <1>3, <1>19, TasksAreNamed DEF MapIsEmptyAfterVerdict
<1>14. SavedOnce'
  BY <1>2, <1>3, <1>5, <1>6 DEF SavedOnce, Saving, Asking
<1>15. StepsMoveUnknown'
  BY <1>5, <1>6 DEF StepsMoveUnknown, Saving, Asking
<1>16. AskedIsKept'
  BY <1>2, <1>5, <1>6 DEF IndInv, AskedIsKept, HasAsked
<1>17. BlindAfterFault' /\ StoppedIsSaved'
  BY <1>1, <1>2, <1>3, <1>6 DEF IndInv, BlindAfterFault, StoppedIsSaved, TypeOK
<1>18. Stands
  BY <1>5 DEF Stands
<1> QED
  BY <1>7, <1>8, <1>9, <1>10, <1>11, <1>12, <1>13, <1>14, <1>15, <1>16, <1>17, <1>18
     DEF IndInv

\* Another object beside an open one is none.
LEMMA OthersHaveVerdicts ==
  ASSUME IndInv, Single, NEW o \in Objects, object[o] # NoWorkflow,
         NEW q \in Objects, q # o
  PROVE  ~ Open(object[q])
BY DEF IndInv, OneOpenObject

\* The answers of other services are entered, or the workflow is failed.
LEMMA InitiationSaves ==
  ASSUME IndInv, NEW t \in Tasks, NEW w \in Workflow, NEW p \in {"filled", "verdict"},
         UpdateWorkflow(t, t, w, p),
         pc[t] \in {"submit", "balance", "recipient", "price"},
         p = "filled" => pc[t] \in {"submit", "price"} /\ w.steps = object[t].steps,
         p = "verdict" => ~ Open(w),
         w.type = object[t].type,
         Open(w) => Open(object[t]),
         UNCHANGED <<up, call, at, seen, job, known, restarts, history>>
  PROVE  IndInv' /\ Stands
<1>1. /\ TypeOK /\ CallsFit /\ NothingWhileDown /\ StepsMoveUnknown /\ SavedOnce
      /\ call[t] = InitiateCall
      /\ pc[t] \in Saving \cup Asking
      /\ object[t] # NoWorkflow
      /\ up # "down"
  BY DEF IndInv, CallsFit, Fits, InitiateSteps, NothingWhileDown, Saving, Asking
<1>2. pc' = [pc EXCEPT ![t] = p]
  BY DEF UpdateWorkflow, Goto
<1>3. Turns(t, p)
  BY <1>1, <1>2 DEF Turns, Fits, InitiateSteps, TypeOK
<1>4. Single => \A q \in Objects : q # t => ~ Open(object[q])
  BY <1>1, OthersHaveVerdicts
<1>5. Open(w) /\ HasAsked(object[t], asked) => HasAsked(w, asked')
  BY DEF HasAsked, history
<1>6. asked' = asked /\ asked \in [1..4 -> {"none", "completed", "failed"}]
  BY DEF history, IndInv, AskedIsKept
<1>7. p = "filled" => /\ w.type = "bitcoin_purchase" => ~ known
                      /\ ~ expired => stored # NoWorkflow
  BY <1>1 DEF StepsMoveUnknown, SavedOnce
<1>8. Saves(t, t, w, p)
  BY <1>3, <1>4, <1>5, <1>6, <1>7 DEF Saves, history
<1> QED
  BY <1>8, SavesKeepInv

LEMMA SubmissionAnswersKeepsInv ==
  ASSUME IndInv, NEW t \in Tasks, SubmissionAnswers(t) \/ PriceAnswers(t)
  PROVE  IndInv' /\ Stands
<1> DEFINE f == [object[t] EXCEPT !.context = TRUE]
<1>1. /\ pc[t] \in {"submit", "price"}
      /\ UpdateWorkflow(t, t, f, "filled")
      /\ UNCHANGED <<up, call, at, seen, job, known, restarts, history>>
  BY DEF SubmissionAnswers, PriceAnswers, FillContext
<1>2. object[t] \in Workflow
  BY <1>1 DEF IndInv, TypeOK, CallsFit, Fits, InitiateSteps, Saving, Asking
<1>3. /\ f \in Workflow
      /\ f.type = object[t].type /\ f.steps = object[t].steps
      /\ Open(f) <=> Open(object[t])
  BY <1>2, ContextFacts
<1> HIDE DEF f
<1> QED
  BY <1>1, <1>3, InitiationSaves

\* An initiation fails its workflow.
LEMMA InitiationFails ==
  ASSUME IndInv, NEW t \in Tasks, pc[t] \in {"balance", "recipient"},
         FailWorkflow(t, t, object[t]),
         UNCHANGED <<up, call, at, seen, job, known, restarts, history>>
  PROVE  IndInv' /\ Stands
<1> DEFINE f == [object[t] EXCEPT !.status = "failed"]
<1>1. object[t] \in Workflow
  BY DEF IndInv, TypeOK, CallsFit, Fits, InitiateSteps, Saving, Asking
<1>2. f \in Workflow /\ f.type = object[t].type /\ ~ Open(f)
  BY <1>1, StatusFacts
<1>3. UpdateWorkflow(t, t, f, "verdict")
  BY DEF FailWorkflow
<1> HIDE DEF f
<1> QED
  BY <1>2, <1>3, InitiationSaves

\* What every step that only awaits has to show.
LEMMA InitiationAwaits ==
  ASSUME IndInv, NEW t \in Tasks, NEW p \in {"submit", "balance", "recipient", "price"},
         Await(t, p),
         (pc[t] = "created" /\ ok[t]) \/ (pc[t] = "balance" /\ p # "submit"),
         p = "submit" => object[t].type # "bitcoin_purchase" /\ known' = TRUE,
         p # "submit" => known' = known,
         UNCHANGED <<up, call, at, seen, job, restarts, history>>
  PROVE  IndInv' /\ Stands
<1>1. /\ TypeOK /\ CallsFit /\ NothingWhileDown /\ StepsMoveUnknown /\ SavedOnce
      /\ call[t] = InitiateCall
      /\ pc[t] \in Saving \cup Asking
      /\ up # "down"
  BY DEF IndInv, CallsFit, Fits, InitiateSteps, NothingWhileDown, Saving, Asking
<1>2. /\ pc' = [pc EXCEPT ![t] = p]
      /\ UNCHANGED <<object, active, stored, ok, faults, asked, blind, expired, holders>>
  BY DEF Await, Goto, history
<1>3. Turns(t, p)
  BY <1>1, <1>2 DEF Turns, Fits, InitiateSteps, TypeOK
<1>4. ~ known /\ (~ expired => stored # NoWorkflow)
  BY <1>1 DEF StepsMoveUnknown, SavedOnce
<1>5. known' = known \/ (pc[t] = "created" /\ p = "submit")
  OBVIOUS
<1>6. faults' \in 0..MaxFaults /\ faults' >= faults
  BY <1>1, <1>2 DEF TypeOK
<1>9. holders \subseteq holders' /\ holders' \subseteq Instances
  BY <1>1, <1>2 DEF TypeOK
<1>7. seen' = seen /\ UNCHANGED <<job, restarts>> /\ p \in Asking \cup Ended /\ p # "get"
  BY DEF Asking
<1>8. Awaits(t, p)
  BY <1>2, <1>3, <1>4, <1>5, <1>6, <1>7, <1>9 DEF Awaits
<1> QED
  BY <1>8, AwaitsKeepInv

LEMMA CreatedKeepsInv ==
  ASSUME IndInv, NEW t \in Tasks, Created(t)
  PROVE  IndInv' /\ Stands
<1>0. pc[t] = "created" /\ ok[t] /\ UNCHANGED <<up, call, at, seen, job, restarts, history>>
  BY DEF Created
<1>1. CASE object[t].type = "asset_deposit"
  <2>1. Await(t, "submit") /\ known' = TRUE
    BY <1>1 DEF Created
  <2>2. object[t].type # "bitcoin_purchase"
    BY <1>1
  <2> QED
    BY <1>0, <2>1, <2>2, InitiationAwaits
<1>2. CASE object[t].type # "asset_deposit"
  <2>1. Await(t, "balance") /\ known' = known
    BY <1>2 DEF Created
  <2> QED
    BY <1>0, <2>1, InitiationAwaits
<1> QED
  BY <1>1, <1>2

LEMMA BalanceAnswersKeepsInv ==
  ASSUME IndInv, NEW t \in Tasks, BalanceAnswers(t)
  PROVE  IndInv' /\ Stands
<1>1. /\ pc[t] = "balance"
      /\ \/ FailWorkflow(t, t, object[t])
         \/ Await(t, "recipient")
         \/ Await(t, "price")
      /\ UNCHANGED <<up, call, at, seen, job, known, restarts, history>>
  BY DEF BalanceAnswers
<1>2. CASE FailWorkflow(t, t, object[t])
  BY <1>1, <1>2, InitiationFails
<1>3. CASE Await(t, "recipient")
  BY <1>1, <1>3, InitiationAwaits
<1>4. CASE Await(t, "price")
  BY <1>1, <1>4, InitiationAwaits
<1> QED
  BY <1>1, <1>2, <1>3, <1>4

LEMMA RecipientAnswersKeepsInv ==
  ASSUME IndInv, NEW t \in Tasks, RecipientAnswers(t)
  PROVE  IndInv' /\ Stands
<1>1. /\ pc[t] = "recipient"
      /\ \/ QueueJob(t, MoveTo(object[t], 3), 3)
         \/ FailWorkflow(t, t, object[t]) /\ UNCHANGED <<job, known>>
      /\ UNCHANGED <<up, call, at, seen, restarts, history>>
  BY DEF RecipientAnswers
<1>2. object[t] \in Workflow /\ ~ known
  BY <1>1 DEF IndInv, TypeOK, CallsFit, Fits, InitiateSteps, Saving, Asking, StepsMoveUnknown
<1>3. CASE QueueJob(t, MoveTo(object[t], 3), 3)
  BY <1>1, <1>2, <1>3, MoveToFacts, QueueKeepsInv
<1>4. CASE FailWorkflow(t, t, object[t]) /\ UNCHANGED <<job, known>>
  BY <1>1, <1>4, InitiationFails
<1> QED
  BY <1>1, <1>3, <1>4

LEMMA FilledKeepsInv ==
  ASSUME IndInv, NEW t \in Tasks, Filled(t)
  PROVE  IndInv' /\ Stands
<1>1. pc[t] = "filled" /\ UNCHANGED <<up, call, at, seen, restarts, history>>
  BY DEF Filled
<1>2. object[t] \in Workflow
  BY <1>1 DEF IndInv, TypeOK, CallsFit, Fits, InitiateSteps, Saving, Asking
<1>3. CASE object[t].type = "bitcoin_purchase"
  <2>1. QueueJob(t, MoveTo(object[t], 2), 2)
    BY <1>3 DEF Filled
  <2>2. ~ known
    BY <1>1, <1>3 DEF IndInv, StepsMoveUnknown
  <2> QED
    BY <1>1, <1>2, <2>1, <2>2, MoveToFacts, QueueKeepsInv
<1>4. CASE object[t].type # "bitcoin_purchase"
  <2>1. QueueJob(t, object[t], 2)
    BY <1>4 DEF Filled
  <2> QED
    BY <1>1, <1>2, <2>1, QueueKeepsInv
<1> QED
  BY <1>3, <1>4
-----------------------------------------------------------------------------
(* The calls of workers, and what ends any call.                           *)

\* o is in the map with content w, or t has parsed w.
LEMMA PerformKeepsInv ==
  ASSUME IndInv, NEW t \in Tasks, NEW o \in Objects, NEW w \in Workflow,
         Perform(t, o, w),
         w = object[o] \/ (o = t /\ pc[t] = "get" /\ w = seen[t]),
         \/ call' = call /\ at' = at /\ pc[t] = "get"
         \/ /\ pc[t] = "idle" /\ known /\ w = object[o]
            /\ \E c \in WorkersCalls, i \in Instances :
                 call' = [call EXCEPT ![t] = c] /\ at' = [at EXCEPT ![t] = i],
         up # "down",
         UNCHANGED <<up, seen, job, known, restarts, before, blind, expired, holders>>
  PROVE  IndInv' /\ Stands
<1> USE Verdicts
<1>1. /\ TypeOK /\ CallsFit /\ AskedIsKept /\ w # NoWorkflow
      /\ asked \in [1..4 -> {"none", "completed", "failed"}]
  BY WorkflowFacts DEF IndInv, AskedIsKept
<1>2. known /\ call'[t] \in WorkersCalls
  BY <1>1 DEF CallsFit, Fits
<1>3. ASSUME NEW p \in {"updated", "verdict"}, pc' = [pc EXCEPT ![t] = p]
      PROVE  Turns(t, p)
  <2>1. Fits(p, call'[t])
    BY <1>2 DEF Fits, InitiateSteps
  <2>2. p \notin InitiateSteps /\ p # "idle" /\ "get" \in Saving \cup Asking
    BY DEF InitiateSteps, Asking
  <2> QED
    BY <1>1, <1>2, <1>3, <2>1, <2>2 DEF Turns, TypeOK
<1>4. ASSUME Single
      PROVE  /\ Open(w) => w = object[o]
             /\ \A q \in Objects : q # o => ~ Open(object[q])
  <2>1. CASE w = object[o]
    BY <1>1, <1>4, <2>1, OthersHaveVerdicts
  <2>2. CASE pc[t] = "get" /\ w = seen[t]
    BY <1>1, <1>4, <2>2 DEF IndInv, ParsedHasVerdict
  <2> QED
    BY <2>1, <2>2
<1>5. ASSUME NEW v \in Workflow, NEW p \in {"updated", "verdict"},
             UpdateWorkflow(t, o, v, p),
             v.type = w.type,
             Open(v) => Open(w) /\ (HasAsked(w, asked) => HasAsked(v, asked')),
             p = "verdict" => ~ Open(v),
             asked' \in [1..4 -> {"none", "completed", "failed"}]
      PROVE  IndInv' /\ Stands
  <2>1. Turns(t, p)
    BY <1>3, <1>5 DEF UpdateWorkflow, Goto
  <2>2. o # t => v.type = object[o].type
    BY <1>5
  <2>3. Single => /\ Open(v) => Open(object[o])
                  /\ \A q \in Objects : q # o => ~ Open(object[q])
                  /\ Open(v) /\ HasAsked(object[o], asked) => HasAsked(v, asked')
    BY <1>4, <1>5
  <2>4. Saves(t, o, v, p)
    BY <1>2, <1>5, <2>1, <2>2, <2>3 DEF Saves
  <2> QED
    BY <2>4, SavesKeepInv
<1>6. CASE /\ call'[t].method = "update"
           /\ UpdateWorkflowStep(t, o, w)
           /\ asked' = [asked EXCEPT ![call'[t].step] = call'[t].status]
  <2> DEFINE i == call'[t].step
             s == call'[t].status
             v == [w EXCEPT !.steps[i] = s]
  <2>1. i \in {2, 3} /\ s \in {"completed", "failed"}
    BY <1>2, <1>6, CallFacts
  <2>2. UpdateWorkflow(t, o, v, "updated") /\ asked' = [asked EXCEPT ![i] = s]
    BY <1>6 DEF UpdateWorkflowStep
  <2> HIDE DEF i, s
  <2>3. i \in 1..4 /\ s \in StepStatus
    BY <2>1 DEF StepStatus
  <2>4. /\ v \in Workflow /\ v.type = w.type
        /\ v.steps = [w.steps EXCEPT ![i] = s]
        /\ Open(v) <=> Open(w)
    BY <2>3, StepFacts
  <2>5. w.steps \in [1..4 -> StepStatus]
    BY WorkflowFacts
  <2> HIDE DEF v
  <2>6. HasAsked(w, asked) => HasAsked(v, asked')
    BY <1>1, <2>2, <2>3, <2>4, <2>5 DEF HasAsked
  <2>7. asked' \in [1..4 -> {"none", "completed", "failed"}]
    BY <1>1, <2>1, <2>2
  <2> QED
    BY <1>5, <2>2, <2>4, <2>6, <2>7
<1>7. CASE UNCHANGED asked /\ (CompleteWorkflow(t, o, w) \/ FailWorkflow(t, o, w))
  <2>1. PICK s \in {"completed", "failed"} :
          UpdateWorkflow(t, o, [w EXCEPT !.status = s], "verdict")
    BY <1>7 DEF CompleteWorkflow, FailWorkflow
  <2> DEFINE v == [w EXCEPT !.status = s]
  <2>2. v \in Workflow /\ v.type = w.type /\ ~ Open(v)
    BY StatusFacts
  <2> HIDE DEF v
  <2>3. UpdateWorkflow(t, o, v, "verdict")
    BY <2>1 DEF v
  <2> QED
    BY <1>1, <1>5, <1>7, <2>2, <2>3
<1> QED
  BY <1>6, <1>7 DEF Perform

\* The end of a call, or the last it waits for.
LEMMA EndingKeepsInv ==
  ASSUME IndInv, NEW t \in Tasks, NEW p \in {"tell", "done", "error"},
         pc[t] \in Saving \cup Asking,
         pc' = [pc EXCEPT ![t] = p],
         UNCHANGED <<up, object, active, stored, call, at, seen, ok, job, known,
                     restarts, asked, blind, expired, holders>>,
         faults' \in 0..MaxFaults, faults' >= faults
  PROVE  IndInv' /\ Stands
<1>1. TypeOK /\ up # "down"
  BY DEF IndInv, NothingWhileDown
<1>2. Turns(t, p)
  BY <1>1 DEF Turns, Fits, InitiateSteps, TypeOK
<1>3. Awaits(t, p)
  BY <1>1, <1>2 DEF Awaits, Asking, Ended, TypeOK
<1> QED
  BY <1>3, AwaitsKeepInv

LEMMA CallEndsKeepsInv ==
  ASSUME IndInv, NEW t \in Tasks,
         JobQueued(t) \/ StepSaved(t) \/ Told(t) \/ SaveFails(t) \/ CallFails(t)
  PROVE  IndInv' /\ Stands
<1>1. /\ pc[t] \in Saving \cup Asking
      /\ \E p \in {"tell", "done", "error"} : pc' = [pc EXCEPT ![t] = p]
  BY DEF JobQueued, StepSaved, Told, SaveFails, CallFails, Await, Goto, Saving, Asking
<1>2. UNCHANGED <<up, object, active, stored, call, at, seen, ok, job, known,
                  restarts, asked, blind, expired, holders>>
  BY DEF JobQueued, StepSaved, Told, SaveFails, CallFails, Await, KeepInMap, bounds, history
<1>3. faults' \in 0..MaxFaults /\ faults' >= faults
  BY OrchestratorAssumption
     DEF JobQueued, StepSaved, Told, SaveFails, CallFails, Await, Fault, bounds,
         IndInv, TypeOK
<1> QED
  BY <1>1, <1>2, <1>3, EndingKeepsInv

LEMMA WorkerCallsKeepsInv ==
  ASSUME IndInv, NEW t \in Tasks, WorkerCalls(t)
  PROVE  IndInv' /\ Stands
<1>1. PICK c \in WorkersCalls, i \in Instances :
        /\ up \in {"running", "stopping"} /\ known /\ pc[t] = "idle"
        /\ call' = [call EXCEPT ![t] = c]
        /\ at' = [at EXCEPT ![t] = i]
        /\ GetWorkflow(t)
        /\ UNCHANGED <<up, job, known, restarts, before, blind, expired>>
  BY DEF WorkerCalls
<1>2. TypeOK
  BY DEF IndInv
<1>5. at'[t] = i
  BY <1>1, <1>2 DEF TypeOK
<1>3. CASE active[i] # None
  <2>1. /\ Perform(t, active[i], object[active[i]])
        /\ UNCHANGED <<seen, holders>>
    BY <1>1, <1>3, <1>5 DEF GetWorkflow
  <2>2. active[i] \in Objects /\ object[active[i]] \in Workflow
    BY <1>2, <1>3 DEF TypeOK
  <2> QED
    BY <1>1, <2>1, <2>2, PerformKeepsInv
<1>4. CASE active[i] = None
  <2>1. /\ seen' = [seen EXCEPT ![t] = stored]
        /\ holders' = IF Open(stored) THEN holders \cup {i} ELSE holders
        /\ Await(t, "get") /\ UNCHANGED asked
    BY <1>1, <1>4, <1>5 DEF GetWorkflow, Load
  <2>2. /\ pc' = [pc EXCEPT ![t] = "get"]
        /\ UNCHANGED <<object, active, stored, ok, faults>>
    BY <2>1 DEF Await, Goto
  <2>3. Turns(t, "get")
    BY <1>1, <2>2 DEF Turns, InitiateSteps
  <2>4. faults' \in 0..MaxFaults /\ faults' >= faults
    BY <1>2, <2>2 DEF TypeOK
  <2>6. holders \subseteq holders' /\ holders' \subseteq Instances
    BY <1>2, <2>1 DEF TypeOK
  <2>7. active[i] = None /\ (Open(stored) => i \in holders')
    BY <1>4, <2>1
  <2>5. Awaits(t, "get")
    BY <2>6, <2>7, <1>1, <2>1, <2>2, <2>3, <2>4 DEF Awaits, Asking
  <2> QED
    BY <2>5, AwaitsKeepInv
<1> QED
  BY <1>3, <1>4

LEMMA GetAnswersKeepsInv ==
  ASSUME IndInv, NEW t \in Tasks, GetAnswers(t)
  PROVE  IndInv' /\ Stands
<1>1. /\ pc[t] = "get" /\ UNCHANGED <<call, at>>
      /\ UNCHANGED <<up, seen, job, known, restarts, before, blind, expired, holders>>
      /\ TypeOK
      /\ up # "down"
  BY DEF GetAnswers, IndInv, NothingWhileDown, Asking
<1>2. CASE seen[t] = NoWorkflow
  <2>1. Await(t, "error") /\ UNCHANGED asked
    BY <1>2 DEF GetAnswers
  <2>2. /\ pc' = [pc EXCEPT ![t] = "error"]
        /\ UNCHANGED <<object, active, stored, ok, faults>>
    BY <2>1 DEF Await, Goto
  <2>3. faults' \in 0..MaxFaults /\ faults' >= faults
    BY <1>1, <2>2 DEF TypeOK
  <2>4. pc[t] \in Saving \cup Asking
    BY <1>1 DEF Asking
  <2> QED
    BY <1>1, <2>1, <2>2, <2>3, <2>4, EndingKeepsInv
<1>3. CASE seen[t] # NoWorkflow
  <2>1. Perform(t, t, seen[t])
    BY <1>3 DEF GetAnswers
  <2>2. seen[t] \in Workflow /\ t \in Objects
    BY <1>1, <1>3 DEF TypeOK
  <2> QED
    BY <1>1, <2>1, <2>2, PerformKeepsInv
<1> QED
  BY <1>2, <1>3

LEMMA VerdictSavedKeepsInv ==
  ASSUME IndInv, NEW t \in Tasks, VerdictSaved(t)
  PROVE  IndInv' /\ Stands
<1> USE Verdicts
<1>1. /\ TypeOK /\ CallsFit /\ NothingBefore /\ NothingWhileDown
      /\ NoInitiationWhileStopping
      /\ pc[t] = "verdict" /\ ok[t]
      /\ active' = [active EXCEPT ![at[t]] = None]
      /\ pc' = [pc EXCEPT ![t] = "tell"]
      /\ UNCHANGED <<up, object, stored, call, at, seen, ok, job, known, faults,
                     restarts, asked, before, blind, expired, holders>>
  BY DEF IndInv, VerdictSaved, Goto, bounds, history
<1>9. /\ active' \in [Instances -> Objects \cup {None}]
      /\ \A i \in Instances : active'[i] = None \/ active'[i] = active[i]
      /\ Single' = Single /\ Shared' = Shared
  <2>1. active \in [Instances -> Objects \cup {None}]
    BY <1>1 DEF TypeOK
  <2>2. \A i \in Instances : active'[i] = IF i = at[t] THEN None ELSE active[i]
    BY <1>1, <2>1
  <2>3. active' \in [Instances -> Objects \cup {None}]
    BY <1>1, <2>1
  <2>4. Single' = Single /\ Shared' = Shared
    BY <1>1 DEF Single, Shared
  <2> QED
    BY <2>2, <2>3, <2>4
<1>2. Turns(t, "tell") /\ Remembered
  BY <1>1 DEF Turns, Remembered, Fits, InitiateSteps, TypeOK, NothingWhileDown, Saving
<1>3. /\ CallsFit' /\ NothingBefore' /\ NothingWhileDown' /\ NoInitiationWhileStopping'
      /\ \A q \in Tasks : pc'[q] = IF q = t THEN "tell" ELSE pc[q]
  BY <1>1, <1>2, TurnsKeepCalls
<1>4. Single => HasVerdict(stored) /\ \A o \in Objects : ~ Open(object[o])
  BY <1>1 DEF IndInv, SavedVerdictIsStored, VerdictIsEverywhere
<1>5. TypeOK'
  BY <1>1, <1>9 DEF TypeOK, Asking
<1>6. /\ OneOpenObject' /\ VerdictIsEverywhere' /\ ParsedHasVerdict'
      /\ MapIsEmptyAfterVerdict' /\ SavedVerdictIsStored'
  BY <1>1, <1>3, <1>4, <1>9
     DEF IndInv, OneOpenObject, VerdictIsEverywhere, ParsedHasVerdict,
         MapIsEmptyAfterVerdict, SavedVerdictIsStored
<1>7. SavedOnce' /\ StepsMoveUnknown'
  BY <1>1, <1>3 DEF IndInv, SavedOnce, StepsMoveUnknown
<1>8. AskedIsKept' /\ BlindAfterFault' /\ StoppedIsSaved' /\ Stands
  BY <1>1, <1>9, OrchestratorAssumption
     DEF IndInv, AskedIsKept, BlindAfterFault, StoppedIsSaved, Stands
<1> QED
  BY <1>3, <1>5, <1>6, <1>7, <1>8 DEF IndInv
-----------------------------------------------------------------------------
(* The process, and time.                                                  *)

LEMMA StopKeepsInv ==
  ASSUME IndInv, Stop
  PROVE  IndInv' /\ Stands
<1> USE Verdicts, CallFacts
<1>1. /\ TypeOK /\ CallsFit
      /\ up = "running" /\ up' = "stopping" /\ Initiating = {}
      /\ restarts < MaxRestarts /\ restarts' = restarts + 1
      /\ UNCHANGED <<object, active, call, pc, at, seen, ok, job, known, asked, before,
                     blind, expired, holders>>
  BY DEF IndInv, Stop, tasks, history
<1> DEFINE o == active[Service]
<1>3. o # None => o \in Objects /\ object[o] \in Workflow /\ object[o] # NoWorkflow
  BY <1>1, OrchestratorAssumption DEF TypeOK
<1>2. /\ stored' = stored \/ (o # None /\ stored' = object[o])
      /\ faults' \in 0..MaxFaults /\ faults' >= faults
      /\ faults' = 0 => faults = 0 /\ (o # None => stored' = object[o])
  <2>1. CASE o = None
    BY <1>1, <2>1 DEF Stop, SaveActive, TypeOK
  <2>2. CASE o # None
    <3>1. Issue(object[o])
      BY <2>2 DEF Stop, SaveActive
    <3>2. /\ stored' = stored \/ stored' = object[o]
          /\ faults' \in 0..MaxFaults /\ faults' >= faults
          /\ faults' = faults => stored' = object[o]
      BY <1>1, <3>1, OrchestratorAssumption DEF Issue, Fault, TypeOK
    <3>3. faults' = 0 => faults' = faults
      BY <1>1, <3>2 DEF TypeOK
    <3> QED
      BY <2>2, <3>2, <3>3
  <2> QED
    BY <2>1, <2>2
<1>6. Single' = Single /\ Shared' = Shared
  BY <1>1 DEF Single, Shared
<1>15. active'[Service] = o
  BY <1>1
<1> HIDE DEF o
<1>4. stored # NoWorkflow => stored' # NoWorkflow
  BY <1>2, <1>3
<1>5. TypeOK'
  <2>1. stored' \in Workflow \cup {NoWorkflow}
    BY <1>1, <1>2, <1>3 DEF TypeOK
  <2>2. restarts' \in 0..MaxRestarts
    BY <1>1, OrchestratorAssumption DEF TypeOK
  <2> QED
    BY <1>1, <1>2, <2>1, <2>2 DEF TypeOK
<1>7. CallsFit' /\ NothingBefore' /\ NothingWhileDown'
  BY <1>1, <1>2, <1>15, OrchestratorAssumption DEF IndInv, CallsFit, NothingBefore, NothingWhileDown
<1>8. NoInitiationWhileStopping'
  BY <1>1 DEF NoInitiationWhileStopping, Initiating, InFlight
<1>9. Single /\ HasVerdict(stored') => \A q \in Objects : ~ Open(object[q])
  <2>1. CASE stored' = stored
    BY <2>1 DEF IndInv, VerdictIsEverywhere
  <2>2. CASE o # None /\ stored' = object[o]
    BY <1>3, <2>2, OthersHaveVerdicts
  <2> QED
    BY <1>2, <2>1, <2>2
<1>10. Single /\ HasVerdict(stored) => HasVerdict(stored')
  BY <1>2, <1>3 DEF IndInv, VerdictIsEverywhere
<1>16. Single /\ Open(stored') => \E i \in holders : active[i] # None
  <2>1. CASE stored' = stored
    BY <1>1, <2>1 DEF IndInv, MapIsEmptyAfterVerdict
  <2>2. CASE o # None /\ stored' = object[o]
    BY <1>3, <2>2, TasksAreNamed DEF IndInv, OneOpenObject
  <2> QED
    BY <1>2, <2>1, <2>2
<1>11. /\ OneOpenObject' /\ VerdictIsEverywhere' /\ ParsedHasVerdict'
       /\ MapIsEmptyAfterVerdict' /\ SavedVerdictIsStored'
  BY <1>1, <1>2, <1>6, <1>9, <1>10, <1>16
     DEF IndInv, OneOpenObject, VerdictIsEverywhere, ParsedHasVerdict,
         MapIsEmptyAfterVerdict, SavedVerdictIsStored
<1>12. SavedOnce' /\ StepsMoveUnknown'
  BY <1>1, <1>4 DEF IndInv, SavedOnce, StepsMoveUnknown
<1>13. AskedIsKept'
  BY <1>1, <1>2, <1>3, <1>6 DEF IndInv, AskedIsKept
<1>14. BlindAfterFault' /\ StoppedIsSaved' /\ Stands
  BY <1>1, <1>2, <1>6, <1>10, <1>15
     DEF IndInv, BlindAfterFault, StoppedIsSaved, Stands, Single, TypeOK
<1> QED
  BY <1>5, <1>7, <1>8, <1>11, <1>12, <1>13, <1>14 DEF IndInv

LEMMA EndKeepsInv ==
  ASSUME IndInv, Exit \/ Crash
  PROVE  IndInv' /\ Stands
<1> USE Verdicts, TasksAreNamed
<1>1. /\ TypeOK /\ CallsFit
      /\ up' = "down"
      /\ object' = [o \in Objects |-> NoWorkflow]
      /\ active' = [i \in Instances |-> None]
      /\ pc' = [t \in Tasks |-> IF t \in InFlight THEN "dead" ELSE pc[t]]
      /\ seen' = [t \in Tasks |-> NoWorkflow]
      /\ UNCHANGED <<stored, call, at, ok, job, known, restarts, asked, blind, expired,
                     holders>>
  BY DEF IndInv, Exit, Crash, End
<1>2. faults' \in 0..MaxFaults /\ faults' >= faults
  BY <1>1, OrchestratorAssumption DEF Exit, Crash, Fault, TypeOK
<1>3. \A o \in Objects : object'[o] = NoWorkflow
  BY <1>1
<1>12. Single' = Single /\ Shared' = Shared
  BY <1>1 DEF Single, Shared
<1>4. \A t \in Tasks : /\ pc'[t] \notin Saving \cup Asking
                       /\ pc'[t] = pc[t] \/ (pc'[t] = "dead" /\ pc[t] # "idle")
  BY <1>1 DEF InFlight, Saving, Asking
<1>5. TypeOK'
  <2>1. pc' \in [Tasks -> {"idle"} \cup Saving \cup Asking \cup Ended]
    BY <1>1 DEF TypeOK, Ended
  <2> QED
    BY <1>1, <1>2, <2>1 DEF TypeOK
<1>6. CallsFit'
  <2>1. \A t \in Tasks : Fits(pc'[t], call[t])
    BY <1>1, <1>4 DEF CallsFit, Fits, InitiateSteps
  <2> QED
    BY <1>1, <1>4, <2>1 DEF CallsFit
<1>7. NothingBefore' /\ NothingWhileDown' /\ NoInitiationWhileStopping'
  BY <1>1, <1>3, <1>4 DEF IndInv, NothingBefore, NothingWhileDown, NoInitiationWhileStopping
<1>8. /\ OneOpenObject' /\ VerdictIsEverywhere' /\ MapIsEmptyAfterVerdict'
      /\ ParsedHasVerdict' /\ SavedVerdictIsStored'
  BY <1>1, <1>3, <1>4
     DEF OneOpenObject, VerdictIsEverywhere, MapIsEmptyAfterVerdict, ParsedHasVerdict,
         SavedVerdictIsStored, Saving, Asking
<1>9. SavedOnce' /\ StepsMoveUnknown'
  BY <1>1, <1>4 DEF IndInv, SavedOnce, StepsMoveUnknown, Saving, Asking
<1>10. AskedIsKept'
  BY <1>1, <1>2, <1>3, <1>12 DEF IndInv, AskedIsKept, TypeOK
<1>11. BlindAfterFault' /\ StoppedIsSaved' /\ Stands
  BY <1>1, <1>2, OrchestratorAssumption
     DEF IndInv, BlindAfterFault, StoppedIsSaved, Stands, TypeOK
<1> QED
  BY <1>5, <1>6, <1>7, <1>8, <1>9, <1>10, <1>11 DEF IndInv

LEMMA StartKeepsInv ==
  ASSUME IndInv, Start
  PROVE  IndInv' /\ Stands
<1> USE Verdicts, TasksAreNamed
<1>1. /\ TypeOK /\ CallsFit
      /\ up = "down" /\ up' = "running"
      /\ UNCHANGED <<stored, call, pc, at, seen, ok, job, known, restarts, asked,
                     expired>>
      /\ \A o \in Objects : object[o] = NoWorkflow
      /\ \A i \in Instances : active[i] = None
      /\ \A t \in Tasks : pc[t] \notin Saving \cup Asking
  BY DEF IndInv, Start, NothingWhileDown, tasks
<1>2. \/ /\ Open(stored) /\ object' = [object EXCEPT ![Reloaded] = stored]
         /\ active' = [active EXCEPT ![Service] = Reloaded]
         /\ holders' = holders \cup {Service} /\ UNCHANGED <<faults, blind>>
      \/ ~ Open(stored) /\ UNCHANGED <<object, active, holders, faults, blind>>
      \/ Fault /\ blind' = TRUE /\ UNCHANGED <<object, active, holders>>
  BY DEF Start
<1>3. CASE /\ Open(stored) /\ object' = [object EXCEPT ![Reloaded] = stored]
           /\ active' = [active EXCEPT ![Service] = Reloaded]
           /\ holders' = holders \cup {Service} /\ UNCHANGED <<faults, blind>>
  <2>1. \A o \in Objects : object'[o] = IF o = Reloaded THEN stored ELSE NoWorkflow
    BY <1>1, <1>3 DEF TypeOK
  <2>9. /\ active' \in [Instances -> Objects \cup {None}]
        /\ \A i \in Instances : active'[i] = IF i = Service THEN Reloaded ELSE None
        /\ Service \in holders' /\ holders' \subseteq Instances
        /\ Shared => Shared'
        /\ Single' => Single
    BY <1>1, <1>3, OrchestratorAssumption, SharedStays DEF TypeOK
  <2>2. TypeOK'
    BY <1>1, <1>3, <2>1, <2>9 DEF TypeOK
  <2>3. CallsFit' /\ NoInitiationWhileStopping' /\ NothingWhileDown'
    BY <1>1 DEF CallsFit, NoInitiationWhileStopping, NothingWhileDown
  <2>4. NothingBefore'
    BY <1>1, <1>3 DEF IndInv, NothingBefore
  <2>5. /\ OneOpenObject' /\ VerdictIsEverywhere' /\ ParsedHasVerdict'
        /\ MapIsEmptyAfterVerdict' /\ SavedVerdictIsStored'
    BY <1>1, <1>3, <2>1, <2>9, TasksAreNamed, OrchestratorAssumption
       DEF OneOpenObject, VerdictIsEverywhere, ParsedHasVerdict, MapIsEmptyAfterVerdict,
           SavedVerdictIsStored, Saving, Asking
  <2>6. SavedOnce' /\ StepsMoveUnknown'
    BY <1>1, <1>3 DEF IndInv, SavedOnce, StepsMoveUnknown, Saving, Asking
  <2>7. AskedIsKept'
    BY <1>1, <1>3, <2>1, <2>9 DEF IndInv, AskedIsKept
  <2>8. BlindAfterFault' /\ StoppedIsSaved' /\ Stands
    BY <1>1, <1>3 DEF IndInv, BlindAfterFault, StoppedIsSaved, Stands
  <2> QED
    BY <2>2, <2>3, <2>4, <2>5, <2>6, <2>7, <2>8 DEF IndInv
<1>4. ASSUME UNCHANGED <<object, active, holders>>,
             faults' \in 0..MaxFaults, faults' >= faults,
             (blind' = blind /\ ~ Open(stored)) \/ (blind' = TRUE /\ faults' > 0)
      PROVE  IndInv' /\ Stands
  <2> USE <1>4
  <2>8. Shared' = Shared /\ (Single' => Single)
    BY <1>4 DEF Shared, Single
  <2>9. Single' => ~ Open(stored)
    BY <1>4 DEF Single
  <2>1. TypeOK' /\ CallsFit' /\ NoInitiationWhileStopping' /\ NothingWhileDown'
    BY <1>1 DEF TypeOK, CallsFit, NoInitiationWhileStopping, NothingWhileDown
  <2>2. NothingBefore'
    BY <1>1 DEF IndInv, NothingBefore
  <2>3. /\ OneOpenObject' /\ VerdictIsEverywhere' /\ ParsedHasVerdict'
        /\ MapIsEmptyAfterVerdict' /\ SavedVerdictIsStored'
    BY <1>1, <2>8, <2>9
       DEF OneOpenObject, VerdictIsEverywhere, ParsedHasVerdict, MapIsEmptyAfterVerdict,
           SavedVerdictIsStored, Saving, Asking
  <2>4. SavedOnce' /\ StepsMoveUnknown'
    BY <1>1 DEF IndInv, SavedOnce, StepsMoveUnknown
  <2>5. AskedIsKept'
    BY <1>1, <2>8 DEF IndInv, AskedIsKept, TypeOK
  <2>6. BlindAfterFault'
    <3>1. CASE blind' = blind /\ ~ Open(stored)
      BY <1>1, <3>1 DEF IndInv, BlindAfterFault, TypeOK
    <3>2. CASE blind' = TRUE /\ faults' > 0
      BY <3>2 DEF BlindAfterFault
    <3> QED
      BY <3>1, <3>2
  <2>7. StoppedIsSaved' /\ Stands
    BY <1>1 DEF StoppedIsSaved, Stands
  <2> QED
    BY <2>1, <2>2, <2>3, <2>4, <2>5, <2>6, <2>7 DEF IndInv
<1>5. CASE ~ Open(stored) /\ UNCHANGED <<object, active, holders, faults, blind>>
  BY <1>1, <1>4, <1>5 DEF TypeOK
<1>6. CASE Fault /\ blind' = TRUE /\ UNCHANGED <<object, active, holders>>
  <2>1. faults \in 0..MaxFaults /\ faults < MaxFaults /\ faults' = faults + 1
    BY <1>1, <1>6 DEF TypeOK, Fault
  <2>2. faults' \in 0..MaxFaults /\ faults' >= faults /\ faults' > 0
    BY <2>1, OrchestratorAssumption
  <2> QED
    BY <1>4, <1>6, <2>2
<1> QED
  BY <1>2, <1>3, <1>5, <1>6

LEMMA ExpireKeepsInv ==
  ASSUME IndInv, Expire
  PROVE  IndInv' /\ Stands
<1> USE Verdicts
<1>1. /\ \A t \in Tasks : pc[t] \notin Saving \cup Asking
      /\ up = "running"
      /\ stored' = NoWorkflow /\ expired' = TRUE
      /\ UNCHANGED <<up, object, active, call, pc, at, seen, ok, job, known, faults,
                     restarts, asked, before, blind, holders>>
  BY DEF Expire, InFlight, tasks, bounds
<1>5. Single' = Single /\ Shared' = Shared
  BY <1>1 DEF Single, Shared
<1>2. /\ TypeOK' /\ CallsFit' /\ NothingBefore' /\ NothingWhileDown'
      /\ NoInitiationWhileStopping'
  BY <1>1 DEF IndInv, TypeOK, CallsFit, NothingBefore, NothingWhileDown,
              NoInitiationWhileStopping
<1>3. /\ OneOpenObject' /\ VerdictIsEverywhere' /\ ParsedHasVerdict'
      /\ MapIsEmptyAfterVerdict' /\ SavedVerdictIsStored'
  BY <1>1, <1>5 DEF IndInv, OneOpenObject, VerdictIsEverywhere, ParsedHasVerdict,
              MapIsEmptyAfterVerdict, SavedVerdictIsStored, Saving, Asking
<1>4. /\ SavedOnce' /\ StepsMoveUnknown' /\ AskedIsKept' /\ BlindAfterFault'
      /\ StoppedIsSaved' /\ Stands
  BY <1>1, <1>5 DEF IndInv, SavedOnce, StepsMoveUnknown, AskedIsKept, BlindAfterFault,
              StoppedIsSaved, Stands
<1> QED
  BY <1>2, <1>3, <1>4 DEF IndInv

LEMMA NothingKeepsInv ==
  ASSUME IndInv, UNCHANGED vars
  PROVE  IndInv' /\ Stands
<1>1. UNCHANGED <<up, object, active, stored, call, pc, at, seen, ok, job, known,
                  faults, restarts, asked, before, blind, expired,
                  holders>>
  BY DEF vars, tasks, bounds, history
<1> QED
  BY <1>1
     DEF IndInv, TypeOK, CallsFit, NothingBefore, NothingWhileDown,
         NoInitiationWhileStopping, OneOpenObject, VerdictIsEverywhere, ParsedHasVerdict,
         MapIsEmptyAfterVerdict, SavedVerdictIsStored, SavedOnce, StepsMoveUnknown,
         AskedIsKept, BlindAfterFault, StoppedIsSaved, Stands, Single, Shared
-----------------------------------------------------------------------------
LEMMA InitIsInd == Init => IndInv
<1> SUFFICES ASSUME Init PROVE IndInv
  OBVIOUS
<1> USE Verdicts, CallFacts DEF Init
<1>1. TypeOK
  <2>1. /\ object \in [Objects -> Workflow \cup {NoWorkflow}]
        /\ seen \in [Tasks -> Workflow \cup {NoWorkflow}]
        /\ stored \in Workflow \cup {NoWorkflow}
    OBVIOUS
  <2>2. /\ pc \in [Tasks -> {"idle"} \cup Saving \cup Asking \cup Ended]
        /\ at \in [Tasks -> Instances \cup {None}]
        /\ active \in [Instances -> Objects \cup {None}]
        /\ ok \in [Tasks -> BOOLEAN]
    OBVIOUS
  <2>3. /\ faults \in 0..MaxFaults /\ restarts \in 0..MaxRestarts
        /\ job \in 0..4
    <3>1. MaxFaults \in Nat /\ MaxRestarts \in Nat
      BY OrchestratorAssumption
    <3>2. faults = 0 /\ restarts = 0 /\ job = 0
      OBVIOUS
    <3> HIDE DEF Init
    <3> QED
      BY <3>1, <3>2
  <2>4. up \in {"running", "stopping", "down"} /\ holders = {} /\ known \in BOOLEAN
    OBVIOUS
  <2>5. Objects \cup {None} = Tasks \cup {Reloaded, None}
    OBVIOUS
  <2> QED
    BY <2>1, <2>2, <2>3, <2>4, <2>5 DEF TypeOK
<1>2. CallsFit
  BY DEF CallsFit, Calls, Fits, InitiateSteps, Saving, Asking
<1>3. NothingBefore /\ NothingWhileDown /\ NoInitiationWhileStopping
  BY DEF NothingBefore, NothingWhileDown, NoInitiationWhileStopping, Saving, Asking
<1>4. /\ OneOpenObject /\ VerdictIsEverywhere /\ ParsedHasVerdict
      /\ MapIsEmptyAfterVerdict /\ SavedVerdictIsStored
  BY DEF OneOpenObject, VerdictIsEverywhere, ParsedHasVerdict, MapIsEmptyAfterVerdict,
         SavedVerdictIsStored
<1>5. SavedOnce /\ StepsMoveUnknown /\ AskedIsKept /\ BlindAfterFault /\ StoppedIsSaved
  BY DEF SavedOnce, StepsMoveUnknown, AskedIsKept, BlindAfterFault, StoppedIsSaved
<1> QED
  BY <1>1, <1>2, <1>3, <1>4, <1>5 DEF IndInv

LEMMA StepKeepsInd == IndInv /\ [Next]_vars => IndInv' /\ Stands
<1> SUFFICES ASSUME IndInv, [Next]_vars PROVE IndInv' /\ Stands
  OBVIOUS
<1>1. ASSUME NEW t \in Tasks, Initiate(t) PROVE IndInv' /\ Stands
  BY <1>1, InitiateKeepsInv
<1>2. ASSUME NEW t \in Tasks, WorkerCalls(t) PROVE IndInv' /\ Stands
  BY <1>2, WorkerCallsKeepsInv
<1>3. ASSUME NEW t \in Tasks, Serve(t) PROVE IndInv' /\ Stands
  <2>1. CASE Created(t)
    BY <2>1, CreatedKeepsInv
  <2>2. CASE SubmissionAnswers(t) \/ PriceAnswers(t)
    BY <2>2, SubmissionAnswersKeepsInv
  <2>3. CASE BalanceAnswers(t)
    BY <2>3, BalanceAnswersKeepsInv
  <2>4. CASE RecipientAnswers(t)
    BY <2>4, RecipientAnswersKeepsInv
  <2>5. CASE Filled(t)
    BY <2>5, FilledKeepsInv
  <2>6. CASE GetAnswers(t)
    BY <2>6, GetAnswersKeepsInv
  <2>7. CASE VerdictSaved(t)
    BY <2>7, VerdictSavedKeepsInv
  <2>8. CASE JobQueued(t) \/ StepSaved(t) \/ Told(t) \/ SaveFails(t)
    BY <2>8, CallEndsKeepsInv
  <2> QED
    BY <1>3, <2>1, <2>2, <2>3, <2>4, <2>5, <2>6, <2>7, <2>8 DEF Serve
<1>4. ASSUME NEW t \in Tasks, CallFails(t) PROVE IndInv' /\ Stands
  BY <1>4, CallEndsKeepsInv
<1>5. CASE Stop
  BY <1>5, StopKeepsInv
<1>6. CASE Exit \/ Crash
  BY <1>6, EndKeepsInv
<1>7. CASE Start
  BY <1>7, StartKeepsInv
<1>8. CASE Expire
  BY <1>8, ExpireKeepsInv
<1>9. CASE Rest \/ UNCHANGED vars
  BY <1>9, NothingKeepsInv DEF Rest
<1> QED
  BY <1>1, <1>2, <1>3, <1>4, <1>5, <1>6, <1>7, <1>8, <1>9 DEF Next

LEMMA IndInvHolds == Spec => []IndInv
<1>1. Init => IndInv
  BY InitIsInd
<1>2. IndInv /\ [Next]_vars => IndInv'
  BY StepKeepsInd
<1> QED
  BY <1>1, <1>2, PTL DEF Spec

\* Objects, snapshot and calls are typed in every reachable state.
THEOREM PaymentTypeCorrect == Spec => []TypeOK
<1>1. IndInv => TypeOK
  BY DEF IndInv
<1> QED
  BY <1>1, IndInvHolds, PTL

\* updateWorkflowStep: as long as nothing fails and no second instance takes
\* the workflow up, what workers gave the steps of an open workflow is in the
\* snapshot, however their calls interleave.
THEOREM ConcurrentUpdatesAreKept == Spec => []UpdatesAreKept
<1>1. IndInv => UpdatesAreKept
  BY Verdicts DEF IndInv, AskedIsKept, HasAsked, UpdatesAreKept
<1> QED
  BY <1>1, IndInvHolds, PTL

\* getWorkflow: whoever has the id of a workflow finds it on any instance,
\* whatever failed, unless the snapshot expired; and the only instance that has
\* held an open workflow has it in its map, unless a reload failed.
THEOREM OpenWorkflowsAreFound == Spec => []FoundWhileOpen
<1>1. IndInv => FoundWhileOpen
  BY Verdicts DEF IndInv, TypeOK, Single, MapIsEmptyAfterVerdict, SavedOnce,
                  FoundWhileOpen
<1> QED
  BY <1>1, IndInvHolds, PTL

\* saveActiveWorkflows: of a workflow that only the instance of index.ts has
\* held, a planned restart leaves in Redis what was in memory.
THEOREM PlannedRestartsLoseNothing == Spec => []StoppedIsSaved
<1>1. IndInv => StoppedIsSaved
  BY DEF IndInv
<1> QED
  BY <1>1, IndInvHolds, PTL

\* completeWorkflow and failWorkflow: a verdict in Redis is not overwritten by
\* an open workflow, unless a reload has failed or two instances have held the
\* workflow open.
THEOREM VerdictsAreFinal == Spec => VerdictStands
<1>1. IndInv /\ [Next]_vars =>
        [HasVerdict(stored) /\ stored' # NoWorkflow /\ ~ blind /\ ~ Shared'
           => HasVerdict(stored')]_vars
  BY StepKeepsInd DEF Stands
<1> QED
  BY <1>1, IndInvHolds, PTL DEF Spec, VerdictStands
=============================================================================
