------------------------ MODULE PaymentOrchestrator ------------------------
(***************************************************************************)
(* One workflow of the payment orchestrator.  The process has an instance  *)
(* of the class in index.ts, which is initialized and stopped, and one in  *)
(* PaymentController.ts, which is neither; each has a map activeWorkflows. *)
(* Handlers of one instance share the workflow object its map holds, and   *)
(* save it to Redis when they have changed it, most of the time.  A        *)
(* handler that finds no object in the map parses the snapshot into a new  *)
(* one, and so does a restart; from then on there may be several objects   *)
(* for the workflow.  Workflows share nothing but the maps.                *)
(*                                                                         *)
(* A step ends at an await.  Commands of the one Redis connection take     *)
(* effect, or are lost, in the order they are issued; the answer comes     *)
(* later.  The queue workers that advance a workflow are not part of the   *)
(* repository: they may call the public methods in any order as soon as    *)
(* the workflow's id has been handed out.                                  *)
(***************************************************************************)
EXTENDS Integers, Sequences

CONSTANTS
  Tasks,         \* handler slots, each runs one call
  Instances,     \* the orchestrators of the process
  Service,       \* the one of index.ts
  Reloaded,      \* the object a restart creates; a call creates one at most
  None,
  Types,         \* workflow types clients may initiate
  MaxFaults,     \* bound: failed calls, crashes and failed reloads
  MaxRestarts    \* bound: planned restarts

ASSUME OrchestratorAssumption ==
  /\ Reloaded \notin Tasks
  /\ Service \in Instances
  /\ None \notin Tasks \cup {Reloaded} \cup Instances
  /\ Types \subseteq {"asset_deposit", "bitcoin_purchase", "fiat_transfer"}
  /\ MaxFaults \in Nat
  /\ MaxRestarts \in Nat

VARIABLES
  up,        \* the process: running, stopping or down
  object,    \* the workflow objects in memory, by creator
  active,    \* per instance: the object its map holds for the workflow
  stored,    \* the snapshot under workflow:<id>
  call, pc,  \* per task: the method and what it awaits
  at,        \* per task: the instance that runs it
  seen,      \* per task: the snapshot a get has read
  ok,        \* per task: whether the save it awaits will succeed
  job,       \* the step the initiation has queued a job for, 0 before
  known,     \* whether the workflow's id has been handed out
  faults, restarts,
  \* history
  asked,     \* per step: the status the last updateWorkflowStep gave it
  before,    \* per instance: the active object when the process ended, while
             \* it is down
  blind,     \* a reload has failed
  expired,   \* the snapshot has expired
  holders    \* the instances that have held the workflow without a verdict

tasks == <<call, pc, at, seen, ok>>
bounds == <<faults, restarts>>
history == <<asked, before, blind, expired, holders>>
vars == <<up, object, active, stored, tasks, job, known, bounds, history>>
-----------------------------------------------------------------------------
NoWorkflow == [type |-> "none"]

\* The four steps of a workflow by number; context tells whether the answers
\* of the other services have been entered.
NewWorkflow(type) ==
  [type |-> type, status |-> "initiated", currentStep |-> 1, context |-> FALSE,
   steps |-> <<"in_progress", "pending", "pending", "pending">>]

StepStatus == {"pending", "in_progress", "completed", "failed"}

Workflow ==
  [type : Types, status : {"initiated", "completed", "failed"},
   currentStep : 1..4, context : BOOLEAN, steps : [1..4 -> StepStatus]]

HasVerdict(w) == w # NoWorkflow /\ w.status # "initiated"
Open(w) == w # NoWorkflow /\ w.status = "initiated"

\* More than one instance has held the open workflow.
Shared == \E i, j \in holders : i # j

\* A call of a worker: updateWorkflowStep names a step and its status.
NoCall == [method |-> "none", step |-> 0, status |-> "none"]
Call(method) == [NoCall EXCEPT !.method = method]
UpdateCall(i, s) == [method |-> "update", step |-> i, status |-> s]

\* What workers call; steps 2 and 3 are the ones jobs are queued for.
WorkersCalls ==
  {Call("complete"), Call("fail")} \cup
  {UpdateCall(i, s) : i \in {2, 3}, s \in {"completed", "failed"}}

\* created, filled, updated and verdict: saves; get: the read of getWorkflow;
\* submit, balance, recipient and price: other services; job: the queue;
\* tell: the event and the notification a call ends with.
Saving == {"created", "filled", "updated", "verdict"}
Asking == {"get", "submit", "balance", "recipient", "price", "job", "tell"}
Ended == {"done", "error", "dead"}

InFlight == {t \in Tasks : pc[t] \in Saving \cup Asking}
Initiating == {t \in InFlight : call[t].method = "initiate"}

Init ==
  /\ up = "running"
  /\ object = [o \in Tasks \cup {Reloaded} |-> NoWorkflow]
  /\ active = [i \in Instances |-> None]
  /\ stored = NoWorkflow
  /\ call = [t \in Tasks |-> NoCall]
  /\ pc = [t \in Tasks |-> "idle"]
  /\ at = [t \in Tasks |-> None]
  /\ seen = [t \in Tasks |-> NoWorkflow]
  /\ ok = [t \in Tasks |-> TRUE]
  /\ job = 0
  /\ known = FALSE
  /\ faults = 0
  /\ restarts = 0
  /\ asked = [i \in 1..4 |-> "none"]
  /\ before = [i \in Instances |-> NoWorkflow]
  /\ blind = FALSE
  /\ expired = FALSE
  /\ holders = {}
-----------------------------------------------------------------------------
Goto(t, p) == pc' = [pc EXCEPT ![t] = p]

Fault == faults < MaxFaults /\ faults' = faults + 1

\* saveWorkflow: object w goes to Redis, or the command fails and may have
\* been carried out.
Issue(w) ==
  \/ stored' = w /\ UNCHANGED faults
  \/ Fault /\ stored' \in {stored, w}

\* updateWorkflow by task t: object o, changed to w, is put into the map, and
\* is saved; t awaits the answer at p.
UpdateWorkflow(t, o, w, p) ==
  /\ object' = [object EXCEPT ![o] = w]
  /\ active' = [active EXCEPT ![at'[t]] = o]
  /\ Issue(w)
  /\ ok' = [ok EXCEPT ![t] = (faults' = faults)]
  /\ Goto(t, p)

\* The task goes on to await p; nothing is saved.
Await(t, p) ==
  /\ Goto(t, p)
  /\ UNCHANGED <<object, active, stored, ok, faults>>

\* Mutant: a status the type does not know.
FailAsCancelled(t, o, w) ==
  UpdateWorkflow(t, o, [w EXCEPT !.status = "cancelled"], "verdict")

FailWorkflow(t, o, w) ==
  UpdateWorkflow(t, o, [w EXCEPT !.status = "failed"], "verdict")

CompleteWorkflow(t, o, w) ==
  UpdateWorkflow(t, o, [w EXCEPT !.status = "completed"], "verdict")
-----------------------------------------------------------------------------
(* initiateAssetDepositWorkflow, initiateBitcoinPurchaseWorkflow and       *)
(* initiateFiatTransferWorkflow.                                           *)

Initiate(t) == \E type \in Types, i \in Instances :
  /\ up = "running"
  /\ pc[t] = "idle"
  /\ \A q \in Tasks : call[q].method # "initiate"
  /\ call' = [call EXCEPT ![t] = Call("initiate")]
  /\ at' = [at EXCEPT ![t] = i]
  /\ UpdateWorkflow(t, t, NewWorkflow(type), "created")
  /\ holders' = holders \cup {i}
  /\ UNCHANGED <<up, seen, job, known, restarts, asked, before, blind, expired>>

\* Steps i to j - 1 are completed and step j is started, in memory only.
MoveTo(w, j) ==
  [w EXCEPT !.currentStep = j,
            !.steps = [i \in 1..4 |-> IF i < j THEN "completed"
                                      ELSE IF i = j THEN "in_progress"
                                      ELSE w.steps[i]]]

\* The job is queued when the call is issued; workers may act on it before it
\* is answered.
QueueJob(t, w, step) ==
  /\ object' = [object EXCEPT ![t] = w]
  /\ job' = step
  /\ known' = TRUE
  /\ Goto(t, "job")
  /\ UNCHANGED <<active, stored, ok, faults>>

\* The asset service is told the id when the asset is submitted.
Created(t) ==
  /\ pc[t] = "created" /\ ok[t]
  /\ IF object[t].type = "asset_deposit"
     THEN Await(t, "submit") /\ known' = TRUE
     ELSE Await(t, "balance") /\ UNCHANGED known
  /\ UNCHANGED <<up, call, at, seen, job, restarts, history>>

FillContext(t) ==
  UpdateWorkflow(t, t, [object[t] EXCEPT !.context = TRUE], "filled")

SubmissionAnswers(t) ==
  /\ pc[t] = "submit"
  /\ UNCHANGED <<call, at>>
  /\ FillContext(t)
  /\ UNCHANGED <<up, seen, job, known, restarts, history>>

BalanceAnswers(t) == \E enough \in BOOLEAN :
  /\ pc[t] = "balance"
  /\ UNCHANGED <<call, at>>
  /\ IF ~ enough THEN FailWorkflow(t, t, object[t])
     ELSE IF object[t].type = "fiat_transfer" THEN Await(t, "recipient")
     ELSE Await(t, "price")
  /\ UNCHANGED <<up, seen, job, known, restarts, history>>

PriceAnswers(t) ==
  /\ pc[t] = "price"
  /\ UNCHANGED <<call, at>>
  /\ FillContext(t)
  /\ UNCHANGED <<up, seen, job, known, restarts, history>>

RecipientAnswers(t) == \E exists \in BOOLEAN :
  /\ pc[t] = "recipient"
  /\ UNCHANGED <<call, at>>
  /\ IF exists
     THEN QueueJob(t, MoveTo(object[t], 3), 3)
     ELSE FailWorkflow(t, t, object[t]) /\ UNCHANGED <<job, known>>
  /\ UNCHANGED <<up, seen, restarts, history>>

Filled(t) ==
  /\ pc[t] = "filled" /\ ok[t]
  /\ QueueJob(t, IF object[t].type = "bitcoin_purchase"
                 THEN MoveTo(object[t], 2) ELSE object[t], 2)
  /\ UNCHANGED <<up, call, at, seen, restarts, history>>

JobQueued(t) ==
  /\ pc[t] = "job"
  /\ Await(t, "tell")
  /\ UNCHANGED <<up, call, at, seen, job, known, restarts, history>>
-----------------------------------------------------------------------------
(* getWorkflow, updateWorkflowStep, completeWorkflow, and failWorkflow on  *)
(* a workflow a worker has got.                                            *)

\* Mutant: the step is changed and not saved.
UpdateUnsaved(t, o, w) ==
  /\ object' = [object EXCEPT ![o] =
                  [w EXCEPT !.steps[call'[t].step] = call'[t].status]]
  /\ active' = [active EXCEPT ![at'[t]] = o]
  /\ Goto(t, "tell")
  /\ UNCHANGED <<stored, ok, faults>>

UpdateWorkflowStep(t, o, w) ==
  UpdateWorkflow(t, o, [w EXCEPT !.steps[call'[t].step] = call'[t].status],
                 "updated")

\* What the call does with object o, whose content is w.
Perform(t, o, w) ==
  \/ /\ call'[t].method = "update"
     /\ UpdateWorkflowStep(t, o, w)
     /\ asked' = [asked EXCEPT ![call'[t].step] = call'[t].status]
  \/ /\ call'[t].method = "complete"
     /\ CompleteWorkflow(t, o, w)
     /\ UNCHANGED asked
  \/ /\ call'[t].method = "fail"
     /\ FailWorkflow(t, o, w)
     /\ UNCHANGED asked

\* The snapshot as it is now is asked for.
Load(t) ==
  /\ seen' = [seen EXCEPT ![t] = stored]
  /\ holders' = IF Open(stored) THEN holders \cup {at'[t]} ELSE holders
  /\ Await(t, "get")
  /\ UNCHANGED asked

\* Mutant: the snapshot is preferred to the object in the map.
AlwaysLoad(t) == Load(t)

\* The object in the map of the instance, or else the snapshot.
GetWorkflow(t) ==
  LET o == active[at'[t]]
  IN IF o # None
     THEN Perform(t, o, object[o]) /\ UNCHANGED <<seen, holders>>
     ELSE Load(t)

WorkerCalls(t) ==
  \E c \in WorkersCalls, i \in Instances :
    /\ up \in {"running", "stopping"}
    /\ known
    /\ pc[t] = "idle"
    /\ call' = [call EXCEPT ![t] = c]
    /\ at' = [at EXCEPT ![t] = i]
    /\ GetWorkflow(t)
    /\ UNCHANGED <<up, job, known, restarts, before, blind, expired>>

\* The snapshot is parsed into an object of this task's own, which replaces
\* whatever the map holds by now.
GetAnswers(t) ==
  /\ pc[t] = "get"
  /\ UNCHANGED <<call, at>>
  /\ IF seen[t] = NoWorkflow
     THEN Await(t, "error") /\ UNCHANGED asked
     ELSE Perform(t, t, seen[t])
  /\ UNCHANGED <<up, seen, job, known, restarts, before, blind, expired, holders>>

StepSaved(t) ==
  /\ pc[t] = "updated" /\ ok[t]
  /\ Await(t, "tell")
  /\ UNCHANGED <<up, call, at, seen, job, known, restarts, history>>

\* The workflow leaves the map, whichever object it is there with.
VerdictSaved(t) ==
  /\ pc[t] = "verdict" /\ ok[t]
  /\ active' = [active EXCEPT ![at[t]] = None]
  /\ Goto(t, "tell")
  /\ UNCHANGED <<up, object, stored, call, at, seen, ok, job, known, bounds,
                 history>>

\* An initiation that has failed its workflow throws; otherwise the call returns.
Told(t) ==
  /\ pc[t] = "tell"
  /\ Await(t, IF call[t].method = "initiate" /\ job = 0 THEN "error" ELSE "done")
  /\ UNCHANGED <<up, call, at, seen, job, known, restarts, history>>
-----------------------------------------------------------------------------
(* Failed calls, the process, and time.                                    *)

\* Mutant: the workflow leaves the map although its verdict was not saved.
ForgetAnyway(t) ==
  active' = IF pc[t] = "verdict" THEN [active EXCEPT ![at[t]] = None] ELSE active

\* What a refused save changes besides ending the call.
KeepInMap(t) == active' = active

SaveFails(t) ==
  /\ pc[t] \in Saving /\ ~ ok[t]
  /\ KeepInMap(t)
  /\ Goto(t, "error")
  /\ UNCHANGED <<up, object, stored, call, at, seen, ok, job, known, bounds,
                 history>>

\* Another service, the queue or a read fails: every method throws on, or
\* finds no workflow and throws.
CallFails(t) ==
  /\ pc[t] \in Asking
  /\ Fault
  /\ Goto(t, "error")
  /\ UNCHANGED <<up, object, active, stored, call, at, seen, ok, job, known,
                 restarts, history>>

\* Mutant: a planned restart saves nothing.
StopUnsaved == UNCHANGED <<stored, faults>>

\* saveActiveWorkflows
SaveActive ==
  LET o == active[Service]
  IN IF o = None THEN UNCHANGED <<stored, faults>> ELSE Issue(object[o])

\* The server has been closed: requests have been answered.  The instance of
\* index.ts is stopped, no other; the workers go on until the process ends.
Stop ==
  /\ up = "running"
  /\ Initiating = {}
  /\ restarts < MaxRestarts
  /\ restarts' = restarts + 1
  /\ up' = "stopping"
  /\ SaveActive
  /\ UNCHANGED <<object, active, tasks, job, known, history>>

\* Memory is gone.
End ==
  /\ up' = "down"
  /\ before' = [i \in Instances |-> IF active[i] = None THEN NoWorkflow
                                   ELSE object[active[i]]]
  /\ object' = [o \in Tasks \cup {Reloaded} |-> NoWorkflow]
  /\ active' = [i \in Instances |-> None]
  /\ pc' = [t \in Tasks |-> IF t \in InFlight THEN "dead" ELSE pc[t]]
  /\ seen' = [t \in Tasks |-> NoWorkflow]
  /\ UNCHANGED <<stored, call, at, ok, job, known, restarts, asked, blind, expired,
                 holders>>

Exit == up = "stopping" /\ End /\ UNCHANGED faults
Crash == up # "down" /\ Fault /\ End

\* initialize, of the instance of index.ts: loadActiveWorkflows takes up what
\* has no verdict; its errors are logged and the service starts without.
Start ==
  /\ up = "down"
  /\ up' = "running"
  /\ \/ /\ IF Open(stored)
           THEN /\ object' = [object EXCEPT ![Reloaded] = stored]
                /\ active' = [active EXCEPT ![Service] = Reloaded]
                /\ holders' = holders \cup {Service}
           ELSE UNCHANGED <<object, active, holders>>
        /\ UNCHANGED <<faults, blind>>
     \/ /\ Fault
        /\ blind' = TRUE
        /\ UNCHANGED <<object, active, holders>>
  /\ before' = [i \in Instances |-> NoWorkflow]
  /\ UNCHANGED <<stored, tasks, job, known, restarts, asked, expired>>

\* A snapshot lives for a day after its last save; no call takes that long.
Expire ==
  /\ InFlight = {}
  /\ up = "running"
  /\ stored # NoWorkflow
  /\ stored' = NoWorkflow
  /\ expired' = TRUE
  /\ UNCHANGED <<up, object, active, tasks, job, known, bounds, asked, before,
                 blind, holders>>

Serve(t) ==
  \/ Created(t)
  \/ SubmissionAnswers(t)
  \/ BalanceAnswers(t)
  \/ PriceAnswers(t)
  \/ RecipientAnswers(t)
  \/ Filled(t)
  \/ JobQueued(t)
  \/ GetAnswers(t)
  \/ StepSaved(t)
  \/ VerdictSaved(t)
  \/ Told(t)
  \/ SaveFails(t)

\* Nothing is left to do within the bounds.
Rest ==
  /\ up = "running"
  /\ InFlight = {}
  /\ UNCHANGED vars

Next ==
  \/ \E t \in Tasks : Initiate(t) \/ WorkerCalls(t) \/ Serve(t) \/ CallFails(t)
  \/ Stop
  \/ Exit
  \/ Crash
  \/ Start
  \/ Expire
  \/ Rest

Spec == Init /\ [][Next]_vars
-----------------------------------------------------------------------------
(* Properties.                                                             *)

TypeOK ==
  /\ up \in {"running", "stopping", "down"}
  /\ object \in [Tasks \cup {Reloaded} -> Workflow \cup {NoWorkflow}]
  /\ active \in [Instances -> Tasks \cup {Reloaded, None}]
  /\ \A i \in Instances : active[i] # None => object[active[i]] # NoWorkflow
  /\ stored \in Workflow \cup {NoWorkflow}
  /\ pc \in [Tasks -> {"idle"} \cup Saving \cup Asking \cup Ended]
  /\ at \in [Tasks -> Instances \cup {None}]
  /\ seen \in [Tasks -> Workflow \cup {NoWorkflow}]
  /\ ok \in [Tasks -> BOOLEAN]
  /\ job \in 0..4
  /\ known \in BOOLEAN
  /\ faults \in 0..MaxFaults
  /\ restarts \in 0..MaxRestarts
  /\ holders \subseteq Instances

\* A verdict that has reached Redis is never overwritten by a handler that
\* still works on the workflow without it, unless two instances have held the
\* workflow open, or a failed reload has let handlers of one instance load
\* objects of their own.
VerdictStands ==
  [][HasVerdict(stored) /\ stored' # NoWorkflow /\ ~ blind /\ ~ Shared'
       => HasVerdict(stored')]_vars

\* The updates of workers that run side by side on one instance are all in the
\* snapshot, in whichever order they came and across planned restarts, as long
\* as nothing fails, the workflow has no verdict and no second instance, at a
\* restart or for a worker, has taken it up.
UpdatesAreKept ==
  faults = 0 /\ stored # NoWorkflow /\ ~ HasVerdict(stored) /\ ~ Shared =>
    \A i \in 1..4 : asked[i] # "none" => stored.steps[i] = asked[i]

\* A worker that has the id of a workflow finds it in Redis on any instance,
\* unless the snapshot expired; and a workflow without a verdict that one
\* instance has held is in its map, after failed calls, crashes and restarts,
\* unless a reload failed.
FoundWhileOpen ==
  up = "running" /\ known /\ ~ expired =>
    /\ stored # NoWorkflow
    /\ ~ blind /\ ~ Shared =>
         HasVerdict(stored) \/ \E i \in Instances : active[i] # None

\* A planned restart loses nothing of a workflow that only the instance of
\* index.ts has held: what its map holds when the process ends is what Redis
\* holds, although workers go on after it was saved.
StoppedIsSaved ==
  LET o == active[Service]
  IN up = "stopping" /\ faults = 0 /\ ~ Shared /\ o # None /\ Open(object[o])
       => stored = object[o]

\* Workflow state is persistent: a restart, planned or not, takes an open
\* workflow up where it was.
RestartsResume ==
  [][up = "down" /\ up' = "running" =>
       \A i \in Instances : Open(before[i]) =>
         /\ active'[Service] # None
         /\ object'[active'[Service]] = before[i]]_vars
=============================================================================
