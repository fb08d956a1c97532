--------------------------- MODULE WorkflowEngine ---------------------------
(***************************************************************************)
(* One instance of a workflow in the engine of shared/workflow: the object *)
(* in runningInstances, its snapshot in Redis, and the activities that     *)
(* work on it.  An activity is a chain of executeStep calls, each awaiting *)
(* the next inside its try or its catch block: a stack of frames.  A step  *)
(* is executed to the end of all its successors before its own trailing    *)
(* save, so the saves happen on the way back.  Timers, approvals,          *)
(* rejections and the monitor start further activities on the same object, *)
(* and all of them interleave at their awaits.                             *)
(*                                                                         *)
(* executionHistory is kept step by step: the order in which two           *)
(* activities push their executions is left out.                           *)
(*                                                                         *)
(* Instances share no state but the maps they are kept in.  Commands of    *)
(* the one Redis connection take effect in the order they are issued, so a *)
(* save takes effect, or is lost, when it is issued; its answer comes      *)
(* later.  makeHttpRequest is a stub that always succeeds.  Delays are     *)
(* arbitrary: a timer may fire any time after it is set, and a snapshot    *)
(* expire any time after it is saved.                                      *)
(***************************************************************************)
EXTENDS Integers, Sequences, SequencesExt

CONSTANTS
  Definitions,   \* the registered workflows, by workflowId
  None,          \* an optional field that is absent
  MaxChains,     \* bound: activities at the same time
  MaxEvents      \* bound: prompts (approvals, rejections, timeouts, monitor
                 \* checks) and faults (Redis commands that fail) together

StepType ==
  {"service_call", "condition", "parallel", "wait", "manual", "notification"}

ASSUME EngineAssumption ==
  /\ \A w \in DOMAIN Definitions :
       /\ Definitions[w].startStep \in DOMAIN Definitions[w].steps
       /\ \A s \in DOMAIN Definitions[w].steps :
            /\ Definitions[w].steps[s].type \in StepType
            /\ Definitions[w].steps[s].retryCount \in Nat
       /\ None \notin DOMAIN Definitions[w].steps
  /\ MaxChains \in Nat \ {0}
  /\ MaxEvents \in Nat

VARIABLES
  instance,   \* the IWorkflowInstance in memory, or NoInstance
  stored,     \* what Redis holds under workflow:<instanceId>
  chains,     \* the activities, each a stack of frames
  timers,     \* pending setTimeouts
  prompts,    \* approvals, rejections, timeouts and monitor checks so far
  faults,     \* failed commands so far
  \* history
  lapsed      \* the snapshot has expired since it was last saved

vars == <<instance, stored, chains, timers, prompts, faults, lapsed>>
-----------------------------------------------------------------------------
Activities == 1..MaxChains

NoInstance == [status |-> "none"]

Steps == Definitions[instance.workflowId].steps
Known(s) == s \in DOMAIN Steps     \* workflow.steps.find(...)

\* stepId and number of an execution of executeStep, and what it awaits: its handler,
\* a call inside its try block, one inside its catch block, its trailing
\* save.  completeWorkflow, failWorkflow and startWorkflow only save.
Frame(s, i, at) == [step |-> s, exec |-> i, at |-> at, ok |-> TRUE]

Timer(kind, s, i) == [kind |-> kind, step |-> s, id |-> i]
Approval(s, i, status) == [stepId |-> s, id |-> i, status |-> status]

Idle == {c \in Activities : chains[c] = <<>>}
Quiet == Idle = Activities

Init ==
  /\ instance = NoInstance
  /\ stored = NoInstance
  /\ chains = [c \in Activities |-> <<>>]
  /\ timers = {}
  /\ prompts = 0
  /\ faults = 0
  /\ lapsed = FALSE
-----------------------------------------------------------------------------
(* What a step of an activity does until it awaits again.  Each of these   *)
(* determines instance, stored, chains, timers and faults: c is the        *)
(* activity, inst the instance and tm the timers as they are by now, and   *)
(* stack the frames that wait.                                             *)

\* Frame f waits on top of the stack for the answer to a Redis command.
Issue(c, stack, f) ==
  \/ /\ chains' = [chains EXCEPT ![c] = Append(stack, f)]
     /\ UNCHANGED faults
  \/ /\ prompts' + faults < MaxEvents
     /\ faults' = faults + 1
     /\ chains' = [chains EXCEPT ![c] = Append(stack, [f EXCEPT !.ok = FALSE])]

\* setex: a command that fails may have been carried out.
Save(c, inst, stack, f, tm) ==
  /\ instance' = inst
  /\ timers' = tm
  /\ Issue(c, stack, f)
  /\ stored' \in IF faults' = faults THEN {inst} ELSE {stored, inst}
  /\ lapsed' = (lapsed /\ stored' = NoInstance)

\* Mutant: the frame that waited is never resumed.
ReturnToNobody(c, inst, stack, tm) ==
  /\ instance' = inst
  /\ timers' = tm
  /\ chains' = [chains EXCEPT ![c] = stack]
  /\ UNCHANGED <<stored, lapsed, faults>>

\* Mutant: no trailing save.
ReturnUnsaved(c, inst, stack, tm) ==
  /\ instance' = inst
  /\ timers' = tm
  /\ chains' = [chains EXCEPT ![c] = <<>>]
  /\ UNCHANGED <<stored, lapsed, faults>>

\* The call the top of the stack awaits has returned: its trailing save.
Return(c, inst, stack, tm) ==
  IF stack = <<>>
  THEN /\ instance' = inst
       /\ timers' = tm
       /\ chains' = [chains EXCEPT ![c] = <<>>]
       /\ UNCHANGED <<stored, lapsed, faults>>
  ELSE Save(c, inst, Front(stack),
            Frame(Last(stack).step, Last(stack).exec, "save"), tm)

\* Mutant: the verdict is announced and not recorded.
FinishUnrecorded(c, inst, stack, tm, status) ==
  Save(c, inst, stack, Frame(None, 0, "save"), tm)

\* completeWorkflow and failWorkflow, whatever the status was.
Finish(c, inst, stack, tm, status) ==
  Save(c, [inst EXCEPT !.status = status], stack, Frame(None, 0, "save"), tm)

\* executeStep as far as its handler's first await.  A step that is not
\* defined is logged and the call returns.  The execution identifies the
\* approval a manual step asks for and the timeouts a step sets.
ExecuteStep(c, inst, stack, tm, s) ==
  LET i == Len(inst.executionHistory[s]) + 1
      type == Steps[s].type
      frame == Frame(s, i, "handler")
  IN IF ~ Known(s)
     THEN Return(c, inst, stack, tm)
     ELSE /\ instance' = [inst EXCEPT
               !.executionHistory[s] = Append(@, "running"),
               !.currentStep = s,
               !.status = IF type \in {"wait", "manual"}
                          THEN "waiting_approval" ELSE @,
               !.approvals = IF type = "manual"
                             THEN @ \cup {Approval(s, i, "pending")} ELSE @]
          /\ timers' = IF type = "wait" THEN tm \cup {Timer("wait", s, i)} ELSE tm
          /\ IF type \in {"manual", "notification"}
             THEN Issue(c, stack, frame)
             ELSE /\ chains' = [chains EXCEPT ![c] = Append(stack, frame)]
                  /\ UNCHANGED faults
          /\ UNCHANGED <<stored, lapsed>>

\* Mutant: the execution keeps the status it had when the exception came.
CatchUnrecorded(c, inst, stack, tm) ==
  LET f == Last(stack)
      handling == Append(Front(stack), [f EXCEPT !.at = "catch"])
  IN IF Steps[f.step].onFailure # None
     THEN ExecuteStep(c, inst, handling, tm, Steps[f.step].onFailure)
     ELSE Finish(c, inst, handling, tm, "failed")

\* The catch block of the executeStep on top of the stack.  The retry count
\* it compares is that of this execution, which starts at 0, and the retry is
\* an execution of its own.
Catch(c, inst, stack, tm) ==
  LET f == Last(stack)
      failed == [inst EXCEPT !.executionHistory[f.step][f.exec] = "failed"]
      handling == Append(Front(stack), [f EXCEPT !.at = "catch"])
  IN IF Steps[f.step].retryCount > 0
     THEN Return(c, failed, handling, tm \cup {Timer("retry", f.step, f.exec)})
     ELSE IF Steps[f.step].onFailure # None
          THEN ExecuteStep(c, failed, handling, tm, Steps[f.step].onFailure)
          ELSE Finish(c, failed, handling, tm, "failed")

\* A new activity needs a free slot.
Free(c) == c \in Idle /\ \A d \in Idle : c <= d

Prompt == prompts + faults < MaxEvents /\ prompts' = prompts + 1
-----------------------------------------------------------------------------
\* holds: whether the conditions of the workflow hold in the context it is
\* started with, which no step changes.
StartWorkflow(w) ==
  /\ UNCHANGED prompts
  /\ instance = NoInstance
  /\ \E c \in Activities, holds \in BOOLEAN :
       /\ Free(c)
       /\ Save(c, [workflowId |-> w, status |-> "running",
                   currentStep |-> Definitions[w].startStep, context |-> holds,
                   executionHistory |-> [s \in DOMAIN Definitions[w].steps |-> <<>>],
                   approvals |-> {}],
               <<>>, Frame(None, 0, "start"), timers)

\* The step that follows a handler's answer.
NextStep(s) ==
  IF Steps[s].type = "condition" /\ ~ instance.context
  THEN Steps[s].onFailure
  ELSE Steps[s].onSuccess

\* The handler's promise resolves: at once for conditions and waits, with the
\* answer of the service or of Redis for the others.  A manual step has only
\* asked for the approval; its timeout is set when Redis has answered.
HandlerAnswers(c) ==
  /\ UNCHANGED prompts
  /\ chains[c] # <<>>
  /\ LET f == Last(chains[c])
         done == [instance EXCEPT !.executionHistory[f.step][f.exec] = "completed"]
         trying == Append(Front(chains[c]), [f EXCEPT !.at = "try"])
         tm == IF Steps[f.step].type = "manual"
               THEN timers \cup {Timer("approval", f.step, f.exec)}
               ELSE timers
     IN /\ f.at = "handler" /\ f.ok
        /\ IF NextStep(f.step) # None
           THEN ExecuteStep(c, done, trying, tm, NextStep(f.step))
           ELSE Finish(c, done, trying, tm, "completed")

\* Redis refused the notification of a manual or a notification step.
HandlerFails(c) ==
  /\ UNCHANGED prompts
  /\ chains[c] # <<>>
  /\ Last(chains[c]).at = "handler" /\ ~ Last(chains[c]).ok
  /\ Catch(c, instance, chains[c], timers)

\* Mutant: an answered save is issued again.
SaveForever(c) ==
  /\ UNCHANGED prompts
  /\ chains[c] # <<>>
  /\ Last(chains[c]).ok
  /\ \/ /\ Last(chains[c]).at = "save"
        /\ Return(c, instance, chains[c], timers)
     \/ /\ Last(chains[c]).at = "start"
        /\ ExecuteStep(c, instance, <<>>, timers, instance.currentStep)

\* A save is answered: the call returns to the frame that awaits it, and
\* startWorkflow goes on to execute the first step without awaiting it.
SaveAnswers(c) ==
  /\ UNCHANGED prompts
  /\ chains[c] # <<>>
  /\ Last(chains[c]).ok
  /\ \/ /\ Last(chains[c]).at = "save"
        /\ Return(c, instance, Front(chains[c]), timers)
     \/ /\ Last(chains[c]).at = "start"
        /\ ExecuteStep(c, instance, <<>>, timers, instance.currentStep)

\* A save is refused: the rejection passes every frame that waits in its
\* catch block and ends in the nearest try block, or with the activity.
SaveFails(c) ==
  /\ UNCHANGED prompts
  /\ chains[c] # <<>>
  /\ Last(chains[c]).at \in {"save", "start"} /\ ~ Last(chains[c]).ok
  /\ LET trying == {i \in DOMAIN chains[c] : chains[c][i].at = "try"}
     IN \/ /\ trying = {}
           /\ chains' = [chains EXCEPT ![c] = <<>>]
           /\ UNCHANGED <<instance, stored, lapsed, timers, faults>>
        \/ \E n \in trying :
             /\ \A i \in trying : i <= n
             /\ Catch(c, instance, SubSeq(chains[c], 1, n), timers)
-----------------------------------------------------------------------------
(* What starts further activities.                                         *)

\* approveStep runs the step that follows the manual step, which has already
\* run when the request for the approval was answered.
ApproveStep(c, a) ==
  /\ Free(c)
  /\ Prompt
  /\ a \in instance.approvals
  /\ a.status = "pending"
  /\ ExecuteStep(c,
       [instance EXCEPT
          !.approvals = (@ \ {a}) \cup {[a EXCEPT !.status = "approved"]},
          !.status = "running"],
       <<>>, timers, Steps[a.stepId].onSuccess)

RejectStep(c, a) ==
  /\ Free(c)
  /\ Prompt
  /\ a \in instance.approvals
  /\ a.status = "pending"
  /\ LET rejected == [instance EXCEPT
            !.approvals = (@ \ {a}) \cup {[a EXCEPT !.status = "rejected"]}]
     IN IF Steps[a.stepId].onFailure # None
        THEN ExecuteStep(c, rejected, <<>>, timers, Steps[a.stepId].onFailure)
        ELSE Finish(c, rejected, <<>>, timers, "failed")

\* A timeout of a manual step counts while its approval is pending, one of a
\* wait step while the instance waits for anything.
StillWaiting(t) ==
  \/ t.kind = "approval" /\ Approval(t.step, t.id, "pending") \in instance.approvals
  \/ t.kind = "wait" /\ instance.status = "waiting_approval"

Timeout(c, t) ==
  /\ Free(c)
  /\ t \in timers
  /\ t.kind \in {"wait", "approval"}
  /\ StillWaiting(t)
  /\ Prompt
  /\ IF Steps[t.step].onTimeout # None
     THEN ExecuteStep(c, instance, <<>>, timers \ {t}, Steps[t.step].onTimeout)
     ELSE Finish(c, instance, <<>>, timers \ {t}, "failed")

LateTimeout(t) ==
  /\ t \in timers
  /\ t.kind \in {"wait", "approval"}
  /\ ~ StillWaiting(t)
  /\ timers' = timers \ {t}
  /\ UNCHANGED <<instance, stored, lapsed, chains, prompts, faults>>

\* Mutant: setInterval where setTimeout is meant.
RetryEveryDelay(c, t) ==
  /\ UNCHANGED prompts
  /\ Free(c)
  /\ t \in timers
  /\ t.kind = "retry"
  /\ ExecuteStep(c, instance, <<>>, timers, t.step)

Retry(c, t) ==
  /\ UNCHANGED prompts
  /\ Free(c)
  /\ t \in timers
  /\ t.kind = "retry"
  /\ ExecuteStep(c, instance, <<>>, timers \ {t}, t.step)

\* The monitor fails whatever is older than its workflow's timeout, every
\* minute again and whatever its status: finished instances stay in the map.
Monitor(c) ==
  /\ Free(c)
  /\ Prompt
  /\ instance # NoInstance
  /\ Finish(c, instance, <<>>, timers, "failed")

\* Every save gives the snapshot 86400 seconds to live, and an instance may
\* rest for days: the timeouts of its manual and wait steps are longer.
Expire ==
  /\ stored # NoInstance
  /\ stored' = NoInstance
  /\ lapsed' = TRUE
  /\ UNCHANGED <<instance, chains, timers, prompts, faults>>

\* Nothing is under way; what may come is a prompt beyond the bound.
Waiting ==
  /\ instance # NoInstance
  /\ Quiet
  /\ \A t \in timers : t.kind # "retry"
  /\ UNCHANGED vars

Next ==
  \/ \E w \in DOMAIN Definitions : StartWorkflow(w)
  \/ \E c \in Activities :
       \/ HandlerAnswers(c) \/ HandlerFails(c) \/ SaveAnswers(c) \/ SaveFails(c)
       \/ instance # NoInstance /\ \E a \in instance.approvals :
            ApproveStep(c, a) \/ RejectStep(c, a)
       \/ \E t \in timers : Timeout(c, t) \/ Retry(c, t)
       \/ Monitor(c)
  \/ \E t \in timers : LateTimeout(t)
  \/ Expire
  \/ Waiting

Spec == Init /\ [][Next]_vars

\* Pending answers arrive.
FairSpec ==
  /\ Spec
  /\ \A c \in Activities :
       WF_vars(HandlerAnswers(c) \/ HandlerFails(c) \/ SaveAnswers(c) \/ SaveFails(c))
-----------------------------------------------------------------------------
Names == UNION {DOMAIN Definitions[w].steps : w \in DOMAIN Definitions}

Outcome == {"running", "completed", "failed"}

IsInstance(x) ==
  /\ DOMAIN x = {"workflowId", "status", "currentStep", "context",
                 "executionHistory", "approvals"}
  /\ x.workflowId \in DOMAIN Definitions
  /\ x.status \in {"running", "waiting_approval", "completed", "failed"}
  /\ x.currentStep \in DOMAIN Definitions[x.workflowId].steps
  /\ x.context \in BOOLEAN
  /\ x.executionHistory \in [DOMAIN Definitions[x.workflowId].steps -> Seq(Outcome)]
  /\ x.approvals \subseteq [stepId : Names, id : Nat,
                            status : {"pending", "approved", "rejected"}]

FrameType ==
  [step : Names \cup {None}, exec : Nat, ok : BOOLEAN,
   at : {"handler", "try", "catch", "save", "start"}]

\* Below the frame that awaits an answer, every frame awaits the one above it.
TypeOK ==
  /\ \A x \in {instance, stored} : x = NoInstance \/ IsInstance(x)
  /\ chains \in [Activities -> Seq(FrameType)]
  /\ \A c \in Activities : \A i \in DOMAIN chains[c] :
       (chains[c][i].at \in {"try", "catch"}) = (i < Len(chains[c]))
  /\ timers \subseteq
       [kind : {"retry", "wait", "approval"}, step : Names, id : Nat]
  /\ {prompts, faults, prompts + faults} \subseteq 0..MaxEvents
  /\ lapsed \in BOOLEAN

\* An execution recorded as running is one whose handler has not answered:
\* none is left behind by a failure, a rejection or a second activity.
RunningIsBeingRun ==
  instance # NoInstance =>
    \A s \in DOMAIN Steps : \A i \in DOMAIN instance.executionHistory[s] :
      (instance.executionHistory[s][i] = "running") =
      (\E c \in Activities : \E k \in DOMAIN chains[c] :
         /\ chains[c][k].step = s /\ chains[c][k].exec = i
         /\ chains[c][k].at = "handler")

\* A decision whose next step is not defined.
Stranded(a) ==
  \/ a.status = "approved" /\ ~ Known(Steps[a.stepId].onSuccess)
  \/ a.status = "rejected" /\ ~ Known(Steps[a.stepId].onFailure)

\* The snapshot has outlived its 86400 seconds since it was last saved.
Expired == stored = NoInstance /\ lapsed

\* Once all activities have ended, Redis holds the instance as it is in
\* memory, however their saves interleaved, until a day after the last save it
\* holds nothing, unless Redis refused a command or a decision ran into an
\* undefined step.  Never does it show an earlier state of the instance.
QuietMeansSaved ==
  instance # NoInstance /\ Quiet /\ faults = 0 =>
    stored = instance \/ Expired \/ \E a \in instance.approvals : Stranded(a)

Executions(s) == Len(instance.executionHistory[s])

\* A step has its effect once, and once more for every decision, timeout or
\* failed Redis command: nothing else makes the engine repeat a service call.
RerunsAreAccountedFor ==
  instance # NoInstance =>
    \A s \in DOMAIN Steps : Executions(s) <= 1 + prompts + faults

\* The steps that follow one another on success and failure never come back:
\* s has togo[w][s] steps of workflow w ahead at most.
GoesForward(togo) ==
  \A w \in DOMAIN Definitions : \A s \in DOMAIN Definitions[w].steps :
    LET steps == Definitions[w].steps
    IN /\ togo[w][s] \in Nat
       /\ \A u \in {steps[s].onSuccess, steps[s].onFailure} \cap DOMAIN steps :
            togo[w][u] < togo[w][s]

\* A workflow that comes to rest without a verdict was sent to a step nobody
\* has defined, or Redis failed: the engine drops none that is well defined.
StopsOnlyAtUndefinedSteps ==
  instance # NoInstance /\ Quiet /\ faults = 0
    /\ instance.status \in {"running", "waiting_approval"} =>
      \/ \E s \in DOMAIN Steps :
           Executions(s) > 0 /\ NextStep(s) \notin DOMAIN Steps \cup {None}
      \/ \E a \in instance.approvals : Stranded(a)

\* Every activity ends, as long as answers arrive.
ActivitiesEnd == []<>Quiet

\* The step after a manual step runs only once the approval it asks for has
\* been given.
ApprovedBeforeGoingOn ==
  instance # NoInstance =>
    \A m \in DOMAIN Steps :
      Steps[m].type = "manual" /\ Known(Steps[m].onSuccess)
        /\ Executions(Steps[m].onSuccess) > 0 =>
          \E a \in instance.approvals : a.stepId = m /\ a.status = "approved"
=============================================================================
