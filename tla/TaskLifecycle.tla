--------------------------- MODULE TaskLifecycle ---------------------------
(***************************************************************************)
(* One task under task.TaskManager (internal/task/manager.go): the         *)
(* requests that start, approve, stop, resume, replan, change, answer and  *)
(* delete it, and the goroutines they launch, runPlanner and runExecutor.  *)
(*                                                                         *)
(* A request reads tasks.status, checks it and writes it in separate       *)
(* statements, each of them unconditional, and a goroutine goes on after   *)
(* the request that launched it has been answered.  A step below is one    *)
(* statement, one critical section of tm.mu or one call to the rest of the *)
(* system.  A refused request changes nothing: it is a stuttering step.    *)
(*                                                                         *)
(* Users come in two manners.  A patient user lets one request be answered *)
(* before making the next one and waits for executions to get under way,   *)
(* or to wind up, before changing course; a hasty one does as he likes.    *)
(***************************************************************************)
EXTENDS Integers, Sequences, FiniteSets

CONSTANTS
  Users,
  Manners,         \* the manners of users to consider
  Questions,       \* ids the planner gives its questions
  Goroutines,      \* bound: the goroutines at work for the task at any time
  MaxPlans,        \* bound: rows in plans
  Faults           \* "restart": the server may restart; "statement": a statement may
                   \* fail (a client that hung up cancels those of its request)

ASSUME LifecycleAssumption ==
  /\ Manners \subseteq {"patient", "hasty"}
  /\ IsFiniteSet(Users) /\ IsFiniteSet(Goroutines)
  /\ MaxPlans \in Nat \ {0}
  /\ Faults \subseteq {"restart", "statement"}

VARIABLES
  manner,      \* the manner of all users; never changes
  status,      \* tasks.status, or "deleted"
  plans,       \* plans.status of the task's rows, in order of insertion
  question,    \* planner_questions.status, by id
  request,     \* per user: the request being served
  job, at,     \* per goroutine: what it is, and how far it has come
  chosen,      \* per goroutine: the row of the plan it has made or works on
  cancelled,   \* executors whose context is cancelled
  cancels,     \* TaskManager.cancels[task]: the executor registered, if any
  disturbed    \* history: a restart, a failed statement or a repeated question id

taskVars == <<status, plans, question>>
goVars == <<job, at, chosen>>
ctxVars == <<cancelled, cancels>>
vars == <<manner, taskVars, request, goVars, ctxVars, disturbed>>

Executors == {w \in Goroutines : job[w] = "executor"}
Planners == {w \in Goroutines : job[w] = "planner"}

TaskStatuses ==
  {"created", "planning", "planned", "approved", "running", "paused", "completed", "failed"}

validTransitions ==
  [s \in TaskStatuses \cup {"deleted"} |->
     CASE s = "created"  -> {"planning"}
       [] s = "planning" -> {"planned", "failed"}
       [] s = "planned"  -> {"approved"}
       [] s = "approved" -> {"running"}
       [] s = "running"  -> {"paused", "completed", "failed"}
       [] s = "paused"   -> {"running"}
       [] s = "failed"   -> {"planning"}
       [] OTHER -> {}]

\* As if an approval could be skipped.
CanTransitionUnapproved(from, to) ==
  to \in validTransitions[from] \/ (from = "planned" /\ to = "running")

canTransition(from, to) == to \in validTransitions[from]

\* A statement that names a task that was deleted changes no row.
SetStatus(s) == status' = IF status = "deleted" THEN status ELSE s

\* The row GetPlanByTask returns: it asks for no order, and the index on task_id
\* yields the rows in order of insertion.
GetPlanByTask == 1

Idle == [op |-> "none", step |-> "none"]
At(u, op, step) == request[u] = [op |-> op, step |-> step]
Advance(u, step) == request' = [request EXCEPT ![u].step = step]
Respond(u) == request' = [request EXCEPT ![u] = Idle]

Launch(w, kind) ==
  /\ job[w] = "none"
  /\ job' = [job EXCEPT ![w] = kind]
  /\ at' = [at EXCEPT ![w] = IF kind = "planner" THEN "planning" ELSE "launched"]
  /\ UNCHANGED chosen

Move(w, from, to) ==
  /\ at[w] = from
  /\ at' = [at EXCEPT ![w] = to]
  /\ UNCHANGED job

Return(w, from) ==
  /\ at[w] = from
  /\ at' = [at EXCEPT ![w] = "over"]
  /\ job' = [job EXCEPT ![w] = "none"]
  /\ chosen' = [chosen EXCEPT ![w] = 0]
------------------------------------------------------------------------------
Init ==
  /\ manner \in Manners
  /\ status = "created"
  /\ plans = <<>>
  /\ question = [q \in Questions |-> "none"]
  /\ request = [u \in Users |-> Idle]
  /\ job = [w \in Goroutines |-> "none"]
  /\ at = [w \in Goroutines |-> "over"]
  /\ chosen = [w \in Goroutines |-> 0]
  /\ cancelled = {}
  /\ cancels = {}
  /\ disturbed = FALSE

(***************************************************************************)
(* Requests                                                                *)
(***************************************************************************)

\* Requests that launch a goroutine, as long as the bound leaves one for them.
Launching == {"start", "approve", "resume", "replan", "answer"}
RoomFor(op) ==
  op \in Launching =>
    Cardinality(Executors \cup Planners) + Cardinality({u \in Users : request[u].op \in Launching})
      < Cardinality(Goroutines)

Settled(op) ==
  /\ \A u \in Users : request[u] = Idle
  /\ \A w \in Executors : op \in {"stop", "delete"} /\ at[w] # "launched"
  /\ op = "answer" => Planners = {}

Makes(u, op) ==
  /\ request[u] = Idle
  /\ RoomFor(op)
  /\ manner = "patient" => Settled(op)

Check(u, op, allowed) ==
  /\ Makes(u, op)
  /\ allowed
  /\ request' = [request EXCEPT ![u] = [op |-> op, step |-> "checked"]]
  /\ UNCHANGED <<manner, taskVars, goVars, ctxVars, disturbed>>

CheckStart(u) == Check(u, "start", canTransition(status, "planning"))
CheckReplan(u) == Check(u, "replan", status \in {"planned", "failed"})
CheckApprove(u) == Check(u, "approve", canTransition(status, "approved"))
CheckStop(u) == Check(u, "stop", canTransition(status, "paused"))
CheckResume(u) == Check(u, "resume", canTransition(status, "running"))
CheckUpdatePlan(u) == Check(u, "update", status = "planned")
CheckDelete(u) == Check(u, "delete", status # "deleted")

\* Start and Replan: write the status, `go tm.runPlanner'.  UpdateTaskStatus
\* reports a task that is gone.
StartPlanner(u) ==
  /\ At(u, "start", "checked") \/ At(u, "replan", "checked")
  /\ SetStatus("planning")
  /\ IF status = "deleted" THEN UNCHANGED goVars
     ELSE \E w \in Goroutines : Launch(w, "planner")
  /\ Respond(u)
  /\ UNCHANGED <<manner, plans, question, ctxVars, disturbed>>

\* Approve: the plan's row, changed or not, then the status twice.
ApprovePlan(u) ==
  /\ At(u, "approve", "checked")
  /\ IF plans = <<>>
     THEN Respond(u) /\ UNCHANGED plans
     ELSE Advance(u, "marked") /\ plans' = [plans EXCEPT ![GetPlanByTask] = "approved"]
  /\ UNCHANGED <<manner, status, question, goVars, ctxVars, disturbed>>

ApproveTask(u) ==
  /\ At(u, "approve", "marked")
  /\ SetStatus("approved")
  /\ IF status = "deleted" THEN Respond(u) ELSE Advance(u, "approved")
  /\ UNCHANGED <<manner, plans, question, goVars, ctxVars, disturbed>>

\* The end of Approve and of Resume: UpdateTaskStarted, `go tm.runExecutor'.
StartExecutor(u) ==
  /\ At(u, "approve", "approved") \/ At(u, "resume", "checked")
  /\ SetStatus("running")
  /\ \E w \in Goroutines : Launch(w, "executor")
  /\ Respond(u)
  /\ UNCHANGED <<manner, plans, question, ctxVars, disturbed>>

\* As if Stop only terminated the agents.
CancelExecutionNot(u) ==
  /\ At(u, "stop", "checked") \/ At(u, "delete", "checked")
  /\ Advance(u, "cancelled")
  /\ UNCHANGED <<manner, taskVars, goVars, ctxVars, disturbed>>

\* Stop saves a checkpoint and terminates the agents, whatever fails, and then
\* calls the cancel function it finds; Delete also forgets it.
CancelExecution(u) ==
  /\ At(u, "stop", "checked") \/ At(u, "delete", "checked")
  /\ cancelled' = cancelled \cup cancels
  /\ cancels' = IF request[u].op = "delete" THEN {} ELSE cancels
  /\ Advance(u, "cancelled")
  /\ UNCHANGED <<manner, taskVars, goVars, disturbed>>

PauseTask(u) ==
  /\ At(u, "stop", "cancelled")
  /\ SetStatus("paused")
  /\ Respond(u)
  /\ UNCHANGED <<manner, plans, question, goVars, ctxVars, disturbed>>

\* The rows of the task's plans and questions go with it, if SQLite enforces the
\* foreign keys, which depends on how it reads the option given to it.
DeleteTask(u) ==
  /\ At(u, "delete", "cancelled")
  /\ status' = "deleted"
  /\ \/ plans' = <<>> /\ question' = [q \in Questions |-> "none"]
     \/ UNCHANGED <<plans, question>>
  /\ Respond(u)
  /\ UNCHANGED <<manner, goVars, ctxVars, disturbed>>

\* PUT .../plan, the other handler that changes a plan (a change of its strategy
\* alone, which leaves plans.status as it is, is taken for a modification too).
UpdatePlan(u) ==
  /\ At(u, "update", "checked")
  /\ plans' = IF plans = <<>> THEN plans ELSE [plans EXCEPT ![GetPlanByTask] = "modified"]
  /\ Respond(u)
  /\ UNCHANGED <<manner, status, question, goVars, ctxVars, disturbed>>

\* AnswerQuestion looks at no status, neither of the task nor of the question, nor
\* whether there is such a question; a patient user answers a question once.
AnswerQuestion(u, q) ==
  /\ Makes(u, "answer")
  /\ question[q] = "pending" \/ manner = "hasty"
  /\ question' = [question EXCEPT ![q] = IF @ = "none" THEN @ ELSE "answered"]
  /\ request' = [request EXCEPT ![u] = [op |-> "answer", step |-> "answered"]]
  /\ UNCHANGED <<manner, status, plans, goVars, ctxVars, disturbed>>

Pending == {q \in Questions : question[q] = "pending"}

PlanWithAnswers(u) ==
  /\ At(u, "answer", "answered")
  /\ IF Pending = {} THEN \E w \in Goroutines : Launch(w, "planner") ELSE UNCHANGED goVars
  /\ Respond(u)
  /\ UNCHANGED <<manner, taskVars, ctxVars, disturbed>>

\* A statement of the request fails, or its client hangs up.  Nothing that fails
\* keeps Stop and Delete from the cancellation.
Abort(u) ==
  /\ "statement" \in Faults
  /\ request[u] # Idle
  /\ ~ At(u, "stop", "checked") /\ ~ At(u, "delete", "checked")
  /\ Respond(u)
  /\ disturbed' = TRUE
  /\ UNCHANGED <<manner, taskVars, goVars, ctxVars>>

(***************************************************************************)
(* runPlanner, on the background context                                   *)
(***************************************************************************)
\* The task is gone, and nothing needs to be said about it.
PlannerFindsNoTask(w) ==
  /\ status = "deleted"
  /\ Return(w, "planning")
  /\ UNCHANGED <<manner, taskVars, request, ctxVars, disturbed>>

\* As if an error were only logged.
PlannerFailsSilently(w) ==
  /\ Return(w, "planning")
  /\ UNCHANGED <<manner, taskVars, request, ctxVars, disturbed>>

\* The workspace, the planner's container, its output or its plan is no good.
PlannerFails(w) ==
  /\ Move(w, "planning", "failing")
  /\ UNCHANGED <<manner, taskVars, request, chosen, ctxVars, disturbed>>

\* The questions are stored one by one.  The id of one asked earlier is refused as
\* a duplicate, which is only logged.
AskQuestion(w, q) ==
  /\ at[w] \in {"planning", "asking"}
  /\ at' = [at EXCEPT ![w] = "asking"]
  /\ question' = [question EXCEPT ![q] = IF @ = "none" THEN "pending" ELSE @]
  /\ disturbed' = (disturbed \/ question[q] # "none")
  /\ UNCHANGED <<manner, status, plans, request, job, chosen, ctxVars>>

\* The task stays in "planning" until the questions are answered.
LeaveQuestions(w) ==
  /\ Return(w, "asking")
  /\ UNCHANGED <<manner, taskVars, request, ctxVars, disturbed>>

PersistPlan(w) ==
  /\ Len(plans) < MaxPlans
  /\ Move(w, "planning", "persisted")
  /\ plans' = Append(plans, "draft")
  /\ chosen' = [chosen EXCEPT ![w] = Len(plans')]
  /\ UNCHANGED <<manner, status, question, request, ctxVars, disturbed>>

UpdatePlanStatus(w) ==
  /\ Move(w, "persisted", "marked")
  /\ plans' = IF chosen[w] \in DOMAIN plans THEN [plans EXCEPT ![chosen[w]] = "planned"] ELSE plans
  /\ UNCHANGED <<manner, status, question, request, chosen, ctxVars, disturbed>>

FinishPlanning(w) ==
  /\ Return(w, "marked")
  /\ \/ SetStatus("planned") /\ UNCHANGED disturbed
     \/ "statement" \in Faults /\ disturbed' = TRUE /\ UNCHANGED status
  /\ UNCHANGED <<manner, plans, question, request, ctxVars>>

(***************************************************************************)
(* runExecutor, on a context of its own                                    *)
(***************************************************************************)
Register(w) ==
  /\ Move(w, "launched", "registered")
  /\ cancels' = {w}
  /\ UNCHANGED <<manner, taskVars, request, chosen, cancelled, disturbed>>

\* The task is gone, or a cancelled context makes the query fail.
ExecutorFindsNoTask(w) ==
  /\ status = "deleted" \/ w \in cancelled \/ "statement" \in Faults
  /\ Move(w, "registered", "leaving")
  /\ disturbed' = (disturbed \/ (status # "deleted" /\ w \notin cancelled))
  /\ UNCHANGED <<manner, taskVars, request, chosen, ctxVars>>

\* The workspace cannot be prepared, or there is no plan.
ExecutorFails(w) ==
  /\ Move(w, "registered", "failing")
  /\ UNCHANGED <<manner, taskVars, request, chosen, ctxVars, disturbed>>

ReadPlan(w) ==
  /\ Move(w, "registered", "executing")
  /\ w \notin cancelled
  /\ plans # <<>>
  /\ chosen' = [chosen EXCEPT ![w] = GetPlanByTask]
  /\ UNCHANGED <<manner, taskVars, request, ctxVars, disturbed>>

\* The orchestrator or the sequential executor returns.
FinishExecution(w) ==
  /\ \/ w \in cancelled /\ Move(w, "executing", "leaving")
     \/ w \notin cancelled /\ \E next \in {"completing", "failing"} : Move(w, "executing", next)
  /\ UNCHANGED <<manner, taskVars, request, chosen, ctxVars, disturbed>>

\* As if the last statements were made on the background context.
WritesAlways(w) == TRUE

\* The statement is made on the context of the executor.
Writes(w) == w \notin cancelled

\* The end of a successful execution, after the commit and push.
CompleteTask(w) ==
  /\ Move(w, "completing", "leaving")
  /\ \/ Writes(w) /\ SetStatus("completed") /\ UNCHANGED disturbed
     \/ ~ Writes(w) /\ UNCHANGED <<status, disturbed>>
     \/ "statement" \in Faults /\ disturbed' = TRUE /\ UNCHANGED status
  /\ UNCHANGED <<manner, plans, question, request, chosen, ctxVars>>

\* failTask, of either goroutine.
FailTask(w) ==
  /\ IF job[w] = "executor" THEN Move(w, "failing", "leaving") /\ UNCHANGED chosen
     ELSE Return(w, "failing")
  /\ \/ Writes(w) /\ SetStatus("failed") /\ UNCHANGED disturbed
     \/ ~ Writes(w) /\ UNCHANGED <<status, disturbed>>
     \/ "statement" \in Faults /\ disturbed' = TRUE /\ UNCHANGED status
  /\ UNCHANGED <<manner, plans, question, request, ctxVars>>

\* As if the deferred function left the map alone.
LeaveEntryBehind(w) ==
  /\ Return(w, "leaving")
  /\ cancelled' = cancelled \ {w}
  /\ UNCHANGED <<manner, taskVars, request, cancels, disturbed>>

\* The deferred function, whose deletion takes whatever entry is there.
Leave(w) ==
  /\ Return(w, "leaving")
  /\ cancelled' = cancelled \ {w}
  /\ cancels' = {}
  /\ UNCHANGED <<manner, taskVars, request, disturbed>>

(***************************************************************************)
(* The server restarts: what is in memory is gone, what is stored stays,   *)
(* and runServer looks at no task.                                         *)
(***************************************************************************)
Restart ==
  /\ "restart" \in Faults
  /\ request' = [u \in Users |-> Idle]
  /\ job' = [w \in Goroutines |-> "none"]
  /\ at' = [w \in Goroutines |-> "over"]
  /\ chosen' = [w \in Goroutines |-> 0]
  /\ cancelled' = {}
  /\ cancels' = {}
  /\ disturbed' = TRUE
  /\ UNCHANGED <<manner, taskVars>>
------------------------------------------------------------------------------
RequestStep(u) ==
  \/ StartPlanner(u) \/ ApprovePlan(u) \/ ApproveTask(u) \/ StartExecutor(u)
  \/ CancelExecution(u) \/ PauseTask(u) \/ DeleteTask(u) \/ UpdatePlan(u)
  \/ PlanWithAnswers(u)

NewRequest(u) ==
  \/ CheckStart(u) \/ CheckReplan(u) \/ CheckApprove(u) \/ CheckStop(u)
  \/ CheckResume(u) \/ CheckUpdatePlan(u) \/ CheckDelete(u)
  \/ \E q \in Questions : AnswerQuestion(u, q)

PlannerStep(w) ==
  \/ PlannerFindsNoTask(w) \/ PlannerFails(w) \/ LeaveQuestions(w) \/ PersistPlan(w)
  \/ UpdatePlanStatus(w) \/ FinishPlanning(w)
  \/ \E q \in Questions : AskQuestion(w, q)

ExecutorStep(w) ==
  \/ Register(w) \/ ExecutorFindsNoTask(w) \/ ExecutorFails(w) \/ ReadPlan(w)
  \/ FinishExecution(w) \/ CompleteTask(w) \/ Leave(w)

Next ==
  \/ \E u \in Users : NewRequest(u) \/ RequestStep(u) \/ Abort(u)
  \/ \E w \in Goroutines : PlannerStep(w) \/ ExecutorStep(w) \/ FailTask(w)
  \/ Restart

Spec == Init /\ [][Next]_vars
------------------------------------------------------------------------------
PlannerSteps == {"planning", "asking", "persisted", "marked", "failing"}
ExecutorSteps == {"launched", "registered", "executing", "completing", "failing", "leaving"}

RequestStates ==
  {Idle}
    \cup [op : {"start", "replan", "approve", "stop", "resume", "update", "delete"},
          step : {"checked"}]
    \cup [op : {"approve"}, step : {"marked", "approved"}]
    \cup [op : {"stop", "delete"}, step : {"cancelled"}]
    \cup [op : {"answer"}, step : {"answered"}]

TypeOK ==
  /\ manner \in Manners
  /\ status \in TaskStatuses \cup {"deleted"}
  /\ plans \in Seq({"draft", "planned", "approved", "modified"})
  /\ question \in [Questions -> {"none", "pending", "answered"}]
  /\ request \in [Users -> RequestStates]
  /\ job \in [Goroutines -> {"none", "planner", "executor"}]
  /\ at \in [Goroutines -> PlannerSteps \cup ExecutorSteps \cup {"over"}]
  /\ chosen \in [Goroutines -> Nat]
  /\ cancelled \subseteq Executors
  /\ cancels \subseteq Executors
  /\ disturbed \in BOOLEAN

(***************************************************************************)
(* Properties                                                              *)
(***************************************************************************)

\* "planned --> approved : user approves", "approved --> running"
\* (README.md:209-210): whatever failed, was stopped, replanned or restarted, an
\* execution works on a plan in the form in which the user approved it.
WorksOnApprovedPlan ==
  manner = "patient" =>
    \A w \in Executors :
      at[w] \in {"executing", "completing"} /\ w \notin cancelled =>
        chosen[w] \in DOMAIN plans /\ plans[chosen[w]] = "approved"

Quiet == Executors \subseteq cancelled

\* "Stop pauses a running task" (manager.go:196), and a deleted task is gone: a
\* patient user who has stopped or deleted a task has stopped its execution,
\* however close to its end it was.
PausedIsQuiet == manner = "patient" /\ status \in {"paused", "deleted"} => Quiet

\* A task in "planning" or "running" is being worked on, or waits for an answer
\* of the user, or for a request in progress: it is never left there by
\* requests and goroutines that overtake one another, be the users as hasty as
\* they like, unless the server restarted, a statement failed, or the planner
\* asked under an id it had used before (planner.go:354-356, manager.go:919).
NobodyForgotten ==
  ~ disturbed =>
    /\ status = "planning" =>
         \/ Planners # {}
         \/ Pending # {}
         \/ \E u \in Users : request[u].op = "answer"
    /\ status = "running" =>
         \/ ~ Quiet
         \/ \E u \in Users : request[u].step = "cancelled"

\* The status of a task of patient users moves as validTransitions says, whatever
\* fails on the way, but for a replan of a planned task, a deletion, and a Stop
\* that read "running" just before the execution ended (manager.go:283).
FollowsTransitions ==
  [][manner = "patient" /\ status' # status =>
       \/ canTransition(status, status')
       \/ status = "planned" /\ status' = "planning"
       \/ status \in {"completed", "failed"} /\ status' = "paused"
       \/ status' = "deleted"]_vars

(***************************************************************************)
(* Why they hold: an inductive invariant.                                  *)
(***************************************************************************)
JobsMatchSteps ==
  \A w \in Goroutines :
    at[w] \in CASE job[w] = "planner"  -> PlannerSteps
                [] job[w] = "executor" -> ExecutorSteps
                [] OTHER -> {"over"}

\* Patience: one request, one execution and one planner at a time.
OneAtATime ==
  manner = "patient" =>
    /\ \A u, v \in Users : request[u] # Idle /\ request[v] # Idle => u = v
    /\ \A w, x \in Executors : w = x
    /\ \A w, x \in Planners : w = x

\* What a request has read is still so, but for Stop and Delete, who may be
\* overtaken by the execution they are about to cancel.
ReadsAreFresh ==
  manner = "patient" =>
    \A u \in Users :
      /\ request[u].op = "start" => status \in {"created", "failed"}
      /\ request[u].op = "replan" => status \in {"planned", "failed"}
      /\ request[u].op = "approve" =>
           status = IF request[u].step = "approved" THEN "approved" ELSE "planned"
      /\ request[u].op = "resume" => status \in {"approved", "paused"}
      /\ request[u].op = "update" => status = "planned"
      /\ request[u].op = "stop" => status \in {"running", "completed", "failed"}
      /\ request[u].op = "answer" => Planners = {}
      /\ request[u].op \notin {"none", "stop", "delete"} => Executors = {}
      /\ request[u].op \in {"stop", "delete"} => \A w \in Executors : at[w] # "launched"
      /\ request[u].step = "cancelled" => Quiet

\* Until it leaves, an execution that was not cancelled is registered, and keeps
\* the task running.
ExecutionIsKnown ==
  manner = "patient" =>
    \A w \in Executors :
      w \notin cancelled =>
        /\ at[w] # "launched" => cancels = {w}
        /\ at[w] # "leaving" => status = "running"
        /\ at[w] \in {"executing", "completing"} => chosen[w] = GetPlanByTask

PlanningIsMarked ==
  manner = "patient" /\
    (Planners # {} \/ Pending # {} \/ \E u \in Users : request[u].op = "answer")
    => status \in {"planning", "deleted"}

\* A planner that may still produce a plan has no question open.
QuestionsComeLast ==
  manner = "patient" => \A w \in Planners : at[w] # "asking" => Pending = {}

ApprovalStays ==
  manner = "patient" /\
    (\/ status \in {"approved", "running", "paused", "completed"}
     \/ \E u \in Users : request[u].op = "stop" \/ request[u].step \in {"marked", "approved"})
    => plans # <<>> /\ plans[GetPlanByTask] = "approved"

\* Somebody who is not about to leave still has to move the task on.
WorkGoesOn ==
  ~ disturbed =>
    /\ status = "planning" =>
         \/ \E w \in Planners : at[w] # "asking"
         \/ Pending # {}
         \/ \E u \in Users : request[u].op = "answer"
    /\ status = "running" =>
         \/ \E w \in Executors \ cancelled : at[w] # "leaving"
         \/ \E u \in Users : request[u].step = "cancelled"

LifecycleInv ==
  /\ TypeOK /\ JobsMatchSteps /\ OneAtATime /\ ReadsAreFresh /\ ExecutionIsKnown
  /\ PlanningIsMarked /\ QuestionsComeLast /\ ApprovalStays /\ PausedIsQuiet /\ WorkGoesOn

\* "Stop pauses a running task, saving a checkpoint before stopping containers"
\* (manager.go:196), for all users.  It does not hold (README, section 5): Stop may
\* look for the cancel function before runExecutor has registered it, or after the
\* deferred function of an earlier execution has deleted it.
PausedIsQuietForAll ==
  status = "paused" => \A w \in Executors : at[w] = "executing" => w \in cancelled

\* "Replan regenerates the plan for a task" (manager.go:375).  It does not hold
\* (README, section 5): what is approved and executed is the plan generated first.
ReplanCounts ==
  status = "running" => \A w \in Executors : at[w] = "executing" => chosen[w] = Len(plans)
==============================================================================
