------------------------ MODULE TaskLifecycleProofs ------------------------
(***************************************************************************)
(* Proofs about TaskLifecycle, for every set of users, questions and       *)
(* goroutines, every bound and every combination of faults.  They rest on  *)
(* one inductive invariant, LifecycleInv, which the run checks too.        *)
(***************************************************************************)
EXTENDS TaskLifecycle, TLAPS

-----------------------------------------------------------------------------
(***************************************************************************)
(* What the steps of goroutines do to them.                                *)
(***************************************************************************)
GoTypes ==
  /\ job \in [Goroutines -> {"none", "planner", "executor"}]
  /\ at \in [Goroutines -> PlannerSteps \cup ExecutorSteps \cup {"over"}]
  /\ chosen \in [Goroutines -> Nat]
  /\ JobsMatchSteps

LEMMA LaunchEffect ==
  ASSUME GoTypes, NEW w \in Goroutines, NEW kind \in {"planner", "executor"}, Launch(w, kind)
  PROVE  /\ GoTypes'
         /\ w \notin Executors \cup Planners
         /\ Executors' = IF kind = "executor" THEN Executors \cup {w} ELSE Executors
         /\ Planners' = IF kind = "planner" THEN Planners \cup {w} ELSE Planners
         /\ at'[w] = IF kind = "planner" THEN "planning" ELSE "launched"
         /\ \A x \in Goroutines : x # w => at'[x] = at[x]
         /\ chosen' = chosen
  BY DEF Launch, GoTypes, JobsMatchSteps, Executors, Planners, PlannerSteps, ExecutorSteps

LEMMA MoveEffect ==
  ASSUME GoTypes, NEW w \in Goroutines, NEW from, NEW to, Move(w, from, to),
         \/ from \in PlannerSteps \ {"failing"} /\ to \in PlannerSteps
         \/ from \in ExecutorSteps \ {"failing"} /\ to \in ExecutorSteps
         \/ job[w] = "executor" /\ to \in ExecutorSteps
  PROVE  /\ job' \in [Goroutines -> {"none", "planner", "executor"}]
         /\ at' \in [Goroutines -> PlannerSteps \cup ExecutorSteps \cup {"over"}]
         /\ JobsMatchSteps'
         /\ Executors' = Executors /\ Planners' = Planners
         /\ at[w] = from /\ at'[w] = to
         /\ \A x \in Goroutines : x # w => at'[x] = at[x]
  BY DEF Move, GoTypes, JobsMatchSteps, Executors, Planners, PlannerSteps, ExecutorSteps

LEMMA ReturnEffect ==
  ASSUME GoTypes, NEW w \in Goroutines, NEW from, Return(w, from)
  PROVE  /\ GoTypes'
         /\ Executors' = Executors \ {w} /\ Planners' = Planners \ {w}
         /\ at[w] = from /\ at'[w] = "over"
         /\ \A x \in Goroutines : x # w => at'[x] = at[x] /\ chosen'[x] = chosen[x]
  BY DEF Return, GoTypes, JobsMatchSteps, Executors, Planners, PlannerSteps, ExecutorSteps

\* What the step of a goroutine tells of its kind.
LEMMA Kinds ==
  ASSUME GoTypes, NEW w \in Goroutines
  PROVE  /\ at[w] \in PlannerSteps \ {"failing"} => w \in Planners
         /\ at[w] \in ExecutorSteps \ {"failing"} => w \in Executors
         /\ at[w] = "failing" => w \in Planners \cup Executors
         /\ Planners \cap Executors = {}
  BY DEF GoTypes, JobsMatchSteps, Executors, Planners, PlannerSteps, ExecutorSteps

LEMMA RowUpdate ==
  ASSUME NEW S, NEW p \in Seq(S), NEW i, NEW v \in S
  PROVE  /\ [p EXCEPT ![i] = v] \in Seq(S)
         /\ Len([p EXCEPT ![i] = v]) = Len(p)
         /\ DOMAIN [p EXCEPT ![i] = v] = 1 .. Len(p)
<1> DEFINE r == [p EXCEPT ![i] = v]
<1>1. Len(p) \in Nat /\ p \in [1 .. Len(p) -> S]
  OBVIOUS
<1>2. r \in [1 .. Len(p) -> S]
  BY <1>1
<1>3. r \in Seq(S)
  BY <1>1, <1>2
<1> QED
  BY <1>1, <1>2, <1>3

PlanStatuses == {"draft", "planned", "approved", "modified"}

\* Whatever a step does to the rows of plans, they stay rows of plans.
LEMMA RowTypes ==
  ASSUME plans \in Seq(PlanStatuses),
         \/ plans' = plans \/ plans' = <<>> \/ plans' = Append(plans, "draft")
         \/ \E i \in Nat, v \in PlanStatuses : plans' = [plans EXCEPT ![i] = v]
  PROVE  plans' \in Seq(PlanStatuses)
<1>1. CASE plans' = plans \/ plans' = <<>>
  <2>1. <<>> \in Seq(PlanStatuses)
    OBVIOUS
  <2> QED
    BY <1>1, <2>1
<1>2. CASE plans' = Append(plans, "draft")
  BY <1>2 DEF PlanStatuses
<1>3. CASE \E i \in Nat, v \in PlanStatuses : plans' = [plans EXCEPT ![i] = v]
  <2>1. PICK i \in Nat, v \in PlanStatuses : plans' = [plans EXCEPT ![i] = v]
    BY <1>3
  <2>2. [plans EXCEPT ![i] = v] \in Seq(PlanStatuses)
    BY RowUpdate
  <2> QED
    BY <2>1, <2>2
<1> QED
  BY <1>1, <1>2, <1>3

\* Types, and a step of its own kind for every goroutine.
LEMMA TypeStep == LifecycleInv /\ Next => (TypeOK /\ JobsMatchSteps)'
<1> SUFFICES ASSUME LifecycleInv, Next
             PROVE  (TypeOK /\ JobsMatchSteps)'
  OBVIOUS
<1> USE DEF LifecycleInv, TypeOK, JobsMatchSteps, Executors, Planners, PlannerSteps,
            ExecutorSteps, taskVars, goVars, ctxVars, RequestStates, Idle, At, Advance,
            Respond, Launch, Move, Return, Check, Makes, Settled, SetStatus, TaskStatuses,
            GetPlanByTask, Pending, Quiet, canTransition, validTransitions, Writes
<1>1. ASSUME NEW u \in Users, StartPlanner(u) PROVE (TypeOK /\ JobsMatchSteps)'
  <2>1. CASE UNCHANGED goVars
    BY <1>1, <2>1 DEF StartPlanner
  <2>2. CASE \E w \in Goroutines : Launch(w, "planner")
    <3>1. PICK w \in Goroutines : Launch(w, "planner")
      BY <2>2
    <3>2. GoTypes' /\ Executors' = Executors
      BY <3>1, LaunchEffect DEF GoTypes
    <3> HIDE DEF Executors, Launch
    <3> QED
      BY <1>1, <3>2 DEF StartPlanner, GoTypes
  <2> QED
    BY <1>1, <2>1, <2>2 DEF StartPlanner
<1>2. ASSUME NEW u \in Users, ApprovePlan(u) PROVE (TypeOK /\ JobsMatchSteps)'
  <2>1. plans' \in Seq({"draft", "planned", "approved", "modified"})
    BY <1>2, RowTypes DEF ApprovePlan, PlanStatuses
  <2> QED
    BY <1>2, <2>1 DEF ApprovePlan
<1>3. ASSUME NEW u \in Users, ApproveTask(u) PROVE (TypeOK /\ JobsMatchSteps)'
  <2>1. request[u] = [op |-> "approve", step |-> "marked"] /\ request \in [Users -> RequestStates]
    BY <1>3 DEF ApproveTask
  <2>2. CASE Respond(u)
    BY <1>3, <2>2 DEF ApproveTask
  <2>3. CASE Advance(u, "approved")
    <3>1. [request[u] EXCEPT !.step = "approved"] = [op |-> "approve", step |-> "approved"]
      BY <2>1
    <3>2. request' \in [Users -> RequestStates]
      BY <2>1, <2>3, <3>1
    <3> QED
      BY <1>3, <3>2 DEF ApproveTask
  <2> QED
    BY <1>3, <2>2, <2>3 DEF ApproveTask
<1>4. ASSUME NEW u \in Users, StartExecutor(u) PROVE (TypeOK /\ JobsMatchSteps)'
  BY <1>4 DEF StartExecutor
<1>5. ASSUME NEW u \in Users, CancelExecution(u) PROVE (TypeOK /\ JobsMatchSteps)'
  BY <1>5 DEF CancelExecution
<1>6. ASSUME NEW u \in Users, PauseTask(u) PROVE (TypeOK /\ JobsMatchSteps)'
  BY <1>6 DEF PauseTask
<1>7. ASSUME NEW u \in Users, DeleteTask(u) PROVE (TypeOK /\ JobsMatchSteps)'
  <2>1. request' \in [Users -> RequestStates]
    BY <1>7 DEF DeleteTask
  <2>2. plans' \in Seq({"draft", "planned", "approved", "modified"})
    BY <1>7, RowTypes DEF DeleteTask, PlanStatuses
  <2>3. question' \in [Questions -> {"none", "pending", "answered"}]
    BY <1>7 DEF DeleteTask
  <2> QED
    BY <1>7, <2>1, <2>2, <2>3 DEF DeleteTask
<1>8. ASSUME NEW u \in Users, UpdatePlan(u) PROVE (TypeOK /\ JobsMatchSteps)'
  <2>1. plans' \in Seq({"draft", "planned", "approved", "modified"})
    BY <1>8, RowTypes DEF UpdatePlan, PlanStatuses
  <2>2. request' \in [Users -> RequestStates]
    BY <1>8 DEF UpdatePlan
  <2> QED
    BY <1>8, <2>1, <2>2 DEF UpdatePlan
<1>9. ASSUME NEW u \in Users, PlanWithAnswers(u) PROVE (TypeOK /\ JobsMatchSteps)'
  <2>1. CASE UNCHANGED goVars
    BY <1>9, <2>1 DEF PlanWithAnswers
  <2>2. CASE \E w \in Goroutines : Launch(w, "planner")
    <3>1. PICK w \in Goroutines : Launch(w, "planner")
      BY <2>2
    <3>2. GoTypes' /\ Executors' = Executors
      BY <3>1, LaunchEffect DEF GoTypes
    <3> HIDE DEF Executors, Launch
    <3> QED
      BY <1>9, <3>2 DEF PlanWithAnswers, GoTypes
  <2> QED
    BY <1>9, <2>1, <2>2 DEF PlanWithAnswers
<1>10. ASSUME NEW u \in Users, Abort(u) PROVE (TypeOK /\ JobsMatchSteps)'
  BY <1>10 DEF Abort
<1>11. ASSUME NEW u \in Users, CheckStart(u) PROVE (TypeOK /\ JobsMatchSteps)'
  BY <1>11 DEF CheckStart
<1>12. ASSUME NEW u \in Users, CheckReplan(u) PROVE (TypeOK /\ JobsMatchSteps)'
  BY <1>12 DEF CheckReplan
<1>13. ASSUME NEW u \in Users, CheckApprove(u) PROVE (TypeOK /\ JobsMatchSteps)'
  BY <1>13 DEF CheckApprove
<1>14. ASSUME NEW u \in Users, CheckStop(u) PROVE (TypeOK /\ JobsMatchSteps)'
  BY <1>14 DEF CheckStop
<1>15. ASSUME NEW u \in Users, CheckResume(u) PROVE (TypeOK /\ JobsMatchSteps)'
  BY <1>15 DEF CheckResume
<1>16. ASSUME NEW u \in Users, CheckUpdatePlan(u) PROVE (TypeOK /\ JobsMatchSteps)'
  BY <1>16 DEF CheckUpdatePlan
<1>17. ASSUME NEW u \in Users, CheckDelete(u) PROVE (TypeOK /\ JobsMatchSteps)'
  BY <1>17 DEF CheckDelete
<1>18. ASSUME NEW w \in Goroutines, PlannerFindsNoTask(w) PROVE (TypeOK /\ JobsMatchSteps)'
  BY <1>18 DEF PlannerFindsNoTask
<1>19. ASSUME NEW w \in Goroutines, PlannerFails(w) PROVE (TypeOK /\ JobsMatchSteps)'
  BY <1>19 DEF PlannerFails
<1>20. ASSUME NEW w \in Goroutines, LeaveQuestions(w) PROVE (TypeOK /\ JobsMatchSteps)'
  BY <1>20 DEF LeaveQuestions
<1>21. ASSUME NEW w \in Goroutines, PersistPlan(w) PROVE (TypeOK /\ JobsMatchSteps)'
  <2>1. plans' \in Seq({"draft", "planned", "approved", "modified"})
    BY <1>21 DEF PersistPlan
  <2>2. chosen' \in [Goroutines -> Nat]
    BY <1>21, <2>1 DEF PersistPlan
  <2>3. /\ JobsMatchSteps' /\ Executors' = Executors
        /\ at' \in [Goroutines -> PlannerSteps \cup ExecutorSteps \cup {"over"}]
    BY <1>21, MoveEffect DEF PersistPlan, GoTypes
  <2> HIDE DEF Executors, Move
  <2> QED
    BY <1>21, <2>1, <2>2, <2>3 DEF PersistPlan, Move
<1>22. ASSUME NEW w \in Goroutines, UpdatePlanStatus(w) PROVE (TypeOK /\ JobsMatchSteps)'
  <2>1. plans' \in Seq({"draft", "planned", "approved", "modified"})
    BY <1>22, RowTypes DEF UpdatePlanStatus, PlanStatuses
  <2>2. /\ JobsMatchSteps' /\ Executors' = Executors
        /\ at' \in [Goroutines -> PlannerSteps \cup ExecutorSteps \cup {"over"}]
    BY <1>22, MoveEffect DEF UpdatePlanStatus, GoTypes
  <2> HIDE DEF Executors, Move
  <2> QED
    BY <1>22, <2>1, <2>2 DEF UpdatePlanStatus, Move
<1>23. ASSUME NEW w \in Goroutines, FinishPlanning(w) PROVE (TypeOK /\ JobsMatchSteps)'
  BY <1>23 DEF FinishPlanning
<1>24. ASSUME NEW w \in Goroutines, Register(w) PROVE (TypeOK /\ JobsMatchSteps)'
  BY <1>24 DEF Register
<1>25. ASSUME NEW w \in Goroutines, ExecutorFindsNoTask(w) PROVE (TypeOK /\ JobsMatchSteps)'
  BY <1>25 DEF ExecutorFindsNoTask
<1>26. ASSUME NEW w \in Goroutines, ExecutorFails(w) PROVE (TypeOK /\ JobsMatchSteps)'
  BY <1>26 DEF ExecutorFails
<1>27. ASSUME NEW w \in Goroutines, ReadPlan(w) PROVE (TypeOK /\ JobsMatchSteps)'
  BY <1>27 DEF ReadPlan
<1>28. ASSUME NEW w \in Goroutines, FinishExecution(w) PROVE (TypeOK /\ JobsMatchSteps)'
  <2>1. PICK next \in {"completing", "failing", "leaving"} : Move(w, "executing", next)
    BY <1>28 DEF FinishExecution
  <2>2. /\ JobsMatchSteps' /\ Executors' = Executors
        /\ at' \in [Goroutines -> PlannerSteps \cup ExecutorSteps \cup {"over"}]
    BY <2>1, MoveEffect DEF GoTypes
  <2> HIDE DEF Executors
  <2> QED
    BY <1>28, <2>1, <2>2 DEF FinishExecution
<1>29. ASSUME NEW w \in Goroutines, CompleteTask(w) PROVE (TypeOK /\ JobsMatchSteps)'
  BY <1>29 DEF CompleteTask
<1>30. ASSUME NEW w \in Goroutines, Leave(w) PROVE (TypeOK /\ JobsMatchSteps)'
  BY <1>30 DEF Leave
<1>31. ASSUME NEW w \in Goroutines, FailTask(w) PROVE (TypeOK /\ JobsMatchSteps)'
  <2>1. status' \in TaskStatuses \cup {"deleted"}
    BY <1>31 DEF FailTask
  <2>2. CASE job[w] = "executor"
    <3>1. Move(w, "failing", "leaving") /\ UNCHANGED chosen
      BY <1>31, <2>2 DEF FailTask
    <3>2. GoTypes' /\ Executors' = Executors
      BY <2>2, <3>1, MoveEffect DEF GoTypes
    <3> HIDE DEF Executors
    <3> QED
      BY <1>31, <2>1, <3>2 DEF FailTask, GoTypes
  <2>3. CASE job[w] # "executor"
    <3>1. Return(w, "failing")
      BY <1>31, <2>3 DEF FailTask
    <3>2. GoTypes' /\ Executors' = Executors
      BY <2>3, <3>1, ReturnEffect DEF GoTypes
    <3> HIDE DEF Executors
    <3> QED
      BY <1>31, <2>1, <3>2 DEF FailTask, GoTypes
  <2> QED
    BY <2>2, <2>3
<1>32. ASSUME NEW w \in Goroutines, NEW q \in Questions, AskQuestion(w, q)
      PROVE  (TypeOK /\ JobsMatchSteps)'
  BY <1>32 DEF AskQuestion
<1>33. ASSUME NEW u \in Users, NEW q \in Questions, AnswerQuestion(u, q)
      PROVE  (TypeOK /\ JobsMatchSteps)'
  BY <1>33 DEF AnswerQuestion
<1>34. CASE Restart
  BY <1>34 DEF Restart
<1> QED
  BY <1>1, <1>2, <1>3, <1>4, <1>5, <1>6, <1>7, <1>8, <1>9, <1>10, <1>11, <1>12, <1>13,
     <1>14, <1>15, <1>16, <1>17, <1>18, <1>19, <1>20, <1>21, <1>22, <1>23, <1>24, <1>25,
     <1>26, <1>27, <1>28, <1>29, <1>30, <1>31, <1>32, <1>33, <1>34
  DEF Next, NewRequest, RequestStep, PlannerStep, ExecutorStep

\* A request that launches a goroutine has read that there is none of its kind.
LEMMA OneAtATimeStep == LifecycleInv /\ Next => OneAtATime'
<1> SUFFICES ASSUME LifecycleInv, Next
             PROVE  OneAtATime'
  OBVIOUS
<1> USE DEF LifecycleInv, TypeOK, JobsMatchSteps, Executors, Planners, PlannerSteps,
            ExecutorSteps, taskVars, goVars, ctxVars, RequestStates, Idle, At, Advance,
            Respond, Launch, Move, Return, Check, Makes, Settled, SetStatus, TaskStatuses,
            GetPlanByTask, Pending, Quiet, canTransition, validTransitions, Writes,
            OneAtATime, ReadsAreFresh, PlanningIsMarked
<1>1. CASE UNCHANGED <<manner, request, job>>
  BY <1>1
<1>2. ASSUME NEW w \in Goroutines,
             PlannerFails(w) \/ PersistPlan(w) \/ UpdatePlanStatus(w) \/ Register(w)
             \/ ExecutorFindsNoTask(w) \/ ExecutorFails(w) \/ ReadPlan(w)
             \/ FinishExecution(w) \/ CompleteTask(w)
      PROVE  UNCHANGED <<manner, request, job>>
  BY <1>2 DEF PlannerFails, PersistPlan, UpdatePlanStatus, Register, ExecutorFindsNoTask,
     ExecutorFails, ReadPlan, FinishExecution, CompleteTask
<1>3. ASSUME NEW w \in Goroutines, NEW q \in Questions, AskQuestion(w, q)
      PROVE  UNCHANGED <<manner, request, job>>
  BY <1>3 DEF AskQuestion
<1>4. ASSUME NEW u \in Users, NEW allowed,
             NEW op \in {"start", "replan", "approve", "stop", "resume", "update", "delete"},
             Check(u, op, allowed)
      PROVE  OneAtATime'
  BY <1>4
<1>5. ASSUME NEW u \in Users, StartPlanner(u) PROVE OneAtATime'
  <2> SUFFICES ASSUME manner = "patient"
               PROVE  OneAtATime'
    BY <1>5 DEF StartPlanner
  <2>1. \A x, y \in Users : request'[x] # Idle /\ request'[y] # Idle => x = y
    <3>1. \A x \in Users : request[x] # Idle => x = u
      BY <1>5 DEF StartPlanner
    <3>2. \A x \in Users : x # u => request'[x] = request[x]
      BY <1>5 DEF StartPlanner
    <3>3. request'[u] = Idle
      BY <1>5 DEF StartPlanner
    <3> QED
      BY <3>1, <3>2, <3>3, Zenon
  <2>2. Planners = {}
    BY <1>5 DEF StartPlanner
  <2>3. CASE UNCHANGED goVars
    BY <2>1, <2>3
  <2>4. CASE \E w \in Goroutines : Launch(w, "planner")
    <3>1. PICK w \in Goroutines : Launch(w, "planner")
      BY <2>4
    <3>2. Executors' = Executors /\ Planners' = {w}
      BY <2>2, <3>1, LaunchEffect DEF GoTypes
    <3> HIDE DEF Executors, Planners
    <3> QED
      BY <2>1, <3>2
  <2> QED
    BY <1>5, <2>3, <2>4 DEF StartPlanner
<1>6. ASSUME NEW u \in Users, ApprovePlan(u) PROVE OneAtATime'
  BY <1>6 DEF ApprovePlan
<1>7. ASSUME NEW u \in Users, ApproveTask(u) PROVE OneAtATime'
  BY <1>7 DEF ApproveTask
<1>8. ASSUME NEW u \in Users, StartExecutor(u) PROVE OneAtATime'
  <2> SUFFICES ASSUME manner = "patient"
               PROVE  OneAtATime'
    BY <1>8 DEF StartExecutor
  <2>1. \A x, y \in Users : request'[x] # Idle /\ request'[y] # Idle => x = y
    <3>1. \A x \in Users : request[x] # Idle => x = u
      <4>1. request[u] # Idle
        BY <1>8 DEF StartExecutor
      <4>2. \A x, y \in Users : request[x] # Idle /\ request[y] # Idle => x = y
        OBVIOUS
      <4> QED
        BY <4>1, <4>2, Zenon
    <3>2. \A x \in Users : x # u => request'[x] = request[x]
      BY <1>8 DEF StartExecutor
    <3>3. request'[u] = Idle
      BY <1>8 DEF StartExecutor
    <3> QED
      BY <3>1, <3>2, <3>3, Zenon
  <2>2. Executors = {}
    <3>1. At(u, "approve", "approved") \/ At(u, "resume", "checked")
      BY <1>8 DEF StartExecutor
    <3>2. request[u].op \notin {"none", "stop", "delete"}
      BY <3>1
    <3> HIDE DEF TypeOK, JobsMatchSteps, Executors
    <3> QED
      BY <3>2
  <2>3. PICK w \in Goroutines : Launch(w, "executor")
    BY <1>8 DEF StartExecutor
  <2>4. Planners' = Planners /\ Executors' = {w}
    BY <2>2, <2>3, LaunchEffect DEF GoTypes
  <2> HIDE DEF Executors, Planners
  <2> QED
    BY <2>1, <2>4
<1>9. ASSUME NEW u \in Users, CancelExecution(u) PROVE OneAtATime'
  BY <1>9 DEF CancelExecution
<1>10. ASSUME NEW u \in Users, PauseTask(u) PROVE OneAtATime'
  BY <1>10 DEF PauseTask
<1>11. ASSUME NEW u \in Users, DeleteTask(u) PROVE OneAtATime'
  BY <1>11 DEF DeleteTask
<1>12. ASSUME NEW u \in Users, UpdatePlan(u) PROVE OneAtATime'
  BY <1>12 DEF UpdatePlan
<1>13. ASSUME NEW u \in Users, PlanWithAnswers(u) PROVE OneAtATime'
  <2> SUFFICES ASSUME manner = "patient"
               PROVE  OneAtATime'
    BY <1>13 DEF PlanWithAnswers
  <2>1. \A x, y \in Users : request'[x] # Idle /\ request'[y] # Idle => x = y
    BY <1>13 DEF PlanWithAnswers

  <2>2. Planners = {}
    BY <1>13 DEF PlanWithAnswers
  <2>3. CASE UNCHANGED goVars
    BY <2>1, <2>3
  <2>4. CASE \E w \in Goroutines : Launch(w, "planner")
    <3>1. PICK w \in Goroutines : Launch(w, "planner")
      BY <2>4
    <3>2. Executors' = Executors /\ Planners' = {w}
      BY <2>2, <3>1, LaunchEffect DEF GoTypes
    <3> HIDE DEF Executors, Planners
    <3> QED
      BY <2>1, <3>2
  <2> QED
    BY <1>13, <2>3, <2>4 DEF PlanWithAnswers
<1>14. ASSUME NEW u \in Users, Abort(u) PROVE OneAtATime'
  BY <1>14 DEF Abort
<1>15. ASSUME NEW w \in Goroutines, PlannerFindsNoTask(w) PROVE OneAtATime'
  BY <1>15 DEF PlannerFindsNoTask
<1>16. ASSUME NEW w \in Goroutines, LeaveQuestions(w) PROVE OneAtATime'
  BY <1>16 DEF LeaveQuestions
<1>17. ASSUME NEW w \in Goroutines, FinishPlanning(w) PROVE OneAtATime'
  BY <1>17 DEF FinishPlanning
<1>18. ASSUME NEW w \in Goroutines, Leave(w) PROVE OneAtATime'
  BY <1>18 DEF Leave
<1>19. ASSUME NEW w \in Goroutines, FailTask(w) PROVE OneAtATime'
  <2>1. Executors' \subseteq Executors /\ Planners' \subseteq Planners
    <3>1. CASE job[w] = "executor"
      BY <1>19, <3>1 DEF FailTask
    <3>2. CASE job[w] # "executor"
      <4>1. Return(w, "failing")
        BY <1>19, <3>2 DEF FailTask
      <4> QED
        BY <4>1, ReturnEffect DEF GoTypes
    <3> QED
      BY <3>1, <3>2
  <2>2. UNCHANGED <<request, manner>>
    BY <1>19 DEF FailTask
  <2> HIDE DEF Executors, Planners
  <2> QED
    BY <2>1, <2>2
<1>20. ASSUME NEW u \in Users, NEW q \in Questions, AnswerQuestion(u, q) PROVE OneAtATime'
  BY <1>20 DEF AnswerQuestion
<1>21. CASE Restart
  BY <1>21 DEF Restart
<1>22. ASSUME NEW u \in Users,
                  CheckStart(u) \/ CheckReplan(u) \/ CheckApprove(u) \/ CheckStop(u)
               \/ CheckResume(u) \/ CheckUpdatePlan(u) \/ CheckDelete(u)
      PROVE  OneAtATime'
  BY <1>4, <1>22 DEF CheckStart, CheckReplan, CheckApprove, CheckStop, CheckResume,
     CheckUpdatePlan, CheckDelete
<1> QED
  BY <1>1, <1>2, <1>3, <1>4, <1>5, <1>6, <1>7, <1>8, <1>9, <1>10, <1>11, <1>12, <1>13,
     <1>14, <1>15, <1>16, <1>17, <1>18, <1>19, <1>20, <1>21, <1>22
  DEF Next, NewRequest, RequestStep, PlannerStep, ExecutorStep

\* Nothing moves the status while a patient user's request is on its way, but an
\* execution that ends before it is cancelled.
LEMMA ReadsAreFreshStep == LifecycleInv /\ Next => ReadsAreFresh'
<1> SUFFICES ASSUME LifecycleInv, Next
             PROVE  ReadsAreFresh'
  OBVIOUS
<1> USE DEF LifecycleInv, TypeOK, JobsMatchSteps, Executors, Planners, PlannerSteps,
            ExecutorSteps, taskVars, goVars, ctxVars, RequestStates, Idle, At, Advance,
            Respond, Launch, Move, Return, Check, Makes, Settled, SetStatus, TaskStatuses,
            GetPlanByTask, Pending, Quiet, canTransition, validTransitions, Writes,
            ReadsAreFresh, OneAtATime, PlanningIsMarked, ExecutionIsKnown
<1>1. ASSUME NEW u \in Users, StartPlanner(u) PROVE ReadsAreFresh'
  BY <1>1 DEF StartPlanner
<1>2. ASSUME NEW u \in Users, ApprovePlan(u) PROVE ReadsAreFresh'
  BY <1>2 DEF ApprovePlan
<1>3. ASSUME NEW u \in Users, ApproveTask(u) PROVE ReadsAreFresh'
  BY <1>3 DEF ApproveTask
<1>4. ASSUME NEW u \in Users, StartExecutor(u) PROVE ReadsAreFresh'
  BY <1>4 DEF StartExecutor
<1>5. ASSUME NEW u \in Users, CancelExecution(u) PROVE ReadsAreFresh'
  BY <1>5 DEF CancelExecution
<1>6. ASSUME NEW u \in Users, PauseTask(u) PROVE ReadsAreFresh'
  BY <1>6 DEF PauseTask
<1>7. ASSUME NEW u \in Users, DeleteTask(u) PROVE ReadsAreFresh'
  BY <1>7 DEF DeleteTask
<1>8. ASSUME NEW u \in Users, UpdatePlan(u) PROVE ReadsAreFresh'
  BY <1>8 DEF UpdatePlan
<1>9. ASSUME NEW u \in Users, PlanWithAnswers(u) PROVE ReadsAreFresh'
  BY <1>9 DEF PlanWithAnswers
<1>10. ASSUME NEW u \in Users, Abort(u) PROVE ReadsAreFresh'
  BY <1>10 DEF Abort
<1>11. ASSUME NEW u \in Users, CheckStart(u) PROVE ReadsAreFresh'
  BY <1>11 DEF CheckStart
<1>12. ASSUME NEW u \in Users, CheckReplan(u) PROVE ReadsAreFresh'
  BY <1>12 DEF CheckReplan
<1>13. ASSUME NEW u \in Users, CheckApprove(u) PROVE ReadsAreFresh'
  BY <1>13 DEF CheckApprove
<1>14. ASSUME NEW u \in Users, CheckStop(u) PROVE ReadsAreFresh'
  BY <1>14 DEF CheckStop
<1>15. ASSUME NEW u \in Users, CheckResume(u) PROVE ReadsAreFresh'
  BY <1>15 DEF CheckResume
<1>16. ASSUME NEW u \in Users, CheckUpdatePlan(u) PROVE ReadsAreFresh'
  BY <1>16 DEF CheckUpdatePlan
<1>17. ASSUME NEW u \in Users, CheckDelete(u) PROVE ReadsAreFresh'
  BY <1>17 DEF CheckDelete
<1>18. ASSUME NEW w \in Goroutines, PlannerFindsNoTask(w) PROVE ReadsAreFresh'
  BY <1>18 DEF PlannerFindsNoTask
<1>19. ASSUME NEW w \in Goroutines, PlannerFails(w) PROVE ReadsAreFresh'
  BY <1>19 DEF PlannerFails
<1>20. ASSUME NEW w \in Goroutines, LeaveQuestions(w) PROVE ReadsAreFresh'
  BY <1>20 DEF LeaveQuestions
<1>21. ASSUME NEW w \in Goroutines, PersistPlan(w) PROVE ReadsAreFresh'
  BY <1>21 DEF PersistPlan
<1>22. ASSUME NEW w \in Goroutines, UpdatePlanStatus(w) PROVE ReadsAreFresh'
  BY <1>22 DEF UpdatePlanStatus
<1>23. ASSUME NEW w \in Goroutines, FinishPlanning(w) PROVE ReadsAreFresh'
  <2> SUFFICES ASSUME manner = "patient"
               PROVE  ReadsAreFresh'
    BY <1>23 DEF FinishPlanning
  <2>1. /\ w \in Planners /\ Planners' \subseteq Planners /\ Executors' = Executors
        /\ \A x \in Executors : at'[x] = at[x]
    BY <1>23, ReturnEffect, Kinds DEF FinishPlanning, GoTypes
  <2>2. status \in {"planning", "deleted"}
    BY <2>1 DEF PlanningIsMarked
  <2>3. \A u \in Users : request[u].op \in {"none", "stop", "delete"}
    BY <2>1, <2>2
  <2>4. \A u \in Users : request[u].op # "stop"
    BY <2>2
  <2>5. UNCHANGED <<request, cancelled>>
    BY <1>23 DEF FinishPlanning
  <2> HIDE DEF Executors, Planners
  <2> QED
    BY <2>1, <2>3, <2>4, <2>5
<1>24. ASSUME NEW w \in Goroutines, Register(w) PROVE ReadsAreFresh'
  BY <1>24 DEF Register
<1>25. ASSUME NEW w \in Goroutines, ExecutorFindsNoTask(w) PROVE ReadsAreFresh'
  BY <1>25 DEF ExecutorFindsNoTask
<1>26. ASSUME NEW w \in Goroutines, ExecutorFails(w) PROVE ReadsAreFresh'
  BY <1>26 DEF ExecutorFails
<1>27. ASSUME NEW w \in Goroutines, ReadPlan(w) PROVE ReadsAreFresh'
  BY <1>27 DEF ReadPlan
<1>28. ASSUME NEW w \in Goroutines, FinishExecution(w) PROVE ReadsAreFresh'
  BY <1>28 DEF FinishExecution
<1>29. ASSUME NEW w \in Goroutines, CompleteTask(w) PROVE ReadsAreFresh'
  BY <1>29 DEF CompleteTask
<1>30. ASSUME NEW w \in Goroutines, Leave(w) PROVE ReadsAreFresh'
  BY <1>30 DEF Leave
<1>31. ASSUME NEW w \in Goroutines, FailTask(w) PROVE ReadsAreFresh'
  BY <1>31 DEF FailTask
<1>32. ASSUME NEW w \in Goroutines, NEW q \in Questions, AskQuestion(w, q)
      PROVE  ReadsAreFresh'
  BY <1>32 DEF AskQuestion
<1>33. ASSUME NEW u \in Users, NEW q \in Questions, AnswerQuestion(u, q)
      PROVE  ReadsAreFresh'
  BY <1>33 DEF AnswerQuestion
<1>34. CASE Restart
  BY <1>34 DEF Restart
<1> QED
  BY <1>1, <1>2, <1>3, <1>4, <1>5, <1>6, <1>7, <1>8, <1>9, <1>10, <1>11, <1>12, <1>13,
     <1>14, <1>15, <1>16, <1>17, <1>18, <1>19, <1>20, <1>21, <1>22, <1>23, <1>24, <1>25,
     <1>26, <1>27, <1>28, <1>29, <1>30, <1>31, <1>32, <1>33, <1>34
  DEF Next, NewRequest, RequestStep, PlannerStep, ExecutorStep

\* With one execution at a time, the entry of cancels is its own.
LEMMA ExecutionIsKnownStep == LifecycleInv /\ Next => ExecutionIsKnown'
<1> SUFFICES ASSUME LifecycleInv, Next
             PROVE  ExecutionIsKnown'
  OBVIOUS
<1> USE DEF LifecycleInv, TypeOK, JobsMatchSteps, Executors, Planners, PlannerSteps,
            ExecutorSteps, taskVars, goVars, ctxVars, RequestStates, Idle, At, Advance,
            Respond, Launch, Move, Return, Check, Makes, Settled, SetStatus, TaskStatuses,
            GetPlanByTask, Pending, Quiet, canTransition, validTransitions, Writes,
            ExecutionIsKnown, OneAtATime, ReadsAreFresh, PlanningIsMarked
<1>1. CASE UNCHANGED <<manner, job, at, chosen, cancelled, cancels, status>>
  BY <1>1
<1>2. ASSUME NEW u \in Users,
             ApprovePlan(u) \/ UpdatePlan(u) \/ Abort(u) \/ CheckStart(u) \/ CheckReplan(u)
             \/ CheckApprove(u) \/ CheckStop(u) \/ CheckResume(u) \/ CheckUpdatePlan(u)
             \/ CheckDelete(u)
      PROVE  UNCHANGED <<manner, job, at, chosen, cancelled, cancels, status>>
  BY <1>2 DEF ApprovePlan, UpdatePlan, Abort, CheckStart, CheckReplan, CheckApprove,
     CheckStop, CheckResume, CheckUpdatePlan, CheckDelete
<1>3. ASSUME NEW u \in Users, NEW q \in Questions, AnswerQuestion(u, q)
      PROVE  UNCHANGED <<manner, job, at, chosen, cancelled, cancels, status>>
  BY <1>3 DEF AnswerQuestion
<1>4. ASSUME NEW u \in Users, StartPlanner(u) PROVE ExecutionIsKnown'
  BY <1>4 DEF StartPlanner
<1>5. ASSUME NEW u \in Users, ApproveTask(u) PROVE ExecutionIsKnown'
  BY <1>5 DEF ApproveTask
<1>6. ASSUME NEW u \in Users, StartExecutor(u) PROVE ExecutionIsKnown'
  BY <1>6 DEF StartExecutor
<1>7. ASSUME NEW u \in Users, CancelExecution(u) PROVE ExecutionIsKnown'
  BY <1>7 DEF CancelExecution
<1>8. ASSUME NEW u \in Users, PauseTask(u) PROVE ExecutionIsKnown'
  <2>1. request[u].step = "cancelled"
    BY <1>8 DEF PauseTask
  <2>2. manner = "patient" => Quiet
    BY <2>1 DEF ReadsAreFresh
  <2> QED
    BY <1>8, <2>2 DEF PauseTask
<1>9. ASSUME NEW u \in Users, DeleteTask(u) PROVE ExecutionIsKnown'
  BY <1>9 DEF DeleteTask
<1>10. ASSUME NEW u \in Users, PlanWithAnswers(u) PROVE ExecutionIsKnown'
  BY <1>10 DEF PlanWithAnswers
<1>11. ASSUME NEW w \in Goroutines, PlannerFindsNoTask(w) PROVE ExecutionIsKnown'
  BY <1>11 DEF PlannerFindsNoTask
<1>12. ASSUME NEW w \in Goroutines, PlannerFails(w) PROVE ExecutionIsKnown'
  BY <1>12 DEF PlannerFails
<1>13. ASSUME NEW w \in Goroutines, LeaveQuestions(w) PROVE ExecutionIsKnown'
  BY <1>13 DEF LeaveQuestions
<1>14. ASSUME NEW w \in Goroutines, PersistPlan(w) PROVE ExecutionIsKnown'
  BY <1>14 DEF PersistPlan
<1>15. ASSUME NEW w \in Goroutines, UpdatePlanStatus(w) PROVE ExecutionIsKnown'
  BY <1>15 DEF UpdatePlanStatus
<1>16. ASSUME NEW w \in Goroutines, FinishPlanning(w) PROVE ExecutionIsKnown'
  <2> SUFFICES ASSUME manner = "patient"
               PROVE  ExecutionIsKnown'
    BY <1>16 DEF FinishPlanning
  <2>1. /\ w \in Planners /\ w \notin Executors /\ Executors' = Executors
        /\ \A x \in Executors : at'[x] = at[x] /\ chosen'[x] = chosen[x]
    BY <1>16, ReturnEffect, Kinds DEF FinishPlanning, GoTypes
  <2>2. status # "running"
    BY <2>1 DEF PlanningIsMarked
  <2>3. \A x \in Executors : x \notin cancelled => at[x] = "leaving"
    BY <2>2
  <2>4. UNCHANGED <<cancelled, cancels>>
    BY <1>16 DEF FinishPlanning
  <2> HIDE DEF Executors, Planners
  <2> QED
    BY <2>1, <2>3, <2>4
<1>17. ASSUME NEW w \in Goroutines, Register(w) PROVE ExecutionIsKnown'
  <2> SUFFICES ASSUME manner = "patient"
               PROVE  ExecutionIsKnown'
    BY <1>17 DEF Register
  <2>1. /\ w \in Executors /\ Executors' = Executors
        /\ at[w] = "launched" /\ at'[w] = "registered"
    BY <1>17, MoveEffect, Kinds DEF Register, GoTypes
  <2>2. \A x \in Executors : x = w
    BY <2>1 DEF OneAtATime
  <2>3. UNCHANGED <<cancelled, status>> /\ cancels' = {w}
    BY <1>17 DEF Register
  <2>4. w \notin cancelled => status = "running"
    BY <2>1
  <2> HIDE DEF Executors, Planners
  <2> QED
    BY <2>1, <2>2, <2>3, <2>4
<1>18. ASSUME NEW w \in Goroutines, ExecutorFindsNoTask(w) PROVE ExecutionIsKnown'
  BY <1>18 DEF ExecutorFindsNoTask
<1>19. ASSUME NEW w \in Goroutines, ExecutorFails(w) PROVE ExecutionIsKnown'
  BY <1>19 DEF ExecutorFails
<1>20. ASSUME NEW w \in Goroutines, ReadPlan(w) PROVE ExecutionIsKnown'
  BY <1>20 DEF ReadPlan
<1>21. ASSUME NEW w \in Goroutines, FinishExecution(w) PROVE ExecutionIsKnown'
  BY <1>21 DEF FinishExecution
<1>22. ASSUME NEW w \in Goroutines, CompleteTask(w) PROVE ExecutionIsKnown'
  <2> SUFFICES ASSUME manner = "patient"
               PROVE  ExecutionIsKnown'
    BY <1>22 DEF CompleteTask
  <2>1. /\ w \in Executors /\ Executors' = Executors
        /\ at[w] = "completing" /\ at'[w] = "leaving"
    BY <1>22, MoveEffect, Kinds DEF CompleteTask, GoTypes
  <2>2. \A x \in Executors : x = w
    BY <2>1 DEF OneAtATime
  <2>3. UNCHANGED ctxVars
    BY <1>22 DEF CompleteTask
  <2>4. w \notin cancelled => cancels = {w}
    BY <2>1
  <2> HIDE DEF Executors, Planners
  <2> QED
    BY <2>1, <2>2, <2>3, <2>4
<1>23. ASSUME NEW w \in Goroutines, Leave(w) PROVE ExecutionIsKnown'
  <2> SUFFICES ASSUME manner = "patient"
               PROVE  ExecutionIsKnown'
    BY <1>23 DEF Leave
  <2>1. w \in Executors /\ Executors' = Executors \ {w}
    BY <1>23, ReturnEffect, Kinds DEF Leave, GoTypes
  <2>2. \A x \in Executors : x = w
    BY <2>1 DEF OneAtATime
  <2> HIDE DEF Executors, Planners
  <2> QED
    BY <2>1, <2>2
<1>24. ASSUME NEW w \in Goroutines, FailTask(w) PROVE ExecutionIsKnown'
  <2> SUFFICES ASSUME manner = "patient"
               PROVE  ExecutionIsKnown'
    BY <1>24 DEF FailTask
  <2>0. UNCHANGED ctxVars
    BY <1>24 DEF FailTask
  <2>1. CASE job[w] = "executor"
    <3>1. /\ w \in Executors /\ Executors' = Executors
          /\ at[w] = "failing" /\ at'[w] = "leaving"
      BY <1>24, <2>1, MoveEffect DEF FailTask, GoTypes
    <3>2. \A x \in Executors : x = w
      BY <3>1 DEF OneAtATime
    <3>3. w \notin cancelled => cancels = {w}
      BY <3>1
    <3> HIDE DEF Executors, Planners
    <3> QED
      BY <2>0, <3>1, <3>2, <3>3
  <2>2. CASE job[w] # "executor"
    <3>0. Return(w, "failing")
      BY <1>24, <2>2 DEF FailTask
    <3>1. /\ w \in Planners /\ w \notin Executors /\ Executors' = Executors
          /\ \A x \in Executors : at'[x] = at[x] /\ chosen'[x] = chosen[x]
      BY <2>2, <3>0, ReturnEffect, Kinds DEF GoTypes
    <3>2. status # "running"
      BY <3>1 DEF PlanningIsMarked
    <3>3. \A x \in Executors : x \notin cancelled => at[x] = "leaving"
      BY <3>2
    <3> HIDE DEF Executors, Planners
    <3> QED
      BY <2>0, <3>1, <3>3
  <2> QED
    BY <2>1, <2>2
<1>25. ASSUME NEW w \in Goroutines, NEW q \in Questions, AskQuestion(w, q)
      PROVE  ExecutionIsKnown'
  BY <1>25 DEF AskQuestion
<1>26. CASE Restart
  BY <1>26 DEF Restart
<1> QED
  BY <1>1, <1>2, <1>3, <1>4, <1>5, <1>6, <1>7, <1>8, <1>9, <1>10, <1>11, <1>12, <1>13,
     <1>14, <1>15, <1>16, <1>17, <1>18, <1>19, <1>20, <1>21, <1>22, <1>23, <1>24, <1>25,
     <1>26
  DEF Next, NewRequest, RequestStep, PlannerStep, ExecutorStep

\* The status leaves "planning" with the only planner.
LEMMA PlanningIsMarkedStep == LifecycleInv /\ Next => PlanningIsMarked'
<1> SUFFICES ASSUME LifecycleInv, Next
             PROVE  PlanningIsMarked'
  OBVIOUS
<1> USE DEF LifecycleInv, TypeOK, JobsMatchSteps, Executors, Planners, PlannerSteps,
            ExecutorSteps, taskVars, goVars, ctxVars, RequestStates, Idle, At, Advance,
            Respond, Launch, Move, Return, Check, Makes, Settled, SetStatus, TaskStatuses,
            GetPlanByTask, Pending, Quiet, canTransition, validTransitions, Writes,
            PlanningIsMarked, QuestionsComeLast, OneAtATime, ReadsAreFresh,
            ExecutionIsKnown
<1>1. CASE UNCHANGED <<manner, job, question, request, status>>
  BY <1>1
<1>2. ASSUME NEW w \in Goroutines,
             PlannerFails(w) \/ PersistPlan(w) \/ UpdatePlanStatus(w) \/ Register(w)
             \/ ExecutorFindsNoTask(w) \/ ExecutorFails(w) \/ ReadPlan(w)
             \/ FinishExecution(w)
      PROVE  UNCHANGED <<manner, job, question, request, status>>
  BY <1>2 DEF PlannerFails, PersistPlan, UpdatePlanStatus, Register, ExecutorFindsNoTask,
     ExecutorFails, ReadPlan, FinishExecution
<1>3. ASSUME NEW u \in Users, NEW allowed,
             NEW op \in {"start", "replan", "approve", "stop", "resume", "update", "delete"},
             Check(u, op, allowed)
      PROVE  PlanningIsMarked'
  BY <1>3
<1>4. ASSUME NEW u \in Users, StartPlanner(u) PROVE PlanningIsMarked'
  BY <1>4 DEF StartPlanner
<1>5. ASSUME NEW u \in Users, ApprovePlan(u) PROVE PlanningIsMarked'
  BY <1>5 DEF ApprovePlan
<1>6. ASSUME NEW u \in Users, ApproveTask(u) PROVE PlanningIsMarked'
  <2> SUFFICES ASSUME manner = "patient"
               PROVE  PlanningIsMarked'
    BY <1>6 DEF ApproveTask
  <2>1. request[u].op = "approve" /\ status = "planned"
    BY <1>6 DEF ApproveTask
  <2>2. /\ Planners = {} /\ Pending = {}
        /\ \A v \in Users : request[v].op # "answer"
    BY <2>1 DEF PlanningIsMarked
  <2>3. \A v \in Users : request'[v].op # "answer"
    BY <1>6, <2>2 DEF ApproveTask
  <2>4. UNCHANGED <<goVars, question>>
    BY <1>6 DEF ApproveTask
  <2> QED
    BY <2>2, <2>3, <2>4
<1>7. ASSUME NEW u \in Users, StartExecutor(u) PROVE PlanningIsMarked'
  BY <1>7 DEF StartExecutor
<1>8. ASSUME NEW u \in Users, CancelExecution(u) PROVE PlanningIsMarked'
  BY <1>8 DEF CancelExecution
<1>9. ASSUME NEW u \in Users, PauseTask(u) PROVE PlanningIsMarked'
  BY <1>9 DEF PauseTask
<1>10. ASSUME NEW u \in Users, DeleteTask(u) PROVE PlanningIsMarked'
  BY <1>10 DEF DeleteTask
<1>11. ASSUME NEW u \in Users, UpdatePlan(u) PROVE PlanningIsMarked'
  BY <1>11 DEF UpdatePlan
<1>12. ASSUME NEW u \in Users, PlanWithAnswers(u) PROVE PlanningIsMarked'
  BY <1>12 DEF PlanWithAnswers
<1>13. ASSUME NEW u \in Users, Abort(u) PROVE PlanningIsMarked'
  BY <1>13 DEF Abort
<1>14. ASSUME NEW w \in Goroutines, PlannerFindsNoTask(w) PROVE PlanningIsMarked'
  BY <1>14 DEF PlannerFindsNoTask
<1>15. ASSUME NEW w \in Goroutines, LeaveQuestions(w) PROVE PlanningIsMarked'
  BY <1>15 DEF LeaveQuestions
<1>16. ASSUME NEW w \in Goroutines, FinishPlanning(w) PROVE PlanningIsMarked'
  <2> SUFFICES ASSUME manner = "patient"
               PROVE  PlanningIsMarked'
    BY <1>16 DEF FinishPlanning
  <2>1. w \in Planners /\ at[w] = "marked" /\ Planners' = Planners \ {w}
    BY <1>16, ReturnEffect, Kinds DEF FinishPlanning, GoTypes
  <2>2. Planners' = {}
    BY <2>1 DEF OneAtATime
  <2>3. Pending' = {}
    BY <1>16, <2>1 DEF FinishPlanning
  <2>4. \A u \in Users : request'[u].op # "answer"
    BY <1>16, <2>1 DEF FinishPlanning
  <2> HIDE DEF Planners, Pending
  <2> QED
    BY <2>2, <2>3, <2>4
<1>17. ASSUME NEW w \in Goroutines, CompleteTask(w) PROVE PlanningIsMarked'
  <2> SUFFICES ASSUME manner = "patient"
               PROVE  PlanningIsMarked'
    BY <1>17 DEF CompleteTask
  <2>1. /\ w \in Executors /\ at[w] = "completing"
        /\ Planners' = Planners /\ UNCHANGED <<question, request>>
    BY <1>17, MoveEffect, Kinds DEF CompleteTask, GoTypes
  <2>2. CASE w \in cancelled
    BY <1>17, <2>1, <2>2 DEF CompleteTask
  <2>3. CASE w \notin cancelled
    <3>1. status = "running"
      BY <2>1, <2>3
    <3>2. /\ Planners = {} /\ Pending = {}
          /\ \A u \in Users : request[u].op # "answer"
      BY <3>1 DEF PlanningIsMarked
    <3> HIDE DEF Planners
    <3> QED
      BY <2>1, <3>2
  <2> QED
    BY <2>2, <2>3
<1>18. ASSUME NEW w \in Goroutines, Leave(w) PROVE PlanningIsMarked'
  BY <1>18 DEF Leave
<1>19. ASSUME NEW w \in Goroutines, FailTask(w) PROVE PlanningIsMarked'
  <2> SUFFICES ASSUME manner = "patient"
               PROVE  PlanningIsMarked'
    BY <1>19 DEF FailTask
  <2>0. UNCHANGED <<question, request>>
    BY <1>19 DEF FailTask
  <2>1. CASE job[w] = "executor"
    <3>1. /\ w \in Executors /\ at[w] = "failing" /\ Planners' = Planners
      BY <1>19, <2>1, MoveEffect DEF FailTask, GoTypes
    <3>2. CASE w \in cancelled
      BY <1>19, <2>0, <3>1, <3>2 DEF FailTask
    <3>3. CASE w \notin cancelled
      <4>1. status = "running"
        BY <3>1, <3>3
      <4>2. /\ Planners = {} /\ Pending = {}
            /\ \A u \in Users : request[u].op # "answer"
        BY <4>1 DEF PlanningIsMarked
      <4> HIDE DEF Planners
      <4> QED
        BY <2>0, <3>1, <4>2
    <3> QED
      BY <3>2, <3>3
  <2>2. CASE job[w] # "executor"
    <3>1. Return(w, "failing")
      BY <1>19, <2>2 DEF FailTask
    <3>2. w \in Planners /\ at[w] = "failing" /\ Planners' = Planners \ {w}
      BY <2>2, <3>1, ReturnEffect, Kinds DEF GoTypes
    <3>3. Planners' = {}
      BY <3>2 DEF OneAtATime
    <3>4. Pending = {} /\ \A u \in Users : request[u].op # "answer"
      BY <3>2 DEF QuestionsComeLast, ReadsAreFresh
    <3>5. Pending' = {} /\ \A u \in Users : request'[u].op # "answer"
      BY <2>0, <3>4
    <3> HIDE DEF Planners, Pending
    <3> QED
      BY <3>3, <3>5
  <2> QED
    BY <2>1, <2>2
<1>20. ASSUME NEW w \in Goroutines, NEW q \in Questions, AskQuestion(w, q)
      PROVE  PlanningIsMarked'
  BY <1>20 DEF AskQuestion
<1>21. ASSUME NEW u \in Users, NEW q \in Questions, AnswerQuestion(u, q)
      PROVE  PlanningIsMarked'
  BY <1>21 DEF AnswerQuestion
<1>22. CASE Restart
  BY <1>22 DEF Restart
<1>23. ASSUME NEW u \in Users,
                  CheckStart(u) \/ CheckReplan(u) \/ CheckApprove(u) \/ CheckStop(u)
               \/ CheckResume(u) \/ CheckUpdatePlan(u) \/ CheckDelete(u)
      PROVE  PlanningIsMarked'
  BY <1>3, <1>23 DEF CheckStart, CheckReplan, CheckApprove, CheckStop, CheckResume,
     CheckUpdatePlan, CheckDelete
<1> QED
  BY <1>1, <1>2, <1>3, <1>4, <1>5, <1>6, <1>7, <1>8, <1>9, <1>10, <1>11, <1>12, <1>13,
     <1>14, <1>15, <1>16, <1>17, <1>18, <1>19, <1>20, <1>21, <1>22, <1>23
  DEF Next, NewRequest, RequestStep, PlannerStep, ExecutorStep

\* A planner that has asked is over; the next one starts without open questions.
LEMMA QuestionsComeLastStep == LifecycleInv /\ Next => QuestionsComeLast'
<1> SUFFICES ASSUME LifecycleInv, Next
             PROVE  QuestionsComeLast'
  OBVIOUS
<1> USE DEF LifecycleInv, TypeOK, JobsMatchSteps, Executors, Planners, PlannerSteps,
            ExecutorSteps, taskVars, goVars, ctxVars, RequestStates, Idle, At, Advance,
            Respond, Launch, Move, Return, Check, Makes, Settled, SetStatus, TaskStatuses,
            GetPlanByTask, Pending, Quiet, canTransition, validTransitions, Writes,
            QuestionsComeLast, PlanningIsMarked, OneAtATime, ReadsAreFresh
<1>1. CASE UNCHANGED <<manner, job, at, question>>
  BY <1>1
<1>2. ASSUME NEW u \in Users,
             ApprovePlan(u) \/ ApproveTask(u) \/ CancelExecution(u) \/ PauseTask(u)
             \/ UpdatePlan(u) \/ Abort(u) \/ CheckStart(u) \/ CheckReplan(u)
             \/ CheckApprove(u) \/ CheckStop(u) \/ CheckResume(u) \/ CheckUpdatePlan(u)
             \/ CheckDelete(u)
      PROVE  UNCHANGED <<manner, job, at, question>>
  BY <1>2 DEF ApprovePlan, ApproveTask, CancelExecution, PauseTask, UpdatePlan, Abort,
     CheckStart, CheckReplan, CheckApprove, CheckStop, CheckResume, CheckUpdatePlan,
     CheckDelete
<1>3. ASSUME NEW u \in Users, StartPlanner(u) PROVE QuestionsComeLast'
  BY <1>3 DEF StartPlanner
<1>4. ASSUME NEW u \in Users, StartExecutor(u) PROVE QuestionsComeLast'
  BY <1>4 DEF StartExecutor
<1>5. ASSUME NEW u \in Users, DeleteTask(u) PROVE QuestionsComeLast'
  BY <1>5 DEF DeleteTask
<1>6. ASSUME NEW u \in Users, PlanWithAnswers(u) PROVE QuestionsComeLast'
  BY <1>6 DEF PlanWithAnswers
<1>7. ASSUME NEW w \in Goroutines, PlannerFindsNoTask(w) PROVE QuestionsComeLast'
  BY <1>7 DEF PlannerFindsNoTask
<1>8. ASSUME NEW w \in Goroutines, PlannerFails(w) PROVE QuestionsComeLast'
  BY <1>8 DEF PlannerFails
<1>9. ASSUME NEW w \in Goroutines, LeaveQuestions(w) PROVE QuestionsComeLast'
  BY <1>9 DEF LeaveQuestions
<1>10. ASSUME NEW w \in Goroutines, PersistPlan(w) PROVE QuestionsComeLast'
  BY <1>10 DEF PersistPlan
<1>11. ASSUME NEW w \in Goroutines, UpdatePlanStatus(w) PROVE QuestionsComeLast'
  BY <1>11 DEF UpdatePlanStatus
<1>12. ASSUME NEW w \in Goroutines, FinishPlanning(w) PROVE QuestionsComeLast'
  BY <1>12 DEF FinishPlanning
<1>13. ASSUME NEW w \in Goroutines, Register(w) PROVE QuestionsComeLast'
  BY <1>13 DEF Register
<1>14. ASSUME NEW w \in Goroutines, ExecutorFindsNoTask(w) PROVE QuestionsComeLast'
  BY <1>14 DEF ExecutorFindsNoTask
<1>15. ASSUME NEW w \in Goroutines, ExecutorFails(w) PROVE QuestionsComeLast'
  BY <1>15 DEF ExecutorFails
<1>16. ASSUME NEW w \in Goroutines, ReadPlan(w) PROVE QuestionsComeLast'
  BY <1>16 DEF ReadPlan
<1>17. ASSUME NEW w \in Goroutines, FinishExecution(w) PROVE QuestionsComeLast'
  BY <1>17 DEF FinishExecution
<1>18. ASSUME NEW w \in Goroutines, CompleteTask(w) PROVE QuestionsComeLast'
  BY <1>18 DEF CompleteTask
<1>19. ASSUME NEW w \in Goroutines, Leave(w) PROVE QuestionsComeLast'
  BY <1>19 DEF Leave
<1>20. ASSUME NEW w \in Goroutines, FailTask(w) PROVE QuestionsComeLast'
  BY <1>20 DEF FailTask
<1>21. ASSUME NEW w \in Goroutines, NEW q \in Questions, AskQuestion(w, q)
      PROVE  QuestionsComeLast'
  <2> SUFFICES ASSUME manner = "patient"
               PROVE  QuestionsComeLast'
    BY <1>21 DEF AskQuestion
  <2>1. w \in Planners /\ Planners' = Planners /\ at'[w] = "asking"
    BY <1>21, Kinds DEF AskQuestion, GoTypes
  <2>2. \A x \in Planners : x = w
    BY <2>1 DEF OneAtATime
  <2> HIDE DEF Planners, Pending
  <2> QED
    BY <2>1, <2>2
<1>22. ASSUME NEW u \in Users, NEW q \in Questions, AnswerQuestion(u, q)
      PROVE  QuestionsComeLast'
  BY <1>22 DEF AnswerQuestion
<1>23. CASE Restart
  BY <1>23 DEF Restart
<1> QED
  BY <1>1, <1>2, <1>3, <1>4, <1>5, <1>6, <1>7, <1>8, <1>9, <1>10, <1>11, <1>12, <1>13,
     <1>14, <1>15, <1>16, <1>17, <1>18, <1>19, <1>20, <1>21, <1>22, <1>23
  DEF Next, NewRequest, RequestStep, PlannerStep, ExecutorStep

\* The row that was approved is changed only in "planned".
LEMMA ApprovalStaysStep == LifecycleInv /\ Next => ApprovalStays'
<1> SUFFICES ASSUME LifecycleInv, Next
             PROVE  ApprovalStays'
  OBVIOUS
<1> USE DEF LifecycleInv, TypeOK, JobsMatchSteps, Executors, Planners, PlannerSteps,
            ExecutorSteps, taskVars, goVars, ctxVars, RequestStates, Idle, At, Advance,
            Respond, Launch, Move, Return, Check, Makes, Settled, SetStatus, TaskStatuses,
            GetPlanByTask, Pending, Quiet, canTransition, validTransitions, Writes,
            ApprovalStays, PlanningIsMarked, OneAtATime, ReadsAreFresh, ExecutionIsKnown
<1>1. CASE UNCHANGED <<manner, status, request, plans>>
  BY <1>1
<1>2. ASSUME NEW w \in Goroutines,
             PlannerFindsNoTask(w) \/ PlannerFails(w) \/ LeaveQuestions(w) \/ Register(w)
             \/ ExecutorFindsNoTask(w) \/ ExecutorFails(w) \/ ReadPlan(w)
             \/ FinishExecution(w) \/ Leave(w)
      PROVE  UNCHANGED <<manner, status, request, plans>>
  BY <1>2 DEF PlannerFindsNoTask, PlannerFails, LeaveQuestions, Register,
     ExecutorFindsNoTask, ExecutorFails, ReadPlan, FinishExecution, Leave
<1>3. ASSUME NEW w \in Goroutines, NEW q \in Questions, AskQuestion(w, q)
      PROVE  UNCHANGED <<manner, status, request, plans>>
  BY <1>3 DEF AskQuestion
<1>4. ASSUME NEW u \in Users, StartPlanner(u) PROVE ApprovalStays'
  BY <1>4 DEF StartPlanner
<1>5. ASSUME NEW u \in Users, ApprovePlan(u) PROVE ApprovalStays'
  <2> SUFFICES ASSUME manner = "patient"
               PROVE  ApprovalStays'
    BY <1>5 DEF ApprovePlan
  <2>1. CASE plans = <<>>
    <3>1. UNCHANGED <<plans, status>>
      BY <1>5, <2>1 DEF ApprovePlan
    <3>2. /\ status \notin {"approved", "running", "paused", "completed"}
          /\ \A v \in Users : request[v].op # "stop" /\ request[v].step \notin {"marked", "approved"}
      BY <2>1 DEF ApprovalStays
    <3>3. \A v \in Users : request'[v] = Idle \/ request'[v] = request[v]
      BY <1>5, <2>1 DEF ApprovePlan
    <3> QED
      BY <3>1, <3>2, <3>3 DEF ApprovalStays
  <2>2. CASE plans # <<>>
    <3>1. plans' = [plans EXCEPT ![1] = "approved"]
      BY <1>5, <2>2 DEF ApprovePlan
    <3>2. 1 \in DOMAIN plans
      BY <2>2
    <3>3. plans'[1] = "approved" /\ plans' # <<>>
      BY <3>1, <3>2
    <3> QED
      BY <3>3
  <2> QED
    BY <2>1, <2>2
<1>6. ASSUME NEW u \in Users, ApproveTask(u) PROVE ApprovalStays'
  BY <1>6 DEF ApproveTask
<1>7. ASSUME NEW u \in Users, StartExecutor(u) PROVE ApprovalStays'
  BY <1>7 DEF StartExecutor
<1>8. ASSUME NEW u \in Users, CancelExecution(u) PROVE ApprovalStays'
  BY <1>8 DEF CancelExecution
<1>9. ASSUME NEW u \in Users, PauseTask(u) PROVE ApprovalStays'
  BY <1>9 DEF PauseTask
<1>10. ASSUME NEW u \in Users, DeleteTask(u) PROVE ApprovalStays'
  BY <1>10 DEF DeleteTask
<1>11. ASSUME NEW u \in Users, UpdatePlan(u) PROVE ApprovalStays'
  BY <1>11 DEF UpdatePlan
<1>12. ASSUME NEW u \in Users, PlanWithAnswers(u) PROVE ApprovalStays'
  BY <1>12 DEF PlanWithAnswers
<1>13. ASSUME NEW u \in Users, Abort(u) PROVE ApprovalStays'
  BY <1>13 DEF Abort
<1>14. ASSUME NEW u \in Users, CheckStart(u) PROVE ApprovalStays'
  BY <1>14 DEF CheckStart
<1>15. ASSUME NEW u \in Users, CheckReplan(u) PROVE ApprovalStays'
  BY <1>15 DEF CheckReplan
<1>16. ASSUME NEW u \in Users, CheckApprove(u) PROVE ApprovalStays'
  BY <1>16 DEF CheckApprove
<1>17. ASSUME NEW u \in Users, CheckStop(u) PROVE ApprovalStays'
  BY <1>17 DEF CheckStop
<1>18. ASSUME NEW u \in Users, CheckResume(u) PROVE ApprovalStays'
  BY <1>18 DEF CheckResume
<1>19. ASSUME NEW u \in Users, CheckUpdatePlan(u) PROVE ApprovalStays'
  BY <1>19 DEF CheckUpdatePlan
<1>20. ASSUME NEW u \in Users, CheckDelete(u) PROVE ApprovalStays'
  BY <1>20 DEF CheckDelete
<1>21. ASSUME NEW w \in Goroutines, PersistPlan(w) PROVE ApprovalStays'
  <2> SUFFICES ASSUME manner = "patient"
               PROVE  ApprovalStays'
    BY <1>21 DEF PersistPlan
  <2>1. w \in Planners
    BY <1>21, Kinds DEF PersistPlan, GoTypes
  <2>2. status \in {"planning", "deleted"}
    BY <2>1 DEF PlanningIsMarked
  <2>3. \A u \in Users : request[u].op \notin {"stop", "approve"}
    BY <2>2
  <2>4. \A u \in Users : request[u].step \notin {"marked", "approved"}
    BY <2>3
  <2>5. UNCHANGED <<request, status>>
    BY <1>21 DEF PersistPlan
  <2> QED
    BY <2>2, <2>3, <2>4, <2>5
<1>22. ASSUME NEW w \in Goroutines, UpdatePlanStatus(w) PROVE ApprovalStays'
  <2> SUFFICES ASSUME manner = "patient"
               PROVE  ApprovalStays'
    BY <1>22 DEF UpdatePlanStatus
  <2>1. w \in Planners
    BY <1>22, Kinds DEF UpdatePlanStatus, GoTypes
  <2>2. status \in {"planning", "deleted"}
    BY <2>1 DEF PlanningIsMarked
  <2>3. \A u \in Users : request[u].op \notin {"stop", "approve"}
    BY <2>2
  <2>4. \A u \in Users : request[u].step \notin {"marked", "approved"}
    BY <2>3
  <2>5. UNCHANGED <<request, status>>
    BY <1>22 DEF UpdatePlanStatus
  <2> QED
    BY <2>2, <2>3, <2>4, <2>5
<1>23. ASSUME NEW w \in Goroutines, FinishPlanning(w) PROVE ApprovalStays'
  BY <1>23 DEF FinishPlanning
<1>24. ASSUME NEW w \in Goroutines, CompleteTask(w) PROVE ApprovalStays'
  BY <1>24 DEF CompleteTask
<1>25. ASSUME NEW w \in Goroutines, FailTask(w) PROVE ApprovalStays'
  BY <1>25 DEF FailTask
<1>26. ASSUME NEW u \in Users, NEW q \in Questions, AnswerQuestion(u, q)
      PROVE  ApprovalStays'
  BY <1>26 DEF AnswerQuestion
<1>27. CASE Restart
  BY <1>27 DEF Restart
<1> QED
  BY <1>1, <1>2, <1>3, <1>4, <1>5, <1>6, <1>7, <1>8, <1>9, <1>10, <1>11, <1>12, <1>13,
     <1>14, <1>15, <1>16, <1>17, <1>18, <1>19, <1>20, <1>21, <1>22, <1>23, <1>24, <1>25,
     <1>26, <1>27
  DEF Next, NewRequest, RequestStep, PlannerStep, ExecutorStep

\* Only a request that has cancelled the execution pauses or deletes the task.
LEMMA PausedIsQuietStep == LifecycleInv /\ Next => PausedIsQuiet'
<1> SUFFICES ASSUME LifecycleInv, Next
             PROVE  PausedIsQuiet'
  OBVIOUS
<1> USE DEF LifecycleInv, TypeOK, JobsMatchSteps, Executors, Planners, PlannerSteps,
            ExecutorSteps, taskVars, goVars, ctxVars, RequestStates, Idle, At, Advance,
            Respond, Launch, Move, Return, Check, Makes, Settled, SetStatus, TaskStatuses,
            GetPlanByTask, Pending, Quiet, canTransition, validTransitions, Writes,
            PausedIsQuiet, PlanningIsMarked, OneAtATime, ReadsAreFresh, ExecutionIsKnown
<1>1. CASE UNCHANGED <<manner, status, job, cancelled>>
  BY <1>1
<1>2. ASSUME NEW u \in Users,
             ApprovePlan(u) \/ UpdatePlan(u) \/ Abort(u) \/ CheckStart(u) \/ CheckReplan(u)
             \/ CheckApprove(u) \/ CheckStop(u) \/ CheckResume(u) \/ CheckUpdatePlan(u)
             \/ CheckDelete(u)
      PROVE  UNCHANGED <<manner, status, job, cancelled>>
  BY <1>2 DEF ApprovePlan, UpdatePlan, Abort, CheckStart, CheckReplan, CheckApprove,
     CheckStop, CheckResume, CheckUpdatePlan, CheckDelete
<1>3. ASSUME NEW w \in Goroutines,
             PlannerFails(w) \/ PersistPlan(w) \/ UpdatePlanStatus(w) \/ Register(w)
             \/ ExecutorFindsNoTask(w) \/ ExecutorFails(w) \/ ReadPlan(w)
             \/ FinishExecution(w)
      PROVE  UNCHANGED <<manner, status, job, cancelled>>
  BY <1>3 DEF PlannerFails, PersistPlan, UpdatePlanStatus, Register, ExecutorFindsNoTask,
     ExecutorFails, ReadPlan, FinishExecution
<1>4. ASSUME NEW w \in Goroutines, NEW q \in Questions, AskQuestion(w, q)
      PROVE  UNCHANGED <<manner, status, job, cancelled>>
  BY <1>4 DEF AskQuestion
<1>5. ASSUME NEW u \in Users, NEW q \in Questions, AnswerQuestion(u, q)
      PROVE  UNCHANGED <<manner, status, job, cancelled>>
  BY <1>5 DEF AnswerQuestion
<1>6. ASSUME NEW u \in Users, StartPlanner(u) PROVE PausedIsQuiet'
  BY <1>6 DEF StartPlanner
<1>7. ASSUME NEW u \in Users, ApproveTask(u) PROVE PausedIsQuiet'
  BY <1>7 DEF ApproveTask
<1>8. ASSUME NEW u \in Users, StartExecutor(u) PROVE PausedIsQuiet'
  BY <1>8 DEF StartExecutor
<1>9. ASSUME NEW u \in Users, CancelExecution(u) PROVE PausedIsQuiet'
  BY <1>9 DEF CancelExecution
<1>10. ASSUME NEW u \in Users, PauseTask(u) PROVE PausedIsQuiet'
  <2>1. request[u].step = "cancelled"
    BY <1>10 DEF PauseTask
  <2>2. manner = "patient" => Quiet
    BY <2>1 DEF ReadsAreFresh
  <2>3. Quiet' = Quiet /\ manner' = manner
    BY <1>10 DEF PauseTask
  <2> QED
    BY <2>2, <2>3 DEF PausedIsQuiet
<1>11. ASSUME NEW u \in Users, DeleteTask(u) PROVE PausedIsQuiet'
  <2>1. request[u].step = "cancelled"
    BY <1>11 DEF DeleteTask
  <2>2. manner = "patient" => Quiet
    BY <2>1 DEF ReadsAreFresh
  <2>3. Quiet' = Quiet /\ manner' = manner
    BY <1>11 DEF DeleteTask
  <2> QED
    BY <2>2, <2>3 DEF PausedIsQuiet
<1>12. ASSUME NEW u \in Users, PlanWithAnswers(u) PROVE PausedIsQuiet'
  BY <1>12 DEF PlanWithAnswers
<1>13. ASSUME NEW w \in Goroutines, PlannerFindsNoTask(w) PROVE PausedIsQuiet'
  BY <1>13 DEF PlannerFindsNoTask
<1>14. ASSUME NEW w \in Goroutines, LeaveQuestions(w) PROVE PausedIsQuiet'
  BY <1>14 DEF LeaveQuestions
<1>15. ASSUME NEW w \in Goroutines, FinishPlanning(w) PROVE PausedIsQuiet'
  BY <1>15 DEF FinishPlanning
<1>16. ASSUME NEW w \in Goroutines, CompleteTask(w) PROVE PausedIsQuiet'
  BY <1>16 DEF CompleteTask
<1>17. ASSUME NEW w \in Goroutines, Leave(w) PROVE PausedIsQuiet'
  BY <1>17 DEF Leave
<1>18. ASSUME NEW w \in Goroutines, FailTask(w) PROVE PausedIsQuiet'
  BY <1>18 DEF FailTask
<1>19. CASE Restart
  BY <1>19 DEF Restart
<1> QED
  BY <1>1, <1>2, <1>3, <1>4, <1>5, <1>6, <1>7, <1>8, <1>9, <1>10, <1>11, <1>12, <1>13,
     <1>14, <1>15, <1>16, <1>17, <1>18, <1>19
  DEF Next, NewRequest, RequestStep, PlannerStep, ExecutorStep

\* A step of one goroutine that does not touch the task keeps it in somebody's hands,
\* unless it is the only one to hold it and lets go.
LEMMA GoroutineKeepsWork ==
  ASSUME TypeOK, WorkGoesOn, NEW w \in Goroutines,
         UNCHANGED <<status, question, request, cancelled, disturbed>>,
         \A x \in Goroutines : x # w => job'[x] = job[x] /\ at'[x] = at[x],
         w \in Planners /\ at[w] # "asking" => w \in Planners' /\ at'[w] # "asking",
         w \in Executors \ cancelled /\ at[w] # "leaving"
           => w \in Executors' /\ at'[w] # "leaving"
  PROVE  WorkGoesOn'
<1> SUFFICES ASSUME ~ disturbed
             PROVE  WorkGoesOn'
  BY DEF WorkGoesOn
<1>1. \A x \in Planners : at[x] # "asking" => x \in Planners' /\ at'[x] # "asking"
  BY DEF Planners
<1>2. \A x \in Executors \ cancelled :
        at[x] # "leaving" => x \in Executors' /\ at'[x] # "leaving"
  BY DEF Executors
<1>3. Pending' = Pending
  BY DEF Pending
<1> QED
  BY <1>1, <1>2, <1>3 DEF WorkGoesOn

\* Whoever hands over a task in "planning" or "running" hands it to somebody.
LEMMA WorkGoesOnStep == LifecycleInv /\ Next => WorkGoesOn'
<1> SUFFICES ASSUME LifecycleInv, Next
             PROVE  WorkGoesOn'
  OBVIOUS
<1> USE DEF LifecycleInv, TypeOK, JobsMatchSteps, Executors, Planners, PlannerSteps,
            ExecutorSteps, taskVars, goVars, ctxVars, RequestStates, Idle, At, Advance,
            Respond, Launch, Move, Return, Check, Makes, Settled, SetStatus, TaskStatuses,
            GetPlanByTask, Pending, Quiet, canTransition, validTransitions, Writes,
            WorkGoesOn
<1>1. ASSUME NEW u \in Users, NEW allowed,
             NEW op \in {"start", "replan", "approve", "stop", "resume", "update", "delete"},
             Check(u, op, allowed)
      PROVE  WorkGoesOn'
  BY <1>1
<1>2. ASSUME NEW u \in Users, StartPlanner(u) PROVE WorkGoesOn'
  BY <1>2 DEF StartPlanner
<1>3. ASSUME NEW u \in Users, ApprovePlan(u) PROVE WorkGoesOn'
  <2> SUFFICES ASSUME ~ disturbed
               PROVE  WorkGoesOn'
    BY <1>3 DEF ApprovePlan
  <2>1. \A v \in Users : v # u => request'[v] = request[v]
    BY <1>3 DEF ApprovePlan
  <2>2. request[u].op = "approve" /\ request[u].step = "checked"
    BY <1>3 DEF ApprovePlan
  <2>3. status' = status /\ cancelled' = cancelled /\ at' = at
    BY <1>3 DEF ApprovePlan
  <2>4. Executors' = Executors /\ Planners' = Planners /\ Pending' = Pending
    BY <1>3 DEF ApprovePlan
  <2>5. \A v \in Users : request[v].op = "answer" => request'[v].op = "answer"
    BY <2>1, <2>2
  <2>6. \A v \in Users : request[v].step = "cancelled" => request'[v].step = "cancelled"
    BY <2>1, <2>2
  <2>7. WorkGoesOn
    OBVIOUS
  <2> HIDE DEF LifecycleInv, TypeOK, JobsMatchSteps, Executors, Planners, Pending
  <2> QED
    BY <2>3, <2>4, <2>5, <2>6, <2>7
<1>4. ASSUME NEW u \in Users, ApproveTask(u) PROVE WorkGoesOn'
  BY <1>4 DEF ApproveTask
<1>5. ASSUME NEW u \in Users, StartExecutor(u) PROVE WorkGoesOn'
  BY <1>5 DEF StartExecutor
<1>6. ASSUME NEW u \in Users, CancelExecution(u) PROVE WorkGoesOn'
  BY <1>6 DEF CancelExecution
<1>7. ASSUME NEW u \in Users, PauseTask(u) PROVE WorkGoesOn'
  BY <1>7 DEF PauseTask
<1>8. ASSUME NEW u \in Users, DeleteTask(u) PROVE WorkGoesOn'
  BY <1>8 DEF DeleteTask
<1>9. ASSUME NEW u \in Users, UpdatePlan(u) PROVE WorkGoesOn'
  BY <1>9 DEF UpdatePlan
<1>10. ASSUME NEW u \in Users, PlanWithAnswers(u) PROVE WorkGoesOn'
  <2> SUFFICES ASSUME ~ disturbed
               PROVE  WorkGoesOn'
    BY <1>10 DEF PlanWithAnswers

  <2>1. \A v \in Users : v # u => request'[v] = request[v]
    BY <1>10 DEF PlanWithAnswers
  <2>2. request[u].step = "answered"
    BY <1>10 DEF PlanWithAnswers
  <2>3. UNCHANGED <<status, question, ctxVars>>
    BY <1>10 DEF PlanWithAnswers
  <2>4. CASE Pending = {}
    <3>1. PICK w \in Goroutines : Launch(w, "planner")
      BY <1>10, <2>4 DEF PlanWithAnswers
    <3>2. /\ w \in Planners' /\ at'[w] = "planning" /\ Executors' = Executors
          /\ w \notin Executors /\ \A x \in Goroutines : x # w => at'[x] = at[x]
      BY <3>1, LaunchEffect DEF GoTypes
    <3> HIDE DEF LifecycleInv, TypeOK, JobsMatchSteps, Executors, Planners, Pending
    <3>3. WorkGoesOn
      BY DEF LifecycleInv
    <3>4. status = "running" =>
            \/ \E x \in Executors' \ cancelled' : at'[x] # "leaving"
            \/ \E v \in Users : request'[v].step = "cancelled"
      <4>1. \A x \in Executors : x # w /\ x \in Goroutines
        BY <3>2 DEF Executors
      <4> QED
        BY <2>1, <2>2, <2>3, <3>2, <3>3, <4>1
    <3> QED
      BY <2>3, <3>2, <3>4
  <2>5. CASE Pending # {}
    <3>1. UNCHANGED goVars
      BY <1>10, <2>5 DEF PlanWithAnswers
    <3>2. Executors' = Executors /\ Pending' = Pending
      BY <2>3, <3>1
    <3> HIDE DEF Executors, Planners, Pending
    <3> QED
      BY <2>1, <2>2, <2>3, <2>5, <3>1, <3>2 DEF Executors
  <2> QED
    BY <2>4, <2>5
<1>11. ASSUME NEW u \in Users, Abort(u) PROVE WorkGoesOn'
  BY <1>11 DEF Abort
<1>12. ASSUME NEW w \in Goroutines, PlannerFindsNoTask(w) PROVE WorkGoesOn'
  BY <1>12 DEF PlannerFindsNoTask
<1>13. ASSUME NEW w \in Goroutines, PlannerFails(w) PROVE WorkGoesOn'
  <2>1. UNCHANGED <<status, question, request, cancelled, disturbed>>
    BY <1>13 DEF PlannerFails
  <2>2. \A x \in Goroutines : x # w => job'[x] = job[x] /\ at'[x] = at[x]
    BY <1>13 DEF PlannerFails
  <2>3. /\ w \in Planners /\ at[w] # "asking" => w \in Planners' /\ at'[w] # "asking"
        /\ w \in Executors \ cancelled /\ at[w] # "leaving"
             => w \in Executors' /\ at'[w] # "leaving"
    BY <1>13 DEF PlannerFails
  <2> HIDE DEF LifecycleInv, TypeOK, JobsMatchSteps, Executors, Planners, WorkGoesOn
  <2> QED
    BY <2>1, <2>2, <2>3, GoroutineKeepsWork DEF LifecycleInv
<1>14. ASSUME NEW w \in Goroutines, LeaveQuestions(w) PROVE WorkGoesOn'
  <2>1. UNCHANGED <<status, question, request, cancelled, disturbed>>
    BY <1>14 DEF LeaveQuestions
  <2>2. \A x \in Goroutines : x # w => job'[x] = job[x] /\ at'[x] = at[x]
    BY <1>14 DEF LeaveQuestions
  <2>3. /\ w \in Planners /\ at[w] # "asking" => w \in Planners' /\ at'[w] # "asking"
        /\ w \in Executors \ cancelled /\ at[w] # "leaving"
             => w \in Executors' /\ at'[w] # "leaving"
    BY <1>14 DEF LeaveQuestions
  <2> HIDE DEF LifecycleInv, TypeOK, JobsMatchSteps, Executors, Planners, WorkGoesOn
  <2> QED
    BY <2>1, <2>2, <2>3, GoroutineKeepsWork DEF LifecycleInv
<1>15. ASSUME NEW w \in Goroutines, PersistPlan(w) PROVE WorkGoesOn'
  <2>1. UNCHANGED <<status, question, request, cancelled, disturbed>>
    BY <1>15 DEF PersistPlan
  <2>2. \A x \in Goroutines : x # w => job'[x] = job[x] /\ at'[x] = at[x]
    BY <1>15 DEF PersistPlan
  <2>3. /\ w \in Planners /\ at[w] # "asking" => w \in Planners' /\ at'[w] # "asking"
        /\ w \in Executors \ cancelled /\ at[w] # "leaving"
             => w \in Executors' /\ at'[w] # "leaving"
    BY <1>15 DEF PersistPlan
  <2> HIDE DEF LifecycleInv, TypeOK, JobsMatchSteps, Executors, Planners, WorkGoesOn
  <2> QED
    BY <2>1, <2>2, <2>3, GoroutineKeepsWork DEF LifecycleInv
<1>16. ASSUME NEW w \in Goroutines, UpdatePlanStatus(w) PROVE WorkGoesOn'
  <2>1. UNCHANGED <<status, question, request, cancelled, disturbed>>
    BY <1>16 DEF UpdatePlanStatus
  <2>2. \A x \in Goroutines : x # w => job'[x] = job[x] /\ at'[x] = at[x]
    BY <1>16 DEF UpdatePlanStatus
  <2>3. /\ w \in Planners /\ at[w] # "asking" => w \in Planners' /\ at'[w] # "asking"
        /\ w \in Executors \ cancelled /\ at[w] # "leaving"
             => w \in Executors' /\ at'[w] # "leaving"
    BY <1>16 DEF UpdatePlanStatus
  <2> HIDE DEF LifecycleInv, TypeOK, JobsMatchSteps, Executors, Planners, WorkGoesOn
  <2> QED
    BY <2>1, <2>2, <2>3, GoroutineKeepsWork DEF LifecycleInv
<1>17. ASSUME NEW w \in Goroutines, FinishPlanning(w) PROVE WorkGoesOn'
  BY <1>17 DEF FinishPlanning
<1>18. ASSUME NEW w \in Goroutines, Register(w) PROVE WorkGoesOn'
  <2>1. UNCHANGED <<status, question, request, cancelled, disturbed>>
    BY <1>18 DEF Register
  <2>2. \A x \in Goroutines : x # w => job'[x] = job[x] /\ at'[x] = at[x]
    BY <1>18 DEF Register
  <2>3. /\ w \in Planners /\ at[w] # "asking" => w \in Planners' /\ at'[w] # "asking"
        /\ w \in Executors \ cancelled /\ at[w] # "leaving"
             => w \in Executors' /\ at'[w] # "leaving"
    BY <1>18 DEF Register
  <2> HIDE DEF LifecycleInv, TypeOK, JobsMatchSteps, Executors, Planners, WorkGoesOn
  <2> QED
    BY <2>1, <2>2, <2>3, GoroutineKeepsWork DEF LifecycleInv
<1>19. ASSUME NEW w \in Goroutines, ExecutorFindsNoTask(w) PROVE WorkGoesOn'
  <2>1. UNCHANGED <<status, question, request, cancelled>>
    BY <1>19 DEF ExecutorFindsNoTask
  <2>2. CASE disturbed'
    BY <2>2
  <2>3. CASE ~ disturbed'
    <3>1. ~ disturbed /\ (status = "deleted" \/ w \in cancelled)
      BY <1>19, <2>3 DEF ExecutorFindsNoTask
    <3>2. \A x \in Goroutines : x # w => job'[x] = job[x] /\ at'[x] = at[x]
      BY <1>19 DEF ExecutorFindsNoTask
    <3>3. w \notin Planners /\ disturbed' = disturbed
      BY <1>19, <2>3, <3>1 DEF ExecutorFindsNoTask
    <3>4. CASE status = "deleted"
      BY <2>1, <3>4
    <3>5. CASE w \in cancelled
      <4> HIDE DEF LifecycleInv, TypeOK, JobsMatchSteps, Executors, Planners, WorkGoesOn
      <4> QED
        BY <2>1, <3>2, <3>3, <3>5, GoroutineKeepsWork DEF LifecycleInv
    <3> QED
      BY <3>1, <3>4, <3>5
  <2> QED
    BY <2>2, <2>3
<1>20. ASSUME NEW w \in Goroutines, ExecutorFails(w) PROVE WorkGoesOn'
  BY <1>20 DEF ExecutorFails
<1>21. ASSUME NEW w \in Goroutines, ReadPlan(w) PROVE WorkGoesOn'
  <2>1. UNCHANGED <<status, question, request, cancelled, disturbed>>
    BY <1>21 DEF ReadPlan
  <2>2. \A x \in Goroutines : x # w => job'[x] = job[x] /\ at'[x] = at[x]
    BY <1>21 DEF ReadPlan
  <2>3. /\ w \in Planners /\ at[w] # "asking" => w \in Planners' /\ at'[w] # "asking"
        /\ w \in Executors \ cancelled /\ at[w] # "leaving"
             => w \in Executors' /\ at'[w] # "leaving"
    BY <1>21 DEF ReadPlan
  <2> HIDE DEF LifecycleInv, TypeOK, JobsMatchSteps, Executors, Planners, WorkGoesOn
  <2> QED
    BY <2>1, <2>2, <2>3, GoroutineKeepsWork DEF LifecycleInv
<1>22. ASSUME NEW w \in Goroutines, FinishExecution(w) PROVE WorkGoesOn'
  BY <1>22 DEF FinishExecution
<1>23. ASSUME NEW w \in Goroutines, CompleteTask(w) PROVE WorkGoesOn'
  BY <1>23 DEF CompleteTask
<1>24. ASSUME NEW w \in Goroutines, Leave(w) PROVE WorkGoesOn'
  <2>1. UNCHANGED <<status, question, request, disturbed>> /\ at[w] = "leaving"
    BY <1>24 DEF Leave
  <2>2. \A x \in Goroutines : x # w => job'[x] = job[x] /\ at'[x] = at[x]
    BY <1>24 DEF Leave
  <2>3. \A x \in Executors \ cancelled :
          at[x] # "leaving" => x \in Executors' \ cancelled' /\ at'[x] # "leaving"
    <3>1. cancelled' = cancelled \ {w}
      BY <1>24 DEF Leave
    <3> QED
      BY <2>1, <2>2, <3>1
  <2>4. \A x \in Planners : x \in Planners' /\ at'[x] = at[x]
    BY <2>1, <2>2
  <2>5. Pending' = Pending
    BY <2>1
  <2>6. WorkGoesOn
    OBVIOUS
  <2> HIDE DEF LifecycleInv, TypeOK, JobsMatchSteps, Executors, Planners, Pending
  <2> QED
    BY <2>1, <2>3, <2>4, <2>5, <2>6
<1>25. ASSUME NEW w \in Goroutines, FailTask(w) PROVE WorkGoesOn'
  <2> SUFFICES ASSUME ~ disturbed'
               PROVE  WorkGoesOn'
    OBVIOUS
  <2>1. CASE w \notin cancelled
    <3>1. status' = IF status = "deleted" THEN status ELSE "failed"
      BY <1>25, <2>1 DEF FailTask
    <3> QED
      BY <3>1
  <2>2. CASE w \in cancelled
    <3>1. UNCHANGED <<status, question, request, cancelled, disturbed>>
      BY <1>25, <2>2 DEF FailTask
    <3>2. \A x \in Goroutines : x # w => job'[x] = job[x] /\ at'[x] = at[x]
      BY <1>25 DEF FailTask
    <3>3. w \notin Planners
      BY <2>2
    <3> HIDE DEF LifecycleInv, TypeOK, JobsMatchSteps, Executors, Planners, WorkGoesOn
    <3> QED
      BY <2>2, <3>1, <3>2, <3>3, GoroutineKeepsWork DEF LifecycleInv
  <2> QED
    BY <2>1, <2>2
<1>26. ASSUME NEW w \in Goroutines, NEW q \in Questions, AskQuestion(w, q) PROVE WorkGoesOn'
  <2> SUFFICES ASSUME ~ disturbed'
               PROVE  WorkGoesOn'
    OBVIOUS
  <2>1. /\ question[q] = "none" /\ ~ disturbed
        /\ status' = status /\ request' = request /\ cancelled' = cancelled /\ job' = job
    BY <1>26 DEF AskQuestion
  <2>2. q \in Pending'
    BY <1>26, <2>1 DEF AskQuestion
  <2>3. Executors' = Executors
    BY <2>1
  <2>4. \A x \in Executors : at'[x] = at[x]
    BY <1>26 DEF AskQuestion
  <2>5. WorkGoesOn
    OBVIOUS
  <2> HIDE DEF LifecycleInv, TypeOK, JobsMatchSteps, Executors, Planners, Pending
  <2> QED
    BY <2>1, <2>2, <2>3, <2>4, <2>5
<1>27. ASSUME NEW u \in Users, NEW q \in Questions, AnswerQuestion(u, q) PROVE WorkGoesOn'
  <2> SUFFICES ASSUME ~ disturbed
               PROVE  WorkGoesOn'
    BY <1>27 DEF AnswerQuestion
  <2>1. /\ status' = status /\ cancelled' = cancelled /\ job' = job /\ at' = at
        /\ request[u] = Idle
    BY <1>27 DEF AnswerQuestion
  <2>2. request'[u].op = "answer"
    BY <1>27 DEF AnswerQuestion
  <2>3. \A v \in Users : v # u => request'[v] = request[v]
    BY <1>27 DEF AnswerQuestion
  <2>4. Executors' = Executors
    BY <2>1
  <2>5. WorkGoesOn /\ request[u].step # "cancelled"
    BY <2>1
  <2> HIDE DEF LifecycleInv, TypeOK, JobsMatchSteps, Executors, Planners, Pending
  <2> QED
    BY <2>1, <2>2, <2>3, <2>4, <2>5
<1>28. CASE Restart
  BY <1>28 DEF Restart
<1>29. ASSUME NEW u \in Users,
                  CheckStart(u) \/ CheckReplan(u) \/ CheckApprove(u) \/ CheckStop(u)
               \/ CheckResume(u) \/ CheckUpdatePlan(u) \/ CheckDelete(u)
      PROVE  WorkGoesOn'
  BY <1>1, <1>29 DEF CheckStart, CheckReplan, CheckApprove, CheckStop, CheckResume,
     CheckUpdatePlan, CheckDelete
<1> QED
  BY <1>1, <1>2, <1>3, <1>4, <1>5, <1>6, <1>7, <1>8, <1>9, <1>10, <1>11, <1>12, <1>13,
     <1>14, <1>15, <1>16, <1>17, <1>18, <1>19, <1>20, <1>21, <1>22, <1>23, <1>24, <1>25,
     <1>26, <1>27, <1>28, <1>29
  DEF Next, NewRequest, RequestStep, PlannerStep, ExecutorStep

-----------------------------------------------------------------------------
LEMMA InitKeeps == Init => LifecycleInv
<1> SUFFICES ASSUME Init
             PROVE  LifecycleInv
  OBVIOUS
<1> USE DEF Init
<1>1. Executors = {} /\ Planners = {} /\ Pending = {}
  BY DEF Executors, Planners, Pending
<1>2. TypeOK
  <2>1. plans \in Seq({"draft", "planned", "approved", "modified"})
    OBVIOUS
  <2> QED
    BY <1>1, <2>1 DEF TypeOK, TaskStatuses, RequestStates
<1>3. JobsMatchSteps
  BY DEF JobsMatchSteps
<1>4. \A u \in Users : request[u].op = "none" /\ request[u].step = "none"
  BY DEF Idle
<1>5. OneAtATime /\ ReadsAreFresh /\ ExecutionIsKnown
  BY <1>1, <1>4 DEF OneAtATime, ReadsAreFresh, ExecutionIsKnown
<1>6. PlanningIsMarked /\ QuestionsComeLast /\ ApprovalStays
  BY <1>1, <1>4 DEF PlanningIsMarked, QuestionsComeLast, ApprovalStays
<1>7. PausedIsQuiet /\ WorkGoesOn
  BY <1>1 DEF PausedIsQuiet, WorkGoesOn
<1> QED
  BY <1>2, <1>3, <1>5, <1>6, <1>7 DEF LifecycleInv

LEMMA Stutters == LifecycleInv /\ UNCHANGED vars => LifecycleInv'
<1> SUFFICES ASSUME LifecycleInv, UNCHANGED vars
             PROVE  LifecycleInv'
  OBVIOUS
<1> USE DEF vars, taskVars, goVars, ctxVars
<1>1. Executors' = Executors /\ Planners' = Planners /\ Pending' = Pending /\ Quiet' = Quiet
  BY DEF Executors, Planners, Pending, Quiet
<1>2. TypeOK' /\ JobsMatchSteps'
  BY <1>1 DEF LifecycleInv, TypeOK, JobsMatchSteps
<1>3. OneAtATime' /\ ReadsAreFresh' /\ ExecutionIsKnown'
  BY <1>1 DEF LifecycleInv, OneAtATime, ReadsAreFresh, ExecutionIsKnown
<1>4. PlanningIsMarked' /\ QuestionsComeLast' /\ ApprovalStays'
  BY <1>1 DEF LifecycleInv, PlanningIsMarked, QuestionsComeLast, ApprovalStays
<1>5. PausedIsQuiet' /\ WorkGoesOn'
  BY <1>1 DEF LifecycleInv, PausedIsQuiet, WorkGoesOn
<1> QED
  BY <1>2, <1>3, <1>4, <1>5 DEF LifecycleInv

\* The inductive invariant: for patient users, one request, one execution and one
\* planner at a time, each of them known and with what it has read still true.
THEOREM Invariance == Spec => []LifecycleInv
<1>1. LifecycleInv /\ [Next]_vars => LifecycleInv'
  BY Stutters, TypeStep, OneAtATimeStep, ReadsAreFreshStep, ExecutionIsKnownStep,
     PlanningIsMarkedStep, QuestionsComeLastStep, ApprovalStaysStep, PausedIsQuietStep,
     WorkGoesOnStep
  DEF LifecycleInv
<1>2. QED
  BY InitKeeps, <1>1, PTL DEF Spec

\* A patient user's execution works on the plan as it was approved (README.md:209),
\* for any number of users, plans and goroutines, through failures and restarts.
THEOREM ApprovedPlanOnly == Spec => []WorksOnApprovedPlan
<1>1. LifecycleInv => WorksOnApprovedPlan
  <2> SUFFICES ASSUME LifecycleInv, manner = "patient", NEW w \in Executors,
                      at[w] \in {"executing", "completing"}, w \notin cancelled
               PROVE  chosen[w] \in DOMAIN plans /\ plans[chosen[w]] = "approved"
    BY DEF WorksOnApprovedPlan
  <2>1. status = "running" /\ chosen[w] = GetPlanByTask
    BY DEF LifecycleInv, ExecutionIsKnown
  <2>2. plans # <<>> /\ plans[GetPlanByTask] = "approved"
    BY <2>1 DEF LifecycleInv, ApprovalStays
  <2>3. GetPlanByTask \in DOMAIN plans
    BY <2>2 DEF GetPlanByTask, LifecycleInv, TypeOK
  <2> QED
    BY <2>1, <2>2, <2>3
<1>2. QED
  BY Invariance, <1>1, PTL

\* A patient user who has stopped a task has stopped its execution (manager.go:196).
THEOREM QuietWhenPaused == Spec => []PausedIsQuiet
<1>1. LifecycleInv => PausedIsQuiet
  BY DEF LifecycleInv
<1>2. QED
  BY Invariance, <1>1, PTL

\* Without a restart, a failed statement or a repeated question, nobody is left in
\* "planning" or "running" without anybody at work, be the users as hasty as they like.
THEOREM NobodyIsForgotten == Spec => []NobodyForgotten
<1>1. LifecycleInv => NobodyForgotten
  BY DEF LifecycleInv, WorkGoesOn, NobodyForgotten, Quiet
<1>2. QED
  BY Invariance, <1>1, PTL

Follows ==
  manner = "patient" /\ status' # status =>
    \/ canTransition(status, status')
    \/ status = "planned" /\ status' = "planning"
    \/ status \in {"completed", "failed"} /\ status' = "paused"
    \/ status' = "deleted"

LEMMA StepFollows == LifecycleInv /\ [Next]_vars => Follows
<1> SUFFICES ASSUME LifecycleInv, Next, manner = "patient", status' # status
             PROVE  Follows
  BY DEF Follows, vars, taskVars
<1> USE DEF Follows, canTransition, validTransitions, TaskStatuses, SetStatus
<1>0. TypeOK /\ ReadsAreFresh /\ ExecutionIsKnown /\ PlanningIsMarked /\ GoTypes
  BY DEF LifecycleInv, TypeOK, GoTypes
<1>1. ASSUME NEW u \in Users, StartPlanner(u) PROVE Follows
  <2>1. status' = "planning" /\ status \in {"created", "failed", "planned"}
    BY <1>0, <1>1 DEF StartPlanner, At, ReadsAreFresh
  <2> QED
    BY <2>1
<1>2. ASSUME NEW u \in Users, ApproveTask(u) PROVE Follows
  <2>1. status' = "approved" /\ status = "planned"
    BY <1>0, <1>2 DEF ApproveTask, At, ReadsAreFresh
  <2> QED
    BY <2>1
<1>3. ASSUME NEW u \in Users, StartExecutor(u) PROVE Follows
  <2>1. status' = "running" /\ status \in {"approved", "paused"}
    BY <1>0, <1>3 DEF StartExecutor, At, ReadsAreFresh
  <2> QED
    BY <2>1
<1>4. ASSUME NEW u \in Users, PauseTask(u) PROVE Follows
  <2>1. status' = "paused" /\ status \in {"running", "completed", "failed"}
    BY <1>0, <1>4 DEF PauseTask, At, ReadsAreFresh
  <2> QED
    BY <2>1
<1>5. ASSUME NEW u \in Users, DeleteTask(u) PROVE Follows
  BY <1>5 DEF DeleteTask
<1>6. ASSUME NEW w \in Goroutines, FinishPlanning(w) PROVE Follows
  <2>1. w \in Planners
    BY <1>0, <1>6, Kinds DEF FinishPlanning, Return, PlannerSteps
  <2>2. status' = "planned" /\ status = "planning"
    BY <1>0, <1>6, <2>1 DEF FinishPlanning, PlanningIsMarked
  <2> QED
    BY <2>2
<1>7. ASSUME NEW w \in Goroutines, CompleteTask(w) PROVE Follows
  <2>1. w \in Executors /\ at[w] = "completing" /\ w \notin cancelled
    BY <1>0, <1>7, Kinds DEF CompleteTask, Move, ExecutorSteps, Writes
  <2>2. status' = "completed" /\ status = "running"
    BY <1>0, <1>7, <2>1 DEF CompleteTask, ExecutionIsKnown
  <2> QED
    BY <2>2
<1>8. ASSUME NEW w \in Goroutines, FailTask(w) PROVE Follows
  <2>1. status' = "failed" /\ w \notin cancelled /\ at[w] = "failing" /\ status # "deleted"
    BY <1>8 DEF FailTask, Move, Return, Writes
  <2>2. w \in Planners \cup Executors
    BY <1>0, <2>1, Kinds
  <2>3. CASE w \in Planners
    <3>1. status = "planning"
      BY <1>0, <2>1, <2>3 DEF PlanningIsMarked
    <3> QED
      BY <2>1, <3>1
  <2>4. CASE w \in Executors
    <3>1. status = "running"
      BY <1>0, <2>1, <2>4 DEF ExecutionIsKnown
    <3> QED
      BY <2>1, <3>1
  <2> QED
    BY <2>2, <2>3, <2>4
<1> HIDE DEF Follows, canTransition, validTransitions, TaskStatuses, SetStatus
<1>9. ASSUME NEW u \in Users, NewRequest(u) PROVE UNCHANGED status
  BY <1>9 DEF NewRequest, Check, CheckStart, CheckReplan, CheckApprove, CheckStop,
     CheckResume, CheckUpdatePlan, CheckDelete, AnswerQuestion, taskVars
<1>10. ASSUME NEW u \in Users,
              \/ ApprovePlan(u) \/ CancelExecution(u) \/ UpdatePlan(u)
              \/ PlanWithAnswers(u) \/ Abort(u)
       PROVE  UNCHANGED status
  BY <1>10 DEF ApprovePlan, CancelExecution, UpdatePlan, PlanWithAnswers, Abort, taskVars
<1>11. ASSUME NEW w \in Goroutines,
              \/ PlannerFindsNoTask(w) \/ PlannerFails(w) \/ LeaveQuestions(w)
              \/ PersistPlan(w) \/ UpdatePlanStatus(w)
              \/ \E q \in Questions : AskQuestion(w, q)
       PROVE  UNCHANGED status
  BY <1>11 DEF PlannerFindsNoTask, PlannerFails, LeaveQuestions, PersistPlan,
     UpdatePlanStatus, AskQuestion, taskVars
<1>12. ASSUME NEW w \in Goroutines,
              \/ Register(w) \/ ExecutorFindsNoTask(w) \/ ExecutorFails(w) \/ ReadPlan(w)
              \/ FinishExecution(w) \/ Leave(w)
       PROVE  UNCHANGED status
  BY <1>12 DEF Register, ExecutorFindsNoTask, ExecutorFails, ReadPlan, FinishExecution,
     Leave, taskVars
<1>13. CASE Restart
  BY <1>13 DEF Restart, taskVars
<1> QED
  BY <1>1, <1>2, <1>3, <1>4, <1>5, <1>6, <1>7, <1>8, <1>9, <1>10, <1>11, <1>12, <1>13
  DEF Next, RequestStep, PlannerStep, ExecutorStep

\* The status of a patient user's task moves as validTransitions says
\* (manager.go:65-73), but for a replan, a deletion and a Stop that was too late.
THEOREM TransitionsFollowed == Spec => FollowsTransitions
<1>1. LifecycleInv /\ [Next]_vars => [Follows]_vars
  BY StepFollows
<1>2. Spec => [][Follows]_vars
  BY Invariance, <1>1, PTL DEF Spec
<1>3. QED
  BY <1>2 DEF FollowsTransitions, Follows

==============================================================================
