---------------------------- MODULE ExecutorProofs ----------------------------
(***************************************************************************)
(* Theorems about SequentialExecutor, for any plan, any number of runs and *)
(* any faults.                                                             *)
(***************************************************************************)
EXTENDS SequentialExecutor, FiniteSetTheorems, TLAPS

\* From the begin of a subtask to its end.
AtSubtask == {"beginning", "recorded", "created", "unstarted", "waiting", "stopping", "ended",
              "succeeding", "failing"}

\* The run has a copy of the plan.
HasRead == AtSubtask \cup {"looping", "leaving"}

\* The subtask at hand has had its container, and no other run's.
HadContainer == {"created", "unstarted", "waiting", "stopping", "ended", "succeeding"}

\* What a run has passed is completed in its copy; it starts at the first.
PassedIsCompleted ==
  \A e \in Runs :
    /\ at[e] \notin HasRead => next[e] = 1
    /\ at[e] \in AtSubtask => next[e] \in DOMAIN order /\ mem[e][Cur(e)] = "running"
    /\ \A i \in 1 .. next[e] - 1 : mem[e][order[i]] = "completed"

\* The verdict on a container is that of its exit.
VerdictIsExit ==
  \A e \in Runs :
    /\ at[e] \in {"created", "unstarted"} => Container(e) = "created"
    /\ at[e] = "waiting" => Container(e) \in {"running", "succeeded", "failed"}
    /\ at[e] = "ended" /\ good[e] => Container(e) = "succeeded"
    /\ at[e] = "succeeding" => Container(e) \in {"succeeded", "none"}

\* Who succeeded has left changes in the workspace, or had them overwritten.
Kept == work \cup lost
SuccessIsKept ==
  \A e \in Runs :
    /\ \A s \in Subtasks :
         /\ mem[e][s] = "completed" => s \in Kept
         /\ container[e][s] = "succeeded" => s \in Kept
    /\ at[e] = "succeeding" => Cur(e) \in Kept

\* As long as each Stop cancels the run there is, runs that are not cancelled are the
\* latest, and a task that is or will be paused has none.
Active(e) == e \notin cancelled /\ at[e] \notin {NotLaunched, "over"}
OnlyLatestActive ==
  /\ status = "paused" => stop = "idle"
  /\ ~missed => /\ \A e, f \in Runs : Active(e) /\ Active(f) => e = f
                /\ status = "paused" \/ stop = "cancelled" => \A e \in Runs : ~Active(e)

Orderly == ~missed /\ ~unstored

\* The active run has the plan as it is stored.
CopyIsPlan == Orderly => \A e \in Runs : Active(e) /\ at[e] \in HasRead => mem[e] = plan

OneNameOneContainer ==
  /\ \A e, f \in Runs, s \in Subtasks :
       container[e][s] # "none" /\ container[f][s] # "none" => e = f
  /\ ~missed => \A e, f \in Runs :
       Active(e) /\ at[e] \in HadContainer /\ container[f][Cur(e)] # "none" => e = f

\* A container is for a subtask before which all are completed, and unless it has ended
\* the subtask itself is not.
ContainersInOrder ==
  Orderly =>
    \A e \in Runs, i \in DOMAIN order :
      container[e][order[i]] # "none" =>
        /\ \A j \in 1 .. i - 1 : plan[order[j]] = "completed"
        /\ container[e][order[i]] \in {"created", "running"} => plan[order[i]] # "completed"

OnlyListed == \A e \in Runs, s \in Subtasks : container[e][s] # "none" => \E i \in DOMAIN order : s = order[i]

ExecutorInv ==
  /\ TypeOK  /\ PassedIsCompleted /\ VerdictIsExit /\ SuccessIsKept /\ CompletedIsInWorkspace
  /\ ContainersAreOwned /\ OnlyLatestActive /\ CopyIsPlan /\ OneNameOneContainer /\ ContainersInOrder
  /\ OnlyListed
-----------------------------------------------------------------------------
\* The plan is a list of subtasks without repetitions.
LEMMA OrderIsList ==
  ASSUME TypeOK
  PROVE  /\ Len(order) \in Nat /\ DOMAIN order = 1 .. Len(order)
         /\ \A i \in DOMAIN order : order[i] \in Subtasks
         /\ \A i, j \in DOMAIN order : order[i] = order[j] => i = j
<1>1. order \in Seq(Subtasks) /\ \A i, j \in DOMAIN order : order[i] = order[j] => i = j
  BY ExecutorAssumption DEF TypeOK
<1> QED BY <1>1

\* A run at work is at one of them.
LEMMA CurIsSubtask ==
  ASSUME TypeOK, PassedIsCompleted
  PROVE  \A e \in Runs : at[e] \in AtSubtask => Cur(e) \in Subtasks
BY OrderIsList DEF PassedIsCompleted, Cur

\* Faults are counted up to the bound.
LEMMA FaultsStayBounded ==
  ASSUME TypeOK
  PROVE  /\ UNCHANGED faults => faults' \in 0 .. MaxFaults
         /\ \A kind : Fault(kind) => faults' \in 0 .. MaxFaults
BY ExecutorAssumption DEF TypeOK, Fault

ContainerTypes == [Runs -> [Subtasks -> {"none", "created", "running", "succeeded", "failed"}]]

\* One container is changed at a time.
LEMMA ContainersAreTyped ==
  ASSUME TypeOK, PassedIsCompleted, NEW e \in Runs, at[e] \in AtSubtask
  PROVE  /\ ContainerTypes # {} /\ (UNCHANGED container => container' \in ContainerTypes)
         /\ \A w \in {"none", "created", "running", "succeeded", "failed"} :
              SetContainer(e, w) => container' \in ContainerTypes
         /\ \A b \in BOOLEAN : RemoveContainer(e, b) =>
              container' \in ContainerTypes /\ faults' \in 0 .. MaxFaults /\ stray' \in BOOLEAN
<1>1. Cur(e) \in Subtasks /\ container \in ContainerTypes
  BY CurIsSubtask DEF TypeOK, ContainerTypes
<1>2. UNCHANGED container => container' \in ContainerTypes
  BY <1>1
<1>3. ASSUME NEW w \in {"none", "created", "running", "succeeded", "failed"}, SetContainer(e, w)
      PROVE  container' \in ContainerTypes
  <2>1. [container[e] EXCEPT ![Cur(e)] = w]
          \in [Subtasks -> {"none", "created", "running", "succeeded", "failed"}]
    BY <1>1, <1>3 DEF ContainerTypes
  <2> QED BY <1>1, <1>3, <2>1 DEF SetContainer, ContainerTypes
<1>4. ASSUME NEW b \in BOOLEAN, RemoveContainer(e, b)
      PROVE  container' \in ContainerTypes /\ faults' \in 0 .. MaxFaults /\ stray' \in BOOLEAN
  <2>1. container' \in ContainerTypes
    BY <1>2, <1>3, <1>4 DEF RemoveContainer
  <2>2. faults' \in 0 .. MaxFaults
    BY <1>4, FaultsStayBounded DEF RemoveContainer, CallFails, CallWorks
  <2>3. stray' \in BOOLEAN
    BY <1>4 DEF RemoveContainer, TypeOK
  <2> QED BY <2>1, <2>2, <2>3
<1> QED BY <1>1, <1>2, <1>3, <1>4

\* The plan is written as a run has it, or not at all.
LEMMA PlanIsTyped ==
  ASSUME TypeOK, NEW e \in Runs, NEW statuses \in [Subtasks -> SubtaskWords],
         UpdatePlanSubtasks(e, statuses)
  PROVE  plan' \in [Subtasks -> SubtaskWords] /\ faults' \in 0 .. MaxFaults /\ unstored' \in BOOLEAN
<1>1. plan' \in [Subtasks -> SubtaskWords]
  BY DEF UpdatePlanSubtasks, TypeOK
<1>2. faults' \in 0 .. MaxFaults
  BY FaultsStayBounded DEF UpdatePlanSubtasks, CallFails, CallWorks
<1>3. unstored' \in BOOLEAN
  BY DEF UpdatePlanSubtasks, TypeOK
<1> QED BY <1>1, <1>2, <1>3

\* A run changes the status of one subtask in its copy.
LEMMA CopiesAreTyped ==
  ASSUME TypeOK, NEW e \in Runs, NEW s \in Subtasks, NEW w \in SubtaskWords,
         mem' = [mem EXCEPT ![e][s] = w]
  PROVE  mem' \in [Runs -> [Subtasks -> SubtaskWords]] /\ mem'[e] \in [Subtasks -> SubtaskWords]
<1>1. mem \in [Runs -> [Subtasks -> SubtaskWords]]
  BY DEF TypeOK
<1>2. [mem[e] EXCEPT ![s] = w] \in [Subtasks -> SubtaskWords]
  BY <1>1
<1> QED BY <1>1, <1>2

\* The variables keep their types.
LEMMA Typed ==
  ASSUME TypeOK, PassedIsCompleted, [Next]_vars
  PROVE  TypeOK'
<1> USE ExecutorAssumption, CurIsSubtask, OrderIsList
        DEF TypeOK, database, local, history, Go, AtSubtask, Looping, Steps
<1>1. ASSUME NEW e \in Runs, Register(e)
      PROVE  TypeOK'
  BY <1>1 DEF Register
<1>2. ASSUME NEW e \in Runs, ReadPlan(e)
      PROVE  TypeOK'
  <2>1. mem' \in [Runs -> [Subtasks -> SubtaskWords]]
    <3>1. CASE mem' = [mem EXCEPT ![e] = plan]
      BY ONLY <3>1, TypeOK, e \in Runs DEF TypeOK
    <3>2. CASE UNCHANGED mem
      BY <3>2
    <3> QED BY <1>2, <3>1, <3>2 DEF ReadPlan
  <2>2. at' \in [Runs -> Steps]
    <3>1. PICK step \in {"leaving", "looping"} : at' = [at EXCEPT ![e] = step]
      BY <1>2 DEF ReadPlan
    <3> QED BY <3>1
  <2> QED BY <1>2, <2>1, <2>2 DEF ReadPlan
<1>3. ASSUME NEW e \in Runs, LoopCancelled(e)
      PROVE  TypeOK'
  <2>1. faults' \in 0 .. MaxFaults
    BY <1>3, FaultsStayBounded DEF LoopCancelled, CallFails, CallWorks
  <2> QED BY <1>3, <2>1 DEF LoopCancelled
<1>4. ASSUME NEW e \in Runs, LoopEnds(e)
      PROVE  TypeOK'
  BY <1>4 DEF LoopEnds
<1>5. ASSUME NEW e \in Runs, SkipCompleted(e)
      PROVE  TypeOK'
  BY <1>5 DEF SkipCompleted
<1>6. ASSUME NEW e \in Runs, DependenciesNotMet(e)
      PROVE  TypeOK'
  BY <1>6 DEF DependenciesNotMet
<1>7. ASSUME NEW e \in Runs, BeginSubtask(e)
      PROVE  TypeOK'
  <2>1. Cur(e) \in Subtasks /\ "running" \in SubtaskWords
    BY <1>7, OrderIsList DEF BeginSubtask, SubtaskWords, Cur
  <2>2. mem' \in [Runs -> [Subtasks -> SubtaskWords]] /\ mem'[e] \in [Subtasks -> SubtaskWords]
    BY <1>7, <2>1, CopiesAreTyped DEF BeginSubtask
  <2>3. faults' \in 0 .. MaxFaults /\ unstored' \in BOOLEAN /\ plan' \in [Subtasks -> SubtaskWords]
    BY <1>7, <2>2, PlanIsTyped DEF BeginSubtask
  <2> QED BY <1>7, <2>2, <2>3 DEF BeginSubtask
<1>8. ASSUME NEW e \in Runs, CreateAgent(e)
      PROVE  TypeOK'
  <2>1. faults' \in 0 .. MaxFaults
    BY <1>8, FaultsStayBounded DEF CreateAgent, CallFails, CallWorks
  <2>2. PICK step \in {"recorded", "failing"} : at' = [at EXCEPT ![e] = step]
    BY <1>8 DEF CreateAgent
  <2>3. at' \in [Runs -> Steps]
    BY <2>2
  <2> QED BY <1>8, <2>1, <2>3 DEF CreateAgent
<1>9. ASSUME NEW e \in Runs, CreateContainer(e)
      PROVE  TypeOK'
  <2>1. at[e] \in AtSubtask
    BY <1>9 DEF CreateContainer
  <2>2. container' \in ContainerTypes
    BY <1>9, <2>1, ContainersAreTyped DEF CreateContainer
  <2>3. faults' \in 0 .. MaxFaults
    BY <1>9, FaultsStayBounded DEF CreateContainer, CallFails, CallWorks
  <2>4. PICK step \in {"created", "failing"} : at' = [at EXCEPT ![e] = step]
    BY <1>9 DEF CreateContainer
  <2>5. at' \in [Runs -> Steps]
    BY <2>4
  <2> QED BY ONLY <1>9, TypeOK, <2>2, <2>3, <2>5 DEF CreateContainer, ContainerTypes, TypeOK,
                  database, history
<1>10. ASSUME NEW e \in Runs, StartContainer(e)
      PROVE  TypeOK'
  <2>1. at[e] \in AtSubtask
    BY <1>10 DEF StartContainer
  <2>2. container' \in ContainerTypes
    BY <1>10, <2>1, ContainersAreTyped DEF StartContainer
  <2>3. faults' \in 0 .. MaxFaults
    BY <1>10, FaultsStayBounded DEF StartContainer, CallFails, CallWorks
  <2> QED BY <1>10, <2>2, <2>3 DEF StartContainer, ContainerTypes
<1>11. ASSUME NEW e \in Runs, StartContainerFails(e)
      PROVE  TypeOK'
  <2>1. faults' \in 0 .. MaxFaults
    BY <1>11, FaultsStayBounded DEF StartContainerFails, CallFails, CallWorks
  <2> QED BY <1>11, <2>1 DEF StartContainerFails
<1>12. ASSUME NEW e \in Runs, UndoStart(e)
      PROVE  TypeOK'
  <2>1. RemoveContainer(e, FALSE) /\ at[e] \in AtSubtask
    BY <1>12 DEF UndoStart
  <2>2. container' \in ContainerTypes /\ faults' \in 0 .. MaxFaults /\ stray' \in BOOLEAN
    BY <2>1, ContainersAreTyped
  <2> QED BY <1>12, <2>2 DEF UndoStart, ContainerTypes
<1>13. ASSUME NEW e \in Runs, WaitCancelled(e)
      PROVE  TypeOK'
  BY <1>13 DEF WaitCancelled
<1>14. ASSUME NEW e \in Runs, WaitExit(e)
      PROVE  TypeOK'
  BY <1>14 DEF WaitExit
<1>15. ASSUME NEW e \in Runs, WaitError(e)
      PROVE  TypeOK'
  <2>1. faults' \in 0 .. MaxFaults
    BY <1>15, FaultsStayBounded DEF WaitError, CallFails, CallWorks
  <2> QED BY <1>15, <2>1 DEF WaitError
<1>16. ASSUME NEW e \in Runs, StopContainer(e)
      PROVE  TypeOK'
  <2>1. RemoveContainer(e, TRUE) /\ at[e] \in AtSubtask
    BY <1>16 DEF StopContainer
  <2>2. container' \in ContainerTypes /\ faults' \in 0 .. MaxFaults /\ stray' \in BOOLEAN
    BY <2>1, ContainersAreTyped
  <2> QED BY <1>16, <2>2 DEF StopContainer, ContainerTypes
<1>17. ASSUME NEW e \in Runs, CleanUp(e)
      PROVE  TypeOK'
  <2>1. RemoveContainer(e, FALSE) /\ at[e] \in AtSubtask
    BY <1>17 DEF CleanUp
  <2>2. container' \in ContainerTypes /\ faults' \in 0 .. MaxFaults /\ stray' \in BOOLEAN
    BY <2>1, ContainersAreTyped
  <2> QED BY <1>17, <2>2 DEF CleanUp, ContainerTypes
<1>18. ASSUME NEW e \in Runs, CompleteSubtask(e)
      PROVE  TypeOK'
  <2>1. Cur(e) \in Subtasks /\ "completed" \in SubtaskWords
    BY <1>18 DEF CompleteSubtask, SubtaskWords
  <2>2. mem' \in [Runs -> [Subtasks -> SubtaskWords]] /\ mem'[e] \in [Subtasks -> SubtaskWords]
    BY <1>18, <2>1, CopiesAreTyped DEF CompleteSubtask
  <2>3. faults' \in 0 .. MaxFaults /\ unstored' \in BOOLEAN /\ plan' \in [Subtasks -> SubtaskWords]
    BY <1>18, <2>2, PlanIsTyped DEF CompleteSubtask
  <2>4. next' \in [Runs -> 1 .. Len(order) + 1]
    <3>1. next[e] \in 1 .. Len(order)
      BY <1>18 DEF CompleteSubtask, PassedIsCompleted
    <3> QED BY <1>18, <3>1 DEF CompleteSubtask
  <2> QED BY <1>18, <2>2, <2>3, <2>4 DEF CompleteSubtask
<1>19. ASSUME NEW e \in Runs, FailSubtask(e)
      PROVE  TypeOK'
  <2>1. Cur(e) \in Subtasks /\ "failed" \in SubtaskWords
    BY <1>19 DEF FailSubtask, SubtaskWords
  <2>2. mem' \in [Runs -> [Subtasks -> SubtaskWords]] /\ mem'[e] \in [Subtasks -> SubtaskWords]
    BY <1>19, <2>1, CopiesAreTyped DEF FailSubtask
  <2>3. faults' \in 0 .. MaxFaults /\ unstored' \in BOOLEAN /\ plan' \in [Subtasks -> SubtaskWords]
    BY <1>19, <2>2, PlanIsTyped DEF FailSubtask
  <2> QED BY <1>19, <2>2, <2>3 DEF FailSubtask
<1>20. ASSUME NEW e \in Runs, Leave(e)
      PROVE  TypeOK'
  <2>1. mem' \in [Runs -> [Subtasks -> SubtaskWords]]
    BY <1>20 DEF Leave, SubtaskWords
  <2> QED BY <1>20, <2>1 DEF Leave
<1>21. ASSUME NEW e \in Runs, AutoSave(e)
      PROVE  TypeOK'
  BY <1>21 DEF AutoSave
<1>22. ASSUME NEW e \in Runs, NEW s \in Subtasks, Exit(e, s)
      PROVE  TypeOK'
  <2>1. container' \in ContainerTypes
    <3>1. container \in ContainerTypes
      BY DEF ContainerTypes
    <3>2. ASSUME NEW w \in {"succeeded", "failed"}, container' = [container EXCEPT ![e][s] = w]
          PROVE  container' \in ContainerTypes
      <4>1. [container[e] EXCEPT ![s] = w] \in [Subtasks -> {"none", "created", "running", "succeeded", "failed"}]
        BY <3>1, <3>2 DEF ContainerTypes
      <4> QED BY <3>1, <3>2, <4>1 DEF ContainerTypes
    <3> QED BY <1>22, <3>2 DEF Exit
  <2> QED BY <1>22, <2>1 DEF Exit, ContainerTypes
<1>23. CASE StopSaves
  <2>1. faults' \in 0 .. MaxFaults
    BY <1>23, FaultsStayBounded DEF StopSaves
  <2>2. {work} \subseteq SUBSET Subtasks
    OBVIOUS
  <2>3. checkpoint' \subseteq SUBSET Subtasks /\ hasState' \in BOOLEAN
    <3>1. CASE checkpoint' = {work} /\ hasState' = TRUE
      BY <3>1, <2>2
    <3>2. CASE UNCHANGED <<checkpoint, hasState>>
      BY <3>2
    <3> QED BY <1>23, <3>1, <3>2 DEF StopSaves
  <2> QED BY <1>23, <2>1, <2>3 DEF StopSaves
<1>24. CASE StopCancels
  BY <1>24 DEF StopCancels
<1>25. CASE StopPauses
  BY <1>25 DEF StopPauses
<1>26. CASE Resume
  BY <1>26 DEF Resume, RestoreWorkspace
<1>27. CASE UNCHANGED vars
  BY <1>27 DEF vars
<1> QED BY <1>1, <1>2, <1>3, <1>4, <1>5, <1>6, <1>7, <1>8, <1>9, <1>10, <1>11, <1>12,
           <1>13, <1>14, <1>15, <1>16, <1>17, <1>18, <1>19, <1>20, <1>21, <1>22, <1>23, <1>24, <1>25,
           <1>26, <1>27 DEF Next, Step

\* A call changes the container of the subtask at hand, if any.
LEMMA OneContainerChanges ==
  ASSUME TypeOK, PassedIsCompleted, NEW e \in Runs, at[e] \in AtSubtask
  PROVE  /\ \A w : SetContainer(e, w) =>
              \A f \in Runs, s \in Subtasks :
                container'[f][s] = IF f = e /\ s = Cur(e) THEN w ELSE container[f][s]
         /\ \A b \in BOOLEAN : RemoveContainer(e, b) =>
              /\ \A f \in Runs, s \in Subtasks :
                   \/ container'[f][s] = container[f][s]
                   \/ f = e /\ s = Cur(e) /\ container'[f][s] = "none"
              /\ container'[e][Cur(e)] = "none" \/ e \in cancelled \/ stray'
              /\ stray => stray'
<1>1. Cur(e) \in Subtasks /\ container \in ContainerTypes
  BY CurIsSubtask DEF TypeOK, ContainerTypes
<1>2. ASSUME NEW w, SetContainer(e, w), NEW f \in Runs, NEW s \in Subtasks
      PROVE  container'[f][s] = IF f = e /\ s = Cur(e) THEN w ELSE container[f][s]
  BY <1>1, <1>2 DEF SetContainer, ContainerTypes
<1>3. ASSUME NEW b \in BOOLEAN, RemoveContainer(e, b)
      PROVE  /\ \A f \in Runs, s \in Subtasks :
                  \/ container'[f][s] = container[f][s]
                  \/ f = e /\ s = Cur(e) /\ container'[f][s] = "none"
             /\ container'[e][Cur(e)] = "none" \/ e \in cancelled \/ stray'
             /\ stray => stray'
  <2>1. CASE SetContainer(e, "none") /\ UNCHANGED stray
    BY <2>1, <1>1, <1>2
  <2>2. CASE UNCHANGED container /\ stray' = (stray \/ e \notin cancelled \/ b)
    BY <2>2
  <2> QED BY <1>3, <2>1, <2>2 DEF RemoveContainer
<1> QED BY <1>2, <1>3

\* What a run has passed stays completed in its copy.
LEMMA PassedStaysCompleted ==
  ASSUME TypeOK, PassedIsCompleted, [Next]_vars
  PROVE  PassedIsCompleted'
<1> USE ExecutorAssumption, CurIsSubtask, OrderIsList
        DEF TypeOK, PassedIsCompleted, database, local, history, Go, AtSubtask, HasRead,
            Looping, Cur, Steps
<1>1. ASSUME NEW e \in Runs, Register(e)
      PROVE  PassedIsCompleted'
  BY <1>1 DEF Register
<1>2. ASSUME NEW e \in Runs, ReadPlan(e)
      PROVE  PassedIsCompleted'
  <2>1. at[e] = "registered" /\ UNCHANGED <<order, next, container, work, lost, plan, cancelled, stray>>
    BY <1>2 DEF ReadPlan, history, database
  <2>2. PICK step \in {"leaving", "looping"} : at' = [at EXCEPT ![e] = step]
    BY <1>2 DEF ReadPlan, Go
  <2>3. \A f \in Runs : mem'[f] = mem[f] \/ (f = e /\ mem'[e] = plan)
    <3>1. mem \in [Runs -> [Subtasks -> SubtaskWords]]
      BY DEF TypeOK
    <3>2. CASE mem' = [mem EXCEPT ![e] = plan]
      BY ONLY <3>1, <3>2, e \in Runs
    <3>3. CASE UNCHANGED mem
      BY ONLY <3>3
    <3> QED BY ONLY <1>2, <3>2, <3>3 DEF ReadPlan
  <2>4. next[e] = 1
    BY <2>1 DEF PassedIsCompleted, AtSubtask, HasRead
  <2> QED BY ONLY <2>1, <2>4, <2>2, <2>3, e \in Runs, TypeOK, PassedIsCompleted, plan \in [Subtasks
                  -> SubtaskWords]
           DEF PassedIsCompleted, TypeOK, AtSubtask, HasRead, Cur
<1>3. ASSUME NEW e \in Runs, LoopCancelled(e)
      PROVE  PassedIsCompleted'
  BY <1>3 DEF LoopCancelled
<1>4. ASSUME NEW e \in Runs, LoopEnds(e)
      PROVE  PassedIsCompleted'
  BY <1>4 DEF LoopEnds
<1>5. ASSUME NEW e \in Runs, SkipCompleted(e)
      PROVE  PassedIsCompleted'
  BY <1>5 DEF SkipCompleted
<1>6. ASSUME NEW e \in Runs, DependenciesNotMet(e)
      PROVE  PassedIsCompleted'
  BY <1>6 DEF DependenciesNotMet
<1>7. ASSUME NEW e \in Runs, BeginSubtask(e)
      PROVE  PassedIsCompleted'
  BY <1>7 DEF BeginSubtask
<1>8. ASSUME NEW e \in Runs, CreateAgent(e)
      PROVE  PassedIsCompleted'
  <2>1. at[e] = "beginning" /\ UNCHANGED <<order, next, mem>>
    BY <1>8 DEF CreateAgent
  <2>2. PICK step \in {"recorded", "failing"} : at' = [at EXCEPT ![e] = step]
    BY <1>8 DEF CreateAgent
  <2> QED BY ONLY <2>1, <2>2, e \in Runs, TypeOK, PassedIsCompleted
           DEF TypeOK, PassedIsCompleted, AtSubtask, HasRead, Cur
<1>9. ASSUME NEW e \in Runs, CreateContainer(e)
      PROVE  PassedIsCompleted'
  <2>1. at[e] = "recorded" /\ UNCHANGED <<order, next, mem>>
    BY <1>9 DEF CreateContainer
  <2>2. PICK step \in {"created", "failing"} : at' = [at EXCEPT ![e] = step]
    BY <1>9 DEF CreateContainer
  <2> QED BY ONLY <2>1, <2>2, e \in Runs, TypeOK, PassedIsCompleted
           DEF TypeOK, PassedIsCompleted, AtSubtask, HasRead, Cur
<1>10. ASSUME NEW e \in Runs, StartContainer(e)
      PROVE  PassedIsCompleted'
  BY <1>10 DEF StartContainer
<1>11. ASSUME NEW e \in Runs, StartContainerFails(e)
      PROVE  PassedIsCompleted'
  BY <1>11 DEF StartContainerFails
<1>12. ASSUME NEW e \in Runs, UndoStart(e)
      PROVE  PassedIsCompleted'
  BY <1>12 DEF UndoStart
<1>13. ASSUME NEW e \in Runs, WaitCancelled(e)
      PROVE  PassedIsCompleted'
  BY <1>13 DEF WaitCancelled
<1>14. ASSUME NEW e \in Runs, WaitExit(e)
      PROVE  PassedIsCompleted'
  BY <1>14 DEF WaitExit
<1>15. ASSUME NEW e \in Runs, WaitError(e)
      PROVE  PassedIsCompleted'
  BY <1>15 DEF WaitError
<1>16. ASSUME NEW e \in Runs, StopContainer(e)
      PROVE  PassedIsCompleted'
  BY <1>16 DEF StopContainer
<1>17. ASSUME NEW e \in Runs, CleanUp(e)
      PROVE  PassedIsCompleted'
  BY <1>17 DEF CleanUp
<1>18. ASSUME NEW e \in Runs, CompleteSubtask(e)
      PROVE  PassedIsCompleted'
  BY <1>18 DEF CompleteSubtask
<1>19. ASSUME NEW e \in Runs, FailSubtask(e)
      PROVE  PassedIsCompleted'
  BY <1>19 DEF FailSubtask
<1>20. ASSUME NEW e \in Runs, Leave(e)
      PROVE  PassedIsCompleted'
  BY <1>20 DEF Leave
<1>21. ASSUME NEW e \in Runs, AutoSave(e)
      PROVE  PassedIsCompleted'
  BY <1>21 DEF AutoSave
<1>22. ASSUME NEW e \in Runs, NEW s \in Subtasks, Exit(e, s)
      PROVE  PassedIsCompleted'
  BY <1>22 DEF Exit
<1>23. CASE StopSaves
  BY <1>23 DEF StopSaves
<1>24. CASE StopCancels
  BY <1>24 DEF StopCancels
<1>25. CASE StopPauses
  BY <1>25 DEF StopPauses
<1>26. CASE Resume
  <2>1. UNCHANGED <<order, next, mem>>
    BY <1>26 DEF Resume
  <2>2. PICK e \in Runs : at[e] = NotLaunched /\ at' = [at EXCEPT ![e] = "launched"]
    BY <1>26 DEF Resume
  <2> QED BY ONLY <2>1, <2>2, TypeOK, PassedIsCompleted
           DEF TypeOK, PassedIsCompleted, NotLaunched, AtSubtask, HasRead, Cur
<1>27. CASE UNCHANGED vars
  BY <1>27 DEF vars
<1> QED BY <1>1, <1>2, <1>3, <1>4, <1>5, <1>6, <1>7, <1>8, <1>9, <1>10, <1>11, <1>12,
           <1>13, <1>14, <1>15, <1>16, <1>17, <1>18, <1>19, <1>20, <1>21, <1>22, <1>23, <1>24, <1>25,
           <1>26, <1>27 DEF Next, Step

\* The verdict on a container stays that of its exit.
LEMMA VerdictsStay ==
  ASSUME TypeOK, PassedIsCompleted, VerdictIsExit, [Next]_vars
  PROVE  VerdictIsExit'
<1> USE CurIsSubtask
        DEF TypeOK, VerdictIsExit, database, local, history, Go, AtSubtask, Looping, Container,
            Cur
<1>1. ASSUME NEW e \in Runs, Register(e)
      PROVE  VerdictIsExit'
  BY <1>1 DEF Register
<1>2. ASSUME NEW e \in Runs, ReadPlan(e)
      PROVE  VerdictIsExit'
  BY <1>2 DEF ReadPlan
<1>3. ASSUME NEW e \in Runs, LoopCancelled(e)
      PROVE  VerdictIsExit'
  BY <1>3 DEF LoopCancelled
<1>4. ASSUME NEW e \in Runs, LoopEnds(e)
      PROVE  VerdictIsExit'
  BY <1>4 DEF LoopEnds
<1>5. ASSUME NEW e \in Runs, SkipCompleted(e)
      PROVE  VerdictIsExit'
  BY <1>5 DEF SkipCompleted
<1>6. ASSUME NEW e \in Runs, DependenciesNotMet(e)
      PROVE  VerdictIsExit'
  BY <1>6 DEF DependenciesNotMet
<1>7. ASSUME NEW e \in Runs, BeginSubtask(e)
      PROVE  VerdictIsExit'
  BY <1>7 DEF BeginSubtask
<1>8. ASSUME NEW e \in Runs, CreateAgent(e)
      PROVE  VerdictIsExit'
  BY <1>8 DEF CreateAgent
<1>9. ASSUME NEW e \in Runs, CreateContainer(e)
      PROVE  VerdictIsExit'
  <2>1. /\ at[e] = "recorded" /\ at' \in [Runs -> Steps]
        /\ at'[e] \in {"created", "failing"} /\ \A f \in Runs \ {e} : at'[f] = at[f]
        /\ UNCHANGED <<order, database, work, next, mem, good, cancelled, registered, stop, lost, unstored, missed, stray>>
    BY <1>9 DEF CreateContainer, Go, history, TypeOK, Steps
  <2>2. \A f \in Runs : at[f] \in AtSubtask => Cur(f) \in Subtasks
    BY CurIsSubtask
  <2>3. CASE UNCHANGED container /\ at'[e] = "failing"
    BY ONLY <2>1, <2>2, <2>3, e \in Runs, TypeOK, VerdictIsExit
       DEF VerdictIsExit, TypeOK, AtSubtask, Container, Cur
  <2>4. CASE SetContainer(e, "created") /\ at'[e] = "created" /\ NameIsFree(Cur(e)) /\ e \notin cancelled
    <3>1. \A f \in Runs, s \in Subtasks :
            container'[f][s] = IF f = e /\ s = Cur(e) THEN "created" ELSE container[f][s]
      BY <2>1, <2>4, OneContainerChanges DEF AtSubtask
    <3>2. \A f \in Runs : container[f][Cur(e)] = "none"
      BY <2>4 DEF NameIsFree
    <3> QED BY ONLY <2>1, <2>2, <2>4, <3>1, <3>2, e \in Runs, TypeOK, VerdictIsExit
           DEF VerdictIsExit, TypeOK, AtSubtask, Container, Cur
  <2> QED BY <1>9, <2>1, <2>3, <2>4 DEF CreateContainer, CallWorks, Go, TypeOK
<1>10. ASSUME NEW e \in Runs, StartContainer(e)
      PROVE  VerdictIsExit'
  <2>1. /\ at[e] = "created" /\ at' = [at EXCEPT ![e] = "waiting"] /\ e \notin cancelled
        /\ UNCHANGED <<order, database, work, next, mem, good, cancelled, registered, stop, lost, unstored, missed, stray>>
    BY <1>10 DEF StartContainer, Go, history
  <2>2. \A f \in Runs : at[f] \in AtSubtask => Cur(f) \in Subtasks
    BY CurIsSubtask
  <2>3. \A f \in Runs, s \in Subtasks :
          container'[f][s] = IF f = e /\ s = Cur(e) THEN "running" ELSE container[f][s]
    BY <1>10, <2>1, OneContainerChanges DEF StartContainer, AtSubtask
  <2> QED BY ONLY <2>1, <2>2, <2>3, e \in Runs, TypeOK, VerdictIsExit
           DEF VerdictIsExit, TypeOK, AtSubtask, Container, Cur
<1>11. ASSUME NEW e \in Runs, StartContainerFails(e)
      PROVE  VerdictIsExit'
  BY <1>11 DEF StartContainerFails
<1>12. ASSUME NEW e \in Runs, UndoStart(e)
      PROVE  VerdictIsExit'
  <2>1. /\ at[e] = "unstarted" /\ at' = [at EXCEPT ![e] = "failing"]
        /\ UNCHANGED <<order, database, work, next, mem, good, cancelled, registered, stop, lost, unstored, missed>>
    BY <1>12 DEF UndoStart, Go, database
  <2>2. RemoveContainer(e, FALSE) /\ at[e] \in AtSubtask
    BY <1>12, <2>1 DEF UndoStart, AtSubtask
  <2>3. /\ \A f \in Runs, s \in Subtasks :
             \/ container'[f][s] = container[f][s]
             \/ f = e /\ s = Cur(e) /\ container'[f][s] = "none"
        /\ container'[e][Cur(e)] = "none" \/ e \in cancelled \/ stray'
        /\ stray => stray'
    BY <2>2, OneContainerChanges
  <2>4. \A f \in Runs : at[f] \in AtSubtask => Cur(f) \in Subtasks
    BY CurIsSubtask
  <2> QED BY ONLY <2>1, <2>3, <2>4, e \in Runs, TypeOK, VerdictIsExit
           DEF VerdictIsExit, TypeOK, AtSubtask, Container, Cur
<1>13. ASSUME NEW e \in Runs, WaitCancelled(e)
      PROVE  VerdictIsExit'
  BY <1>13 DEF WaitCancelled
<1>14. ASSUME NEW e \in Runs, WaitExit(e)
      PROVE  VerdictIsExit'
  BY <1>14 DEF WaitExit
<1>15. ASSUME NEW e \in Runs, WaitError(e)
      PROVE  VerdictIsExit'
  BY <1>15 DEF WaitError
<1>16. ASSUME NEW e \in Runs, StopContainer(e)
      PROVE  VerdictIsExit'
  <2>1. /\ at[e] = "stopping" /\ at' = [at EXCEPT ![e] = "failing"]
        /\ UNCHANGED <<order, database, work, next, mem, good, cancelled, registered, stop, lost, unstored, missed>>
    BY <1>16 DEF StopContainer, Go, database
  <2>2. RemoveContainer(e, TRUE) /\ at[e] \in AtSubtask
    BY <1>16, <2>1 DEF StopContainer, AtSubtask
  <2>3. /\ \A f \in Runs, s \in Subtasks :
             \/ container'[f][s] = container[f][s]
             \/ f = e /\ s = Cur(e) /\ container'[f][s] = "none"
        /\ container'[e][Cur(e)] = "none" \/ e \in cancelled \/ stray'
        /\ stray => stray'
    BY <2>2, OneContainerChanges
  <2>4. \A f \in Runs : at[f] \in AtSubtask => Cur(f) \in Subtasks
    BY CurIsSubtask
  <2> QED BY ONLY <2>1, <2>3, <2>4, e \in Runs, TypeOK, VerdictIsExit
           DEF VerdictIsExit, TypeOK, AtSubtask, Container, Cur
<1>17. ASSUME NEW e \in Runs, CleanUp(e)
      PROVE  VerdictIsExit'
  <2>1. /\ at[e] = "ended" /\ at' = [at EXCEPT ![e] = IF good[e] THEN "succeeding" ELSE "failing"]
        /\ UNCHANGED <<order, database, work, next, mem, good, cancelled, registered, stop, lost, unstored, missed>>
    BY <1>17 DEF CleanUp, Go, database
  <2>2. RemoveContainer(e, FALSE) /\ at[e] \in AtSubtask
    BY <1>17, <2>1 DEF CleanUp, AtSubtask
  <2>3. /\ \A f \in Runs, s \in Subtasks :
             \/ container'[f][s] = container[f][s]
             \/ f = e /\ s = Cur(e) /\ container'[f][s] = "none"
        /\ container'[e][Cur(e)] = "none" \/ e \in cancelled \/ stray'
        /\ stray => stray'
    BY <2>2, OneContainerChanges
  <2>4. \A f \in Runs : at[f] \in AtSubtask => Cur(f) \in Subtasks
    BY CurIsSubtask
  <2> QED BY ONLY <2>1, <2>3, <2>4, e \in Runs, TypeOK, VerdictIsExit
           DEF VerdictIsExit, TypeOK, AtSubtask, Container, Cur
<1>18. ASSUME NEW e \in Runs, CompleteSubtask(e)
      PROVE  VerdictIsExit'
  BY <1>18 DEF CompleteSubtask
<1>19. ASSUME NEW e \in Runs, FailSubtask(e)
      PROVE  VerdictIsExit'
  BY <1>19 DEF FailSubtask
<1>20. ASSUME NEW e \in Runs, Leave(e)
      PROVE  VerdictIsExit'
  BY <1>20 DEF Leave
<1>21. ASSUME NEW e \in Runs, AutoSave(e)
      PROVE  VerdictIsExit'
  BY <1>21 DEF AutoSave
<1>22. ASSUME NEW e \in Runs, NEW s \in Subtasks, Exit(e, s)
      PROVE  VerdictIsExit'
  <2>1. /\ container[e][s] = "running" /\ at' = at
        /\ UNCHANGED <<order, database, next, mem, good, cancelled, registered, stop, unstored, missed, stray>>
    BY <1>22 DEF Exit, local
  <2>2. \A f \in Runs : at[f] \in AtSubtask => Cur(f) \in Subtasks
    BY CurIsSubtask
  <2>3. PICK w \in {"succeeded", "failed"} : container' = [container EXCEPT ![e][s] = w]
          /\ (w = "succeeded" => s \in work' \cup lost') /\ work \cup lost \subseteq work' \cup lost'
    BY <1>22 DEF Exit
  <2>4. \A f \in Runs, t \in Subtasks :
          container'[f][t] = IF f = e /\ t = s THEN w ELSE container[f][t]
    BY <2>3, TypeOK DEF TypeOK
  <2> QED BY ONLY <2>1, <2>2, <2>3, <2>4, TypeOK, e \in Runs, s \in Subtasks, TypeOK, VerdictIsExit
           DEF VerdictIsExit, TypeOK, AtSubtask, Container, Cur
<1>23. CASE StopSaves
  BY <1>23 DEF StopSaves
<1>24. CASE StopCancels
  BY <1>24 DEF StopCancels
<1>25. CASE StopPauses
  BY <1>25 DEF StopPauses
<1>26. CASE Resume
  BY <1>26 DEF Resume
<1>27. CASE UNCHANGED vars
  BY <1>27 DEF vars
<1> QED BY <1>1, <1>2, <1>3, <1>4, <1>5, <1>6, <1>7, <1>8, <1>9, <1>10, <1>11, <1>12,
           <1>13, <1>14, <1>15, <1>16, <1>17, <1>18, <1>19, <1>20, <1>21, <1>22, <1>23, <1>24, <1>25,
           <1>26, <1>27 DEF Next, Step

\* Who succeeded has left changes in the workspace or had them overwritten.
LEMMA SuccessStaysKept ==
  ASSUME TypeOK, PassedIsCompleted, VerdictIsExit, SuccessIsKept, CompletedIsInWorkspace, [Next]_vars
  PROVE  SuccessIsKept'
<1> USE CurIsSubtask
        DEF TypeOK, SuccessIsKept, Kept, database, local, history, Go, AtSubtask, Cur
<1>1. ASSUME NEW e \in Runs, Register(e)
      PROVE  SuccessIsKept'
  BY <1>1 DEF Register
<1>2. ASSUME NEW e \in Runs, ReadPlan(e)
      PROVE  SuccessIsKept'
  <2>1. at[e] = "registered" /\ UNCHANGED <<order, next, container, work, lost, plan, cancelled, stray>>
    BY <1>2 DEF ReadPlan, history, database
  <2>2. PICK step \in {"leaving", "looping"} : at' = [at EXCEPT ![e] = step]
    BY <1>2 DEF ReadPlan, Go
  <2>3. \A f \in Runs : mem'[f] = mem[f] \/ (f = e /\ mem'[e] = plan)
    <3>1. mem \in [Runs -> [Subtasks -> SubtaskWords]]
      BY DEF TypeOK
    <3>2. CASE mem' = [mem EXCEPT ![e] = plan]
      BY ONLY <3>1, <3>2, e \in Runs
    <3>3. CASE UNCHANGED mem
      BY ONLY <3>3
    <3> QED BY ONLY <1>2, <3>2, <3>3 DEF ReadPlan
  <2> QED BY ONLY <2>1, <2>2, <2>3, e \in Runs, TypeOK, VerdictIsExit, SuccessIsKept,
                  CompletedIsInWorkspace
           DEF SuccessIsKept, VerdictIsExit, CompletedIsInWorkspace, Kept, TypeOK, AtSubtask,
               Container, Cur
<1>3. ASSUME NEW e \in Runs, LoopCancelled(e)
      PROVE  SuccessIsKept'
  BY <1>3 DEF LoopCancelled
<1>4. ASSUME NEW e \in Runs, LoopEnds(e)
      PROVE  SuccessIsKept'
  BY <1>4 DEF LoopEnds
<1>5. ASSUME NEW e \in Runs, SkipCompleted(e)
      PROVE  SuccessIsKept'
  <2>1. /\ at[e] = "looping" /\ UNCHANGED <<order, at, mem, container, work, lost>>
        /\ \A f \in Runs \ {e} : next'[f] = next[f]
    BY ONLY <1>5, TypeOK, e \in Runs DEF SkipCompleted, Looping, TypeOK, database, history
  <2> QED BY ONLY <2>1, SuccessIsKept DEF SuccessIsKept, Kept, Cur
<1>6. ASSUME NEW e \in Runs, DependenciesNotMet(e)
      PROVE  SuccessIsKept'
  BY <1>6 DEF DependenciesNotMet
<1>7. ASSUME NEW e \in Runs, BeginSubtask(e)
      PROVE  SuccessIsKept'
  BY <1>7 DEF BeginSubtask
<1>8. ASSUME NEW e \in Runs, CreateAgent(e)
      PROVE  SuccessIsKept'
  BY <1>8 DEF CreateAgent
<1>9. ASSUME NEW e \in Runs, CreateContainer(e)
      PROVE  SuccessIsKept'
  <2>1. /\ at[e] = "recorded" /\ at' \in [Runs -> Steps]
        /\ at'[e] \in {"created", "failing"} /\ \A f \in Runs \ {e} : at'[f] = at[f]
        /\ UNCHANGED <<order, database, work, next, mem, good, cancelled, registered, stop, lost, unstored, missed, stray>>
    BY <1>9 DEF CreateContainer, Go, history, TypeOK, Steps
  <2>2. \A f \in Runs : at[f] \in AtSubtask => Cur(f) \in Subtasks
    BY CurIsSubtask
  <2>3. CASE UNCHANGED container /\ at'[e] = "failing"
    BY ONLY <2>1, <2>2, <2>3, e \in Runs, TypeOK, VerdictIsExit, SuccessIsKept,
            CompletedIsInWorkspace
       DEF SuccessIsKept, VerdictIsExit, CompletedIsInWorkspace, Kept, TypeOK, AtSubtask, Container,
           Cur
  <2>4. CASE SetContainer(e, "created") /\ at'[e] = "created" /\ NameIsFree(Cur(e)) /\ e \notin cancelled
    <3>1. \A f \in Runs, s \in Subtasks :
            container'[f][s] = IF f = e /\ s = Cur(e) THEN "created" ELSE container[f][s]
      BY <2>1, <2>4, OneContainerChanges DEF AtSubtask
    <3>2. \A f \in Runs : container[f][Cur(e)] = "none"
      BY <2>4 DEF NameIsFree
    <3> QED BY ONLY <2>1, <2>2, <2>4, <3>1, <3>2, e \in Runs, TypeOK, VerdictIsExit, SuccessIsKept,
                    CompletedIsInWorkspace
           DEF SuccessIsKept, VerdictIsExit, CompletedIsInWorkspace, Kept, TypeOK, AtSubtask,
               Container, Cur
  <2> QED BY <1>9, <2>1, <2>3, <2>4 DEF CreateContainer, CallWorks, Go, TypeOK
<1>10. ASSUME NEW e \in Runs, StartContainer(e)
      PROVE  SuccessIsKept'
  <2>1. /\ at[e] = "created" /\ at' = [at EXCEPT ![e] = "waiting"] /\ e \notin cancelled
        /\ UNCHANGED <<order, database, work, next, mem, good, cancelled, registered, stop, lost, unstored, missed, stray>>
    BY <1>10 DEF StartContainer, Go, history
  <2>2. \A f \in Runs : at[f] \in AtSubtask => Cur(f) \in Subtasks
    BY CurIsSubtask
  <2>3. \A f \in Runs, s \in Subtasks :
          container'[f][s] = IF f = e /\ s = Cur(e) THEN "running" ELSE container[f][s]
    BY <1>10, <2>1, OneContainerChanges DEF StartContainer, AtSubtask
  <2> QED BY ONLY <2>1, <2>2, <2>3, e \in Runs, TypeOK, VerdictIsExit, SuccessIsKept,
                  CompletedIsInWorkspace
           DEF SuccessIsKept, VerdictIsExit, CompletedIsInWorkspace, Kept, TypeOK, AtSubtask,
               Container, Cur
<1>11. ASSUME NEW e \in Runs, StartContainerFails(e)
      PROVE  SuccessIsKept'
  BY <1>11 DEF StartContainerFails
<1>12. ASSUME NEW e \in Runs, UndoStart(e)
      PROVE  SuccessIsKept'
  <2>1. /\ at[e] = "unstarted" /\ at' = [at EXCEPT ![e] = "failing"]
        /\ UNCHANGED <<order, database, work, next, mem, good, cancelled, registered, stop, lost, unstored, missed>>
    BY <1>12 DEF UndoStart, Go, database
  <2>2. RemoveContainer(e, FALSE) /\ at[e] \in AtSubtask
    BY <1>12, <2>1 DEF UndoStart, AtSubtask
  <2>3. /\ \A f \in Runs, s \in Subtasks :
             \/ container'[f][s] = container[f][s]
             \/ f = e /\ s = Cur(e) /\ container'[f][s] = "none"
        /\ container'[e][Cur(e)] = "none" \/ e \in cancelled \/ stray'
        /\ stray => stray'
    BY <2>2, OneContainerChanges
  <2>4. \A f \in Runs : at[f] \in AtSubtask => Cur(f) \in Subtasks
    BY CurIsSubtask
  <2> QED BY ONLY <2>1, <2>3, <2>4, e \in Runs, TypeOK, VerdictIsExit, SuccessIsKept,
                  CompletedIsInWorkspace
           DEF SuccessIsKept, VerdictIsExit, CompletedIsInWorkspace, Kept, TypeOK, AtSubtask,
               Container, Cur
<1>13. ASSUME NEW e \in Runs, WaitCancelled(e)
      PROVE  SuccessIsKept'
  BY <1>13 DEF WaitCancelled
<1>14. ASSUME NEW e \in Runs, WaitExit(e)
      PROVE  SuccessIsKept'
  BY <1>14 DEF WaitExit
<1>15. ASSUME NEW e \in Runs, WaitError(e)
      PROVE  SuccessIsKept'
  BY <1>15 DEF WaitError
<1>16. ASSUME NEW e \in Runs, StopContainer(e)
      PROVE  SuccessIsKept'
  <2>1. /\ at[e] = "stopping" /\ at' = [at EXCEPT ![e] = "failing"]
        /\ UNCHANGED <<order, database, work, next, mem, good, cancelled, registered, stop, lost, unstored, missed>>
    BY <1>16 DEF StopContainer, Go, database
  <2>2. RemoveContainer(e, TRUE) /\ at[e] \in AtSubtask
    BY <1>16, <2>1 DEF StopContainer, AtSubtask
  <2>3. /\ \A f \in Runs, s \in Subtasks :
             \/ container'[f][s] = container[f][s]
             \/ f = e /\ s = Cur(e) /\ container'[f][s] = "none"
        /\ container'[e][Cur(e)] = "none" \/ e \in cancelled \/ stray'
        /\ stray => stray'
    BY <2>2, OneContainerChanges
  <2>4. \A f \in Runs : at[f] \in AtSubtask => Cur(f) \in Subtasks
    BY CurIsSubtask
  <2> QED BY ONLY <2>1, <2>3, <2>4, e \in Runs, TypeOK, VerdictIsExit, SuccessIsKept,
                  CompletedIsInWorkspace
           DEF SuccessIsKept, VerdictIsExit, CompletedIsInWorkspace, Kept, TypeOK, AtSubtask,
               Container, Cur
<1>17. ASSUME NEW e \in Runs, CleanUp(e)
      PROVE  SuccessIsKept'
  <2>1. /\ at[e] = "ended" /\ at' = [at EXCEPT ![e] = IF good[e] THEN "succeeding" ELSE "failing"]
        /\ UNCHANGED <<order, database, work, next, mem, good, cancelled, registered, stop, lost, unstored, missed>>
    BY <1>17 DEF CleanUp, Go, database
  <2>2. RemoveContainer(e, FALSE) /\ at[e] \in AtSubtask
    BY <1>17, <2>1 DEF CleanUp, AtSubtask
  <2>3. /\ \A f \in Runs, s \in Subtasks :
             \/ container'[f][s] = container[f][s]
             \/ f = e /\ s = Cur(e) /\ container'[f][s] = "none"
        /\ container'[e][Cur(e)] = "none" \/ e \in cancelled \/ stray'
        /\ stray => stray'
    BY <2>2, OneContainerChanges
  <2>4. \A f \in Runs : at[f] \in AtSubtask => Cur(f) \in Subtasks
    BY CurIsSubtask
  <2> QED BY ONLY <2>1, <2>3, <2>4, e \in Runs, TypeOK, VerdictIsExit, SuccessIsKept,
                  CompletedIsInWorkspace
           DEF SuccessIsKept, VerdictIsExit, CompletedIsInWorkspace, Kept, TypeOK, AtSubtask,
               Container, Cur
<1>18. ASSUME NEW e \in Runs, CompleteSubtask(e)
      PROVE  SuccessIsKept'
  BY <1>18 DEF CompleteSubtask
<1>19. ASSUME NEW e \in Runs, FailSubtask(e)
      PROVE  SuccessIsKept'
  BY <1>19 DEF FailSubtask
<1>20. ASSUME NEW e \in Runs, Leave(e)
      PROVE  SuccessIsKept'
  BY <1>20 DEF Leave
<1>21. ASSUME NEW e \in Runs, AutoSave(e)
      PROVE  SuccessIsKept'
  BY <1>21 DEF AutoSave
<1>22. ASSUME NEW e \in Runs, NEW s \in Subtasks, Exit(e, s)
      PROVE  SuccessIsKept'
  <2>1. /\ container[e][s] = "running" /\ at' = at
        /\ UNCHANGED <<order, database, next, mem, good, cancelled, registered, stop, unstored, missed, stray>>
    BY <1>22 DEF Exit, local
  <2>2. \A f \in Runs : at[f] \in AtSubtask => Cur(f) \in Subtasks
    BY CurIsSubtask
  <2>3. PICK w \in {"succeeded", "failed"} : container' = [container EXCEPT ![e][s] = w]
          /\ (w = "succeeded" => s \in work' \cup lost') /\ work \cup lost \subseteq work' \cup lost'
    BY <1>22 DEF Exit
  <2>4. \A f \in Runs, t \in Subtasks :
          container'[f][t] = IF f = e /\ t = s THEN w ELSE container[f][t]
    BY <2>3, TypeOK DEF TypeOK
  <2> QED BY ONLY <2>1, <2>2, <2>3, <2>4, TypeOK, e \in Runs, s \in Subtasks, TypeOK, VerdictIsExit,
                  SuccessIsKept, CompletedIsInWorkspace
           DEF SuccessIsKept, VerdictIsExit, CompletedIsInWorkspace, Kept, TypeOK, AtSubtask,
               Container, Cur
<1>23. CASE StopSaves
  BY <1>23 DEF StopSaves
<1>24. CASE StopCancels
  BY <1>24 DEF StopCancels
<1>25. CASE StopPauses
  BY <1>25 DEF StopPauses
<1>26. CASE Resume
  BY <1>26 DEF Resume
<1>27. CASE UNCHANGED vars
  BY <1>27 DEF vars
<1> QED BY <1>1, <1>2, <1>3, <1>4, <1>5, <1>6, <1>7, <1>8, <1>9, <1>10, <1>11, <1>12,
           <1>13, <1>14, <1>15, <1>16, <1>17, <1>18, <1>19, <1>20, <1>21, <1>22, <1>23, <1>24, <1>25,
           <1>26, <1>27 DEF Next, Step

\* The stored plan is a copy of some run.
LEMMA CompletedStaysInWorkspace ==
  ASSUME TypeOK, PassedIsCompleted, SuccessIsKept, CompletedIsInWorkspace, [Next]_vars
  PROVE  CompletedIsInWorkspace'
<1> USE CurIsSubtask
        DEF TypeOK, CompletedIsInWorkspace, SuccessIsKept, Kept, database, local, history, Go,
            AtSubtask, UpdatePlanSubtasks
<1>1. ASSUME NEW e \in Runs, Register(e)
      PROVE  CompletedIsInWorkspace'
  BY <1>1 DEF Register
<1>2. ASSUME NEW e \in Runs, ReadPlan(e)
      PROVE  CompletedIsInWorkspace'
  BY <1>2 DEF ReadPlan
<1>3. ASSUME NEW e \in Runs, LoopCancelled(e)
      PROVE  CompletedIsInWorkspace'
  BY <1>3 DEF LoopCancelled
<1>4. ASSUME NEW e \in Runs, LoopEnds(e)
      PROVE  CompletedIsInWorkspace'
  BY <1>4 DEF LoopEnds
<1>5. ASSUME NEW e \in Runs, SkipCompleted(e)
      PROVE  CompletedIsInWorkspace'
  BY <1>5 DEF SkipCompleted
<1>6. ASSUME NEW e \in Runs, DependenciesNotMet(e)
      PROVE  CompletedIsInWorkspace'
  BY <1>6 DEF DependenciesNotMet
<1>7. ASSUME NEW e \in Runs, BeginSubtask(e)
      PROVE  CompletedIsInWorkspace'
  BY <1>7 DEF BeginSubtask
<1>8. ASSUME NEW e \in Runs, CreateAgent(e)
      PROVE  CompletedIsInWorkspace'
  BY <1>8 DEF CreateAgent
<1>9. ASSUME NEW e \in Runs, CreateContainer(e)
      PROVE  CompletedIsInWorkspace'
  BY <1>9 DEF CreateContainer
<1>10. ASSUME NEW e \in Runs, StartContainer(e)
      PROVE  CompletedIsInWorkspace'
  BY <1>10 DEF StartContainer
<1>11. ASSUME NEW e \in Runs, StartContainerFails(e)
      PROVE  CompletedIsInWorkspace'
  BY <1>11 DEF StartContainerFails
<1>12. ASSUME NEW e \in Runs, UndoStart(e)
      PROVE  CompletedIsInWorkspace'
  BY <1>12 DEF UndoStart
<1>13. ASSUME NEW e \in Runs, WaitCancelled(e)
      PROVE  CompletedIsInWorkspace'
  BY <1>13 DEF WaitCancelled
<1>14. ASSUME NEW e \in Runs, WaitExit(e)
      PROVE  CompletedIsInWorkspace'
  BY <1>14 DEF WaitExit
<1>15. ASSUME NEW e \in Runs, WaitError(e)
      PROVE  CompletedIsInWorkspace'
  BY <1>15 DEF WaitError
<1>16. ASSUME NEW e \in Runs, StopContainer(e)
      PROVE  CompletedIsInWorkspace'
  BY <1>16 DEF StopContainer
<1>17. ASSUME NEW e \in Runs, CleanUp(e)
      PROVE  CompletedIsInWorkspace'
  BY <1>17 DEF CleanUp
<1>18. ASSUME NEW e \in Runs, CompleteSubtask(e)
      PROVE  CompletedIsInWorkspace'
  BY <1>18 DEF CompleteSubtask
<1>19. ASSUME NEW e \in Runs, FailSubtask(e)
      PROVE  CompletedIsInWorkspace'
  BY <1>19 DEF FailSubtask
<1>20. ASSUME NEW e \in Runs, Leave(e)
      PROVE  CompletedIsInWorkspace'
  BY <1>20 DEF Leave
<1>21. ASSUME NEW e \in Runs, AutoSave(e)
      PROVE  CompletedIsInWorkspace'
  BY <1>21 DEF AutoSave
<1>22. ASSUME NEW e \in Runs, NEW s \in Subtasks, Exit(e, s)
      PROVE  CompletedIsInWorkspace'
  BY <1>22 DEF Exit
<1>23. CASE StopSaves
  BY <1>23 DEF StopSaves
<1>24. CASE StopCancels
  BY <1>24 DEF StopCancels
<1>25. CASE StopPauses
  BY <1>25 DEF StopPauses
<1>26. CASE Resume
  BY <1>26 DEF Resume
<1>27. CASE UNCHANGED vars
  BY <1>27 DEF vars
<1> QED BY <1>1, <1>2, <1>3, <1>4, <1>5, <1>6, <1>7, <1>8, <1>9, <1>10, <1>11, <1>12,
           <1>13, <1>14, <1>15, <1>16, <1>17, <1>18, <1>19, <1>20, <1>21, <1>22, <1>23, <1>24, <1>25,
           <1>26, <1>27 DEF Next, Step

\* A container stays the one a run is at work with, unless that is cancelled or Docker
\* refused.
LEMMA ContainersStayOwned ==
  ASSUME TypeOK, PassedIsCompleted, ContainersAreOwned, [Next]_vars
  PROVE  ContainersAreOwned'
<1> USE CurIsSubtask
        DEF TypeOK, ContainersAreOwned, database, local, history, Go, AtSubtask, Looping,
            Container, Cur, CallFails, CallWorks
<1>1. ASSUME NEW e \in Runs, Register(e)
      PROVE  ContainersAreOwned'
  BY <1>1 DEF Register
<1>2. ASSUME NEW e \in Runs, ReadPlan(e)
      PROVE  ContainersAreOwned'
  <2>1. at[e] = "registered" /\ UNCHANGED <<order, next, container, work, lost, plan, cancelled, stray>>
    BY <1>2 DEF ReadPlan, history, database
  <2>2. PICK step \in {"leaving", "looping"} : at' = [at EXCEPT ![e] = step]
    BY <1>2 DEF ReadPlan, Go
  <2>3. \A f \in Runs : mem'[f] = mem[f] \/ (f = e /\ mem'[e] = plan)
    <3>1. mem \in [Runs -> [Subtasks -> SubtaskWords]]
      BY DEF TypeOK
    <3>2. CASE mem' = [mem EXCEPT ![e] = plan]
      BY ONLY <3>1, <3>2, e \in Runs
    <3>3. CASE UNCHANGED mem
      BY ONLY <3>3
    <3> QED BY ONLY <1>2, <3>2, <3>3 DEF ReadPlan
  <2> QED BY ONLY <2>1, <2>2, <2>3, e \in Runs, TypeOK, ContainersAreOwned
           DEF ContainersAreOwned, TypeOK, AtSubtask, Container, Cur
<1>3. ASSUME NEW e \in Runs, LoopCancelled(e)
      PROVE  ContainersAreOwned'
  BY <1>3 DEF LoopCancelled
<1>4. ASSUME NEW e \in Runs, LoopEnds(e)
      PROVE  ContainersAreOwned'
  BY <1>4 DEF LoopEnds
<1>5. ASSUME NEW e \in Runs, SkipCompleted(e)
      PROVE  ContainersAreOwned'
  BY <1>5 DEF SkipCompleted
<1>6. ASSUME NEW e \in Runs, DependenciesNotMet(e)
      PROVE  ContainersAreOwned'
  BY <1>6 DEF DependenciesNotMet
<1>7. ASSUME NEW e \in Runs, BeginSubtask(e)
      PROVE  ContainersAreOwned'
  BY <1>7 DEF BeginSubtask
<1>8. ASSUME NEW e \in Runs, CreateAgent(e)
      PROVE  ContainersAreOwned'
  <2>1. at[e] = "beginning" /\ UNCHANGED <<order, next, container, cancelled, stray>>
    BY <1>8 DEF CreateAgent
  <2>2. PICK step \in {"recorded", "failing"} : at' = [at EXCEPT ![e] = step]
    BY <1>8 DEF CreateAgent
  <2> QED BY ONLY <2>1, <2>2, e \in Runs, TypeOK, ContainersAreOwned
           DEF ContainersAreOwned, TypeOK, Cur
<1>9. ASSUME NEW e \in Runs, CreateContainer(e)
      PROVE  ContainersAreOwned'
  <2>1. /\ at[e] = "recorded" /\ at' \in [Runs -> Steps]
        /\ at'[e] \in {"created", "failing"} /\ \A f \in Runs \ {e} : at'[f] = at[f]
        /\ UNCHANGED <<order, database, work, next, mem, good, cancelled, registered, stop, lost, unstored, missed, stray>>
    BY <1>9 DEF CreateContainer, Go, history, TypeOK, Steps
  <2>2. \A f \in Runs : at[f] \in AtSubtask => Cur(f) \in Subtasks
    BY CurIsSubtask
  <2>3. CASE UNCHANGED container /\ at'[e] = "failing"
    BY ONLY <2>1, <2>2, <2>3, e \in Runs, TypeOK, ContainersAreOwned
       DEF ContainersAreOwned, TypeOK, AtSubtask, Container, Cur
  <2>4. CASE SetContainer(e, "created") /\ at'[e] = "created" /\ NameIsFree(Cur(e)) /\ e \notin cancelled
    <3>1. \A f \in Runs, s \in Subtasks :
            container'[f][s] = IF f = e /\ s = Cur(e) THEN "created" ELSE container[f][s]
      BY <2>1, <2>4, OneContainerChanges DEF AtSubtask
    <3>2. \A f \in Runs : container[f][Cur(e)] = "none"
      BY <2>4 DEF NameIsFree
    <3> QED BY ONLY <2>1, <2>2, <2>4, <3>1, <3>2, e \in Runs, TypeOK, ContainersAreOwned
           DEF ContainersAreOwned, TypeOK, AtSubtask, Container, Cur
  <2> QED BY <1>9, <2>1, <2>3, <2>4 DEF CreateContainer, CallWorks, Go, TypeOK
<1>10. ASSUME NEW e \in Runs, StartContainer(e)
      PROVE  ContainersAreOwned'
  <2>1. /\ at[e] = "created" /\ at' = [at EXCEPT ![e] = "waiting"] /\ e \notin cancelled
        /\ UNCHANGED <<order, database, work, next, mem, good, cancelled, registered, stop, lost, unstored, missed, stray>>
    BY <1>10 DEF StartContainer, Go, history
  <2>2. \A f \in Runs : at[f] \in AtSubtask => Cur(f) \in Subtasks
    BY CurIsSubtask
  <2>3. \A f \in Runs, s \in Subtasks :
          container'[f][s] = IF f = e /\ s = Cur(e) THEN "running" ELSE container[f][s]
    BY <1>10, <2>1, OneContainerChanges DEF StartContainer, AtSubtask
  <2> QED BY ONLY <2>1, <2>2, <2>3, e \in Runs, TypeOK, ContainersAreOwned
           DEF ContainersAreOwned, TypeOK, AtSubtask, Container, Cur
<1>11. ASSUME NEW e \in Runs, StartContainerFails(e)
      PROVE  ContainersAreOwned'
  BY <1>11 DEF StartContainerFails
<1>12. ASSUME NEW e \in Runs, UndoStart(e)
      PROVE  ContainersAreOwned'
  <2>1. /\ at[e] = "unstarted" /\ at' = [at EXCEPT ![e] = "failing"]
        /\ UNCHANGED <<order, database, work, next, mem, good, cancelled, registered, stop, lost, unstored, missed>>
    BY <1>12 DEF UndoStart, Go, database
  <2>2. RemoveContainer(e, FALSE) /\ at[e] \in AtSubtask
    BY <1>12, <2>1 DEF UndoStart, AtSubtask
  <2>3. /\ \A f \in Runs, s \in Subtasks :
             \/ container'[f][s] = container[f][s]
             \/ f = e /\ s = Cur(e) /\ container'[f][s] = "none"
        /\ container'[e][Cur(e)] = "none" \/ e \in cancelled \/ stray'
        /\ stray => stray'
    BY <2>2, OneContainerChanges
  <2>4. \A f \in Runs : at[f] \in AtSubtask => Cur(f) \in Subtasks
    BY CurIsSubtask
  <2> QED BY ONLY <2>1, <2>3, <2>4, e \in Runs, TypeOK, ContainersAreOwned
           DEF ContainersAreOwned, TypeOK, AtSubtask, Container, Cur
<1>13. ASSUME NEW e \in Runs, WaitCancelled(e)
      PROVE  ContainersAreOwned'
  BY <1>13 DEF WaitCancelled
<1>14. ASSUME NEW e \in Runs, WaitExit(e)
      PROVE  ContainersAreOwned'
  BY <1>14 DEF WaitExit
<1>15. ASSUME NEW e \in Runs, WaitError(e)
      PROVE  ContainersAreOwned'
  BY <1>15 DEF WaitError
<1>16. ASSUME NEW e \in Runs, StopContainer(e)
      PROVE  ContainersAreOwned'
  <2>1. /\ at[e] = "stopping" /\ at' = [at EXCEPT ![e] = "failing"]
        /\ UNCHANGED <<order, database, work, next, mem, good, cancelled, registered, stop, lost, unstored, missed>>
    BY <1>16 DEF StopContainer, Go, database
  <2>2. RemoveContainer(e, TRUE) /\ at[e] \in AtSubtask
    BY <1>16, <2>1 DEF StopContainer, AtSubtask
  <2>3. /\ \A f \in Runs, s \in Subtasks :
             \/ container'[f][s] = container[f][s]
             \/ f = e /\ s = Cur(e) /\ container'[f][s] = "none"
        /\ container'[e][Cur(e)] = "none" \/ e \in cancelled \/ stray'
        /\ stray => stray'
    BY <2>2, OneContainerChanges
  <2>4. \A f \in Runs : at[f] \in AtSubtask => Cur(f) \in Subtasks
    BY CurIsSubtask
  <2> QED BY ONLY <2>1, <2>3, <2>4, e \in Runs, TypeOK, ContainersAreOwned
           DEF ContainersAreOwned, TypeOK, AtSubtask, Container, Cur
<1>17. ASSUME NEW e \in Runs, CleanUp(e)
      PROVE  ContainersAreOwned'
  <2>1. /\ at[e] = "ended" /\ at' = [at EXCEPT ![e] = IF good[e] THEN "succeeding" ELSE "failing"]
        /\ UNCHANGED <<order, database, work, next, mem, good, cancelled, registered, stop, lost, unstored, missed>>
    BY <1>17 DEF CleanUp, Go, database
  <2>2. RemoveContainer(e, FALSE) /\ at[e] \in AtSubtask
    BY <1>17, <2>1 DEF CleanUp, AtSubtask
  <2>3. /\ \A f \in Runs, s \in Subtasks :
             \/ container'[f][s] = container[f][s]
             \/ f = e /\ s = Cur(e) /\ container'[f][s] = "none"
        /\ container'[e][Cur(e)] = "none" \/ e \in cancelled \/ stray'
        /\ stray => stray'
    BY <2>2, OneContainerChanges
  <2>4. \A f \in Runs : at[f] \in AtSubtask => Cur(f) \in Subtasks
    BY CurIsSubtask
  <2> QED BY ONLY <2>1, <2>3, <2>4, e \in Runs, TypeOK, ContainersAreOwned
           DEF ContainersAreOwned, TypeOK, AtSubtask, Container, Cur
<1>18. ASSUME NEW e \in Runs, CompleteSubtask(e)
      PROVE  ContainersAreOwned'
  BY <1>18 DEF CompleteSubtask
<1>19. ASSUME NEW e \in Runs, FailSubtask(e)
      PROVE  ContainersAreOwned'
  BY <1>19 DEF FailSubtask
<1>20. ASSUME NEW e \in Runs, Leave(e)
      PROVE  ContainersAreOwned'
  BY <1>20 DEF Leave
<1>21. ASSUME NEW e \in Runs, AutoSave(e)
      PROVE  ContainersAreOwned'
  BY <1>21 DEF AutoSave
<1>22. ASSUME NEW e \in Runs, NEW s \in Subtasks, Exit(e, s)
      PROVE  ContainersAreOwned'
  <2>1. /\ container[e][s] = "running" /\ at' = at
        /\ UNCHANGED <<order, database, next, mem, good, cancelled, registered, stop, unstored, missed, stray>>
    BY <1>22 DEF Exit, local
  <2>2. \A f \in Runs : at[f] \in AtSubtask => Cur(f) \in Subtasks
    BY CurIsSubtask
  <2>3. PICK w \in {"succeeded", "failed"} : container' = [container EXCEPT ![e][s] = w]
          /\ (w = "succeeded" => s \in work' \cup lost') /\ work \cup lost \subseteq work' \cup lost'
    BY <1>22 DEF Exit
  <2>4. \A f \in Runs, t \in Subtasks :
          container'[f][t] = IF f = e /\ t = s THEN w ELSE container[f][t]
    BY <2>3, TypeOK DEF TypeOK
  <2> QED BY ONLY <2>1, <2>2, <2>3, <2>4, TypeOK, e \in Runs, s \in Subtasks, TypeOK,
                  ContainersAreOwned
           DEF ContainersAreOwned, TypeOK, AtSubtask, Container, Cur
<1>23. CASE StopSaves
  BY <1>23 DEF StopSaves
<1>24. CASE StopCancels
  BY <1>24 DEF StopCancels
<1>25. CASE StopPauses
  BY <1>25 DEF StopPauses
<1>26. CASE Resume
  <2>1. UNCHANGED <<order, next, container, cancelled, stray>>
    BY <1>26 DEF Resume
  <2>2. PICK e \in Runs : at[e] = NotLaunched /\ at' = [at EXCEPT ![e] = "launched"]
    BY <1>26 DEF Resume
  <2> QED BY ONLY <2>1, <2>2, TypeOK, ContainersAreOwned DEF ContainersAreOwned, TypeOK,
                  NotLaunched, Cur
<1>27. CASE UNCHANGED vars
  BY <1>27 DEF vars
<1> QED BY <1>1, <1>2, <1>3, <1>4, <1>5, <1>6, <1>7, <1>8, <1>9, <1>10, <1>11, <1>12,
           <1>13, <1>14, <1>15, <1>16, <1>17, <1>18, <1>19, <1>20, <1>21, <1>22, <1>23, <1>24, <1>25,
           <1>26, <1>27 DEF Next, Step

\* A run is launched when no other is active, and a Stop that misses none leaves none
\* active.
LEMMA LatestStaysActive ==
  ASSUME TypeOK, OnlyLatestActive, [Next]_vars
  PROVE  OnlyLatestActive'
<1> USE TypeOK
        DEF OnlyLatestActive, Active, database, local, history
<1>1. ASSUME NEW e \in Runs, Register(e)
      PROVE  OnlyLatestActive'
  <2>1. at[e] = "launched" /\ UNCHANGED <<status, stop, cancelled, missed>>
    BY <1>1 DEF Register, history, database
  <2>2. PICK step \in {"registered"} : at' = [at EXCEPT ![e] = step]
    BY <1>1 DEF Register, Go
  <2> QED BY ONLY <2>1, <2>2, e \in Runs, TypeOK, OnlyLatestActive
           DEF TypeOK, OnlyLatestActive, Active, NotLaunched
<1>2. ASSUME NEW e \in Runs, ReadPlan(e)
      PROVE  OnlyLatestActive'
  <2>1. at[e] = "registered" /\ UNCHANGED <<status, stop, cancelled, missed>>
    BY <1>2 DEF ReadPlan, history, database
  <2>2. PICK step \in {"leaving", "looping"} : at' = [at EXCEPT ![e] = step]
    BY <1>2 DEF ReadPlan, Go
  <2> QED BY ONLY <2>1, <2>2, e \in Runs, TypeOK, OnlyLatestActive
           DEF TypeOK, OnlyLatestActive, Active, NotLaunched
<1>3. ASSUME NEW e \in Runs, LoopCancelled(e)
      PROVE  OnlyLatestActive'
  <2>1. at[e] = "looping" /\ UNCHANGED <<status, stop, cancelled, missed>>
    BY <1>3 DEF LoopCancelled, Looping, history, database
  <2>2. PICK step \in {"leaving"} : at' = [at EXCEPT ![e] = step]
    BY <1>3 DEF LoopCancelled, Looping, Go
  <2> QED BY ONLY <2>1, <2>2, e \in Runs, TypeOK, OnlyLatestActive
           DEF TypeOK, OnlyLatestActive, Active, NotLaunched
<1>4. ASSUME NEW e \in Runs, LoopEnds(e)
      PROVE  OnlyLatestActive'
  <2>1. at[e] = "looping" /\ UNCHANGED <<status, stop, cancelled, missed>>
    BY <1>4 DEF LoopEnds, Looping, history, database
  <2>2. PICK step \in {"leaving"} : at' = [at EXCEPT ![e] = step]
    BY <1>4 DEF LoopEnds, Looping, Go
  <2> QED BY ONLY <2>1, <2>2, e \in Runs, TypeOK, OnlyLatestActive
           DEF TypeOK, OnlyLatestActive, Active, NotLaunched
<1>5. ASSUME NEW e \in Runs, SkipCompleted(e)
      PROVE  OnlyLatestActive'
  BY <1>5 DEF SkipCompleted
<1>6. ASSUME NEW e \in Runs, DependenciesNotMet(e)
      PROVE  OnlyLatestActive'
  <2>1. at[e] = "looping" /\ UNCHANGED <<status, stop, cancelled, missed>>
    BY <1>6 DEF DependenciesNotMet, Looping, history, database
  <2>2. PICK step \in {"leaving"} : at' = [at EXCEPT ![e] = step]
    BY <1>6 DEF DependenciesNotMet, Looping, Go
  <2> QED BY ONLY <2>1, <2>2, e \in Runs, TypeOK, OnlyLatestActive
           DEF TypeOK, OnlyLatestActive, Active, NotLaunched
<1>7. ASSUME NEW e \in Runs, BeginSubtask(e)
      PROVE  OnlyLatestActive'
  <2>1. at[e] = "looping" /\ UNCHANGED <<status, stop, cancelled, missed>>
    BY <1>7 DEF BeginSubtask, Looping, history, database
  <2>2. PICK step \in {"beginning"} : at' = [at EXCEPT ![e] = step]
    BY <1>7 DEF BeginSubtask, Looping, Go
  <2> QED BY ONLY <2>1, <2>2, e \in Runs, TypeOK, OnlyLatestActive
           DEF TypeOK, OnlyLatestActive, Active, NotLaunched
<1>8. ASSUME NEW e \in Runs, CreateAgent(e)
      PROVE  OnlyLatestActive'
  <2>1. at[e] = "beginning" /\ UNCHANGED <<status, stop, cancelled, missed>>
    BY <1>8 DEF CreateAgent, history, database
  <2>2. PICK step \in {"recorded", "failing"} : at' = [at EXCEPT ![e] = step]
    BY <1>8 DEF CreateAgent, Go
  <2> QED BY ONLY <2>1, <2>2, e \in Runs, TypeOK, OnlyLatestActive
           DEF TypeOK, OnlyLatestActive, Active, NotLaunched
<1>9. ASSUME NEW e \in Runs, CreateContainer(e)
      PROVE  OnlyLatestActive'
  <2>1. at[e] = "recorded" /\ UNCHANGED <<status, stop, cancelled, missed>>
    BY <1>9 DEF CreateContainer, history, database
  <2>2. PICK step \in {"created", "failing"} : at' = [at EXCEPT ![e] = step]
    BY <1>9 DEF CreateContainer, Go
  <2> QED BY ONLY <2>1, <2>2, e \in Runs, TypeOK, OnlyLatestActive
           DEF TypeOK, OnlyLatestActive, Active, NotLaunched
<1>10. ASSUME NEW e \in Runs, StartContainer(e)
      PROVE  OnlyLatestActive'
  <2>1. at[e] = "created" /\ UNCHANGED <<status, stop, cancelled, missed>>
    BY <1>10 DEF StartContainer, history, database
  <2>2. PICK step \in {"waiting"} : at' = [at EXCEPT ![e] = step]
    BY <1>10 DEF StartContainer, Go
  <2> QED BY ONLY <2>1, <2>2, e \in Runs, TypeOK, OnlyLatestActive
           DEF TypeOK, OnlyLatestActive, Active, NotLaunched
<1>11. ASSUME NEW e \in Runs, StartContainerFails(e)
      PROVE  OnlyLatestActive'
  <2>1. at[e] = "created" /\ UNCHANGED <<status, stop, cancelled, missed>>
    BY <1>11 DEF StartContainerFails, history, database
  <2>2. PICK step \in {"unstarted"} : at' = [at EXCEPT ![e] = step]
    BY <1>11 DEF StartContainerFails, Go
  <2> QED BY ONLY <2>1, <2>2, e \in Runs, TypeOK, OnlyLatestActive
           DEF TypeOK, OnlyLatestActive, Active, NotLaunched
<1>12. ASSUME NEW e \in Runs, UndoStart(e)
      PROVE  OnlyLatestActive'
  <2>1. at[e] = "unstarted" /\ UNCHANGED <<status, stop, cancelled, missed>>
    BY <1>12 DEF UndoStart, history, database
  <2>2. PICK step \in {"failing"} : at' = [at EXCEPT ![e] = step]
    BY <1>12 DEF UndoStart, Go
  <2> QED BY ONLY <2>1, <2>2, e \in Runs, TypeOK, OnlyLatestActive
           DEF TypeOK, OnlyLatestActive, Active, NotLaunched
<1>13. ASSUME NEW e \in Runs, WaitCancelled(e)
      PROVE  OnlyLatestActive'
  <2>1. at[e] = "waiting" /\ UNCHANGED <<status, stop, cancelled, missed>>
    BY <1>13 DEF WaitCancelled, history, database
  <2>2. PICK step \in {"stopping"} : at' = [at EXCEPT ![e] = step]
    BY <1>13 DEF WaitCancelled, Go
  <2> QED BY ONLY <2>1, <2>2, e \in Runs, TypeOK, OnlyLatestActive
           DEF TypeOK, OnlyLatestActive, Active, NotLaunched
<1>14. ASSUME NEW e \in Runs, WaitExit(e)
      PROVE  OnlyLatestActive'
  <2>1. at[e] = "waiting" /\ UNCHANGED <<status, stop, cancelled, missed>>
    BY <1>14 DEF WaitExit, history, database
  <2>2. PICK step \in {"ended"} : at' = [at EXCEPT ![e] = step]
    BY <1>14 DEF WaitExit, Go
  <2> QED BY ONLY <2>1, <2>2, e \in Runs, TypeOK, OnlyLatestActive
           DEF TypeOK, OnlyLatestActive, Active, NotLaunched
<1>15. ASSUME NEW e \in Runs, WaitError(e)
      PROVE  OnlyLatestActive'
  <2>1. at[e] = "waiting" /\ UNCHANGED <<status, stop, cancelled, missed>>
    BY <1>15 DEF WaitError, history, database
  <2>2. PICK step \in {"ended"} : at' = [at EXCEPT ![e] = step]
    BY <1>15 DEF WaitError, Go
  <2> QED BY ONLY <2>1, <2>2, e \in Runs, TypeOK, OnlyLatestActive
           DEF TypeOK, OnlyLatestActive, Active, NotLaunched
<1>16. ASSUME NEW e \in Runs, StopContainer(e)
      PROVE  OnlyLatestActive'
  <2>1. at[e] = "stopping" /\ UNCHANGED <<status, stop, cancelled, missed>>
    BY <1>16 DEF StopContainer, history, database
  <2>2. PICK step \in {"failing"} : at' = [at EXCEPT ![e] = step]
    BY <1>16 DEF StopContainer, Go
  <2> QED BY ONLY <2>1, <2>2, e \in Runs, TypeOK, OnlyLatestActive
           DEF TypeOK, OnlyLatestActive, Active, NotLaunched
<1>17. ASSUME NEW e \in Runs, CleanUp(e)
      PROVE  OnlyLatestActive'
  <2>1. at[e] = "ended" /\ UNCHANGED <<status, stop, cancelled, missed>>
    BY <1>17 DEF CleanUp, history, database
  <2>2. PICK step \in {"succeeding", "failing"} : at' = [at EXCEPT ![e] = step]
    BY <1>17 DEF CleanUp, Go
  <2> QED BY ONLY <2>1, <2>2, e \in Runs, TypeOK, OnlyLatestActive
           DEF TypeOK, OnlyLatestActive, Active, NotLaunched
<1>18. ASSUME NEW e \in Runs, CompleteSubtask(e)
      PROVE  OnlyLatestActive'
  <2>1. at[e] = "succeeding" /\ UNCHANGED <<status, stop, cancelled, missed>>
    BY <1>18 DEF CompleteSubtask, history, database
  <2>2. PICK step \in {"looping"} : at' = [at EXCEPT ![e] = step]
    BY <1>18 DEF CompleteSubtask, Go
  <2> QED BY ONLY <2>1, <2>2, e \in Runs, TypeOK, OnlyLatestActive
           DEF TypeOK, OnlyLatestActive, Active, NotLaunched
<1>19. ASSUME NEW e \in Runs, FailSubtask(e)
      PROVE  OnlyLatestActive'
  <2>1. at[e] = "failing" /\ UNCHANGED <<status, stop, cancelled, missed>>
    BY <1>19 DEF FailSubtask, history, database
  <2>2. PICK step \in {"leaving"} : at' = [at EXCEPT ![e] = step]
    BY <1>19 DEF FailSubtask, Go
  <2> QED BY ONLY <2>1, <2>2, e \in Runs, TypeOK, OnlyLatestActive
           DEF TypeOK, OnlyLatestActive, Active, NotLaunched
<1>20. ASSUME NEW e \in Runs, Leave(e)
      PROVE  OnlyLatestActive'
  <2>1. /\ at[e] = "leaving" /\ at' = [at EXCEPT ![e] = "over"]
        /\ UNCHANGED <<stop, cancelled, missed>>
        /\ status' = status \/ (e \notin cancelled /\ status' # "paused")
    BY <1>20 DEF Leave, Go, history
  <2> QED BY ONLY <2>1, e \in Runs, TypeOK, OnlyLatestActive
           DEF TypeOK, OnlyLatestActive, Active, NotLaunched
<1>21. ASSUME NEW e \in Runs, AutoSave(e)
      PROVE  OnlyLatestActive'
  BY <1>21 DEF AutoSave
<1>22. ASSUME NEW e \in Runs, NEW s \in Subtasks, Exit(e, s)
      PROVE  OnlyLatestActive'
  BY <1>22 DEF Exit
<1>23. CASE StopSaves
  BY <1>23 DEF StopSaves
<1>24. CASE StopCancels
  BY <1>24 DEF StopCancels
<1>25. CASE StopPauses
  BY <1>25 DEF StopPauses
<1>26. CASE Resume
  <2>1. /\ status = "paused" /\ status' = "running" /\ UNCHANGED <<stop, cancelled, missed>>
    BY <1>26 DEF Resume
  <2>2. PICK e \in Runs : at[e] = NotLaunched /\ at' = [at EXCEPT ![e] = "launched"]
    BY <1>26 DEF Resume, Go
  <2> QED BY ONLY <2>1, <2>2, TypeOK, OnlyLatestActive DEF TypeOK, OnlyLatestActive, Active
<1>27. CASE UNCHANGED vars
  BY <1>27 DEF vars
<1> QED BY <1>1, <1>2, <1>3, <1>4, <1>5, <1>6, <1>7, <1>8, <1>9, <1>10, <1>11, <1>12,
           <1>13, <1>14, <1>15, <1>16, <1>17, <1>18, <1>19, <1>20, <1>21, <1>22, <1>23, <1>24, <1>25,
           <1>26, <1>27 DEF Next, Step

\* The plan is written by the active run alone, and with what it has.
LEMMA CopyStaysPlan ==
  ASSUME TypeOK, PassedIsCompleted, OnlyLatestActive, CopyIsPlan, [Next]_vars
  PROVE  CopyIsPlan'
<1> USE TypeOK
        DEF CopyIsPlan, Orderly, Active, database, local, history
<1>1. ASSUME NEW e \in Runs, Register(e)
      PROVE  CopyIsPlan'
  <2>1. at[e] = "launched" /\ UNCHANGED <<plan, mem, cancelled, missed, unstored>>
    BY <1>1 DEF Register, history, database
  <2>2. PICK step \in {"registered"} : at' = [at EXCEPT ![e] = step]
    BY <1>1 DEF Register, Go
  <2> QED BY ONLY <2>1, <2>2, e \in Runs, TypeOK, CopyIsPlan
           DEF TypeOK, CopyIsPlan, Orderly, Active, HasRead, AtSubtask, NotLaunched
<1>2. ASSUME NEW e \in Runs, ReadPlan(e)
      PROVE  CopyIsPlan'
  <2>1. at[e] = "registered" /\ UNCHANGED <<plan, cancelled, missed, unstored>>
    BY <1>2 DEF ReadPlan, history, database
  <2>2. CASE e \in cancelled /\ at' = [at EXCEPT ![e] = "leaving"] /\ UNCHANGED mem
    BY ONLY <2>1, <2>2, e \in Runs, TypeOK, CopyIsPlan
       DEF TypeOK, CopyIsPlan, Orderly, Active, HasRead, AtSubtask, NotLaunched
  <2>3. CASE at' = [at EXCEPT ![e] = "looping"] /\ mem' = [mem EXCEPT ![e] = plan]
    BY ONLY <2>1, <2>3, e \in Runs, TypeOK, CopyIsPlan
       DEF TypeOK, CopyIsPlan, Orderly, Active, HasRead, AtSubtask, NotLaunched
  <2> QED BY <1>2, <2>2, <2>3 DEF ReadPlan, Go
<1>3. ASSUME NEW e \in Runs, LoopCancelled(e)
      PROVE  CopyIsPlan'
  <2>1. at[e] = "looping" /\ UNCHANGED <<plan, mem, cancelled, missed, unstored>>
    BY <1>3 DEF LoopCancelled, Looping, history, database
  <2>2. PICK step \in {"leaving"} : at' = [at EXCEPT ![e] = step]
    BY <1>3 DEF LoopCancelled, Looping, Go
  <2> QED BY ONLY <2>1, <2>2, e \in Runs, TypeOK, CopyIsPlan
           DEF TypeOK, CopyIsPlan, Orderly, Active, HasRead, AtSubtask, NotLaunched
<1>4. ASSUME NEW e \in Runs, LoopEnds(e)
      PROVE  CopyIsPlan'
  <2>1. at[e] = "looping" /\ UNCHANGED <<plan, mem, cancelled, missed, unstored>>
    BY <1>4 DEF LoopEnds, Looping, history, database
  <2>2. PICK step \in {"leaving"} : at' = [at EXCEPT ![e] = step]
    BY <1>4 DEF LoopEnds, Looping, Go
  <2> QED BY ONLY <2>1, <2>2, e \in Runs, TypeOK, CopyIsPlan
           DEF TypeOK, CopyIsPlan, Orderly, Active, HasRead, AtSubtask, NotLaunched
<1>5. ASSUME NEW e \in Runs, SkipCompleted(e)
      PROVE  CopyIsPlan'
  BY <1>5 DEF SkipCompleted
<1>6. ASSUME NEW e \in Runs, DependenciesNotMet(e)
      PROVE  CopyIsPlan'
  <2>1. at[e] = "looping" /\ UNCHANGED <<plan, mem, cancelled, missed, unstored>>
    BY <1>6 DEF DependenciesNotMet, Looping, history, database
  <2>2. PICK step \in {"leaving"} : at' = [at EXCEPT ![e] = step]
    BY <1>6 DEF DependenciesNotMet, Looping, Go
  <2> QED BY ONLY <2>1, <2>2, e \in Runs, TypeOK, CopyIsPlan
           DEF TypeOK, CopyIsPlan, Orderly, Active, HasRead, AtSubtask, NotLaunched
<1>7. ASSUME NEW e \in Runs, BeginSubtask(e)
      PROVE  CopyIsPlan'
  <2>1. at[e] = "looping" /\ at' = [at EXCEPT ![e] = "beginning"] /\ UNCHANGED <<cancelled, missed>>
    BY <1>7 DEF BeginSubtask, Looping, Go
  <2>2. \A f \in Runs \ {e} : mem'[f] = mem[f]
    BY <1>7 DEF BeginSubtask, TypeOK
  <2>3. CASE plan' = mem'[e] /\ e \notin cancelled /\ UNCHANGED unstored
    BY ONLY <2>1, <2>2, <2>3, e \in Runs, TypeOK, CopyIsPlan, OnlyLatestActive
       DEF TypeOK, CopyIsPlan, Orderly, Active, HasRead, AtSubtask, NotLaunched, OnlyLatestActive
  <2>4. CASE UNCHANGED plan /\ unstored' = (unstored \/ e \notin cancelled)
    BY ONLY <2>1, <2>2, <2>4, e \in Runs, TypeOK, CopyIsPlan
       DEF TypeOK, CopyIsPlan, Orderly, Active, HasRead, AtSubtask, NotLaunched
  <2> QED BY <1>7, <2>3, <2>4 DEF BeginSubtask, UpdatePlanSubtasks, CallWorks
<1>8. ASSUME NEW e \in Runs, CreateAgent(e)
      PROVE  CopyIsPlan'
  <2>1. at[e] = "beginning" /\ UNCHANGED <<plan, mem, cancelled, missed, unstored>>
    BY <1>8 DEF CreateAgent, history, database
  <2>2. PICK step \in {"recorded", "failing"} : at' = [at EXCEPT ![e] = step]
    BY <1>8 DEF CreateAgent, Go
  <2> QED BY ONLY <2>1, <2>2, e \in Runs, TypeOK, CopyIsPlan
           DEF TypeOK, CopyIsPlan, Orderly, Active, HasRead, AtSubtask, NotLaunched
<1>9. ASSUME NEW e \in Runs, CreateContainer(e)
      PROVE  CopyIsPlan'
  <2>1. at[e] = "recorded" /\ UNCHANGED <<plan, mem, cancelled, missed, unstored>>
    BY <1>9 DEF CreateContainer, history, database
  <2>2. PICK step \in {"created", "failing"} : at' = [at EXCEPT ![e] = step]
    BY <1>9 DEF CreateContainer, Go
  <2> QED BY ONLY <2>1, <2>2, e \in Runs, TypeOK, CopyIsPlan
           DEF TypeOK, CopyIsPlan, Orderly, Active, HasRead, AtSubtask, NotLaunched
<1>10. ASSUME NEW e \in Runs, StartContainer(e)
      PROVE  CopyIsPlan'
  <2>1. at[e] = "created" /\ UNCHANGED <<plan, mem, cancelled, missed, unstored>>
    BY <1>10 DEF StartContainer, history, database
  <2>2. PICK step \in {"waiting"} : at' = [at EXCEPT ![e] = step]
    BY <1>10 DEF StartContainer, Go
  <2> QED BY ONLY <2>1, <2>2, e \in Runs, TypeOK, CopyIsPlan
           DEF TypeOK, CopyIsPlan, Orderly, Active, HasRead, AtSubtask, NotLaunched
<1>11. ASSUME NEW e \in Runs, StartContainerFails(e)
      PROVE  CopyIsPlan'
  <2>1. at[e] = "created" /\ UNCHANGED <<plan, mem, cancelled, missed, unstored>>
    BY <1>11 DEF StartContainerFails, history, database
  <2>2. PICK step \in {"unstarted"} : at' = [at EXCEPT ![e] = step]
    BY <1>11 DEF StartContainerFails, Go
  <2> QED BY ONLY <2>1, <2>2, e \in Runs, TypeOK, CopyIsPlan
           DEF TypeOK, CopyIsPlan, Orderly, Active, HasRead, AtSubtask, NotLaunched
<1>12. ASSUME NEW e \in Runs, UndoStart(e)
      PROVE  CopyIsPlan'
  <2>1. at[e] = "unstarted" /\ UNCHANGED <<plan, mem, cancelled, missed, unstored>>
    BY <1>12 DEF UndoStart, history, database
  <2>2. PICK step \in {"failing"} : at' = [at EXCEPT ![e] = step]
    BY <1>12 DEF UndoStart, Go
  <2> QED BY ONLY <2>1, <2>2, e \in Runs, TypeOK, CopyIsPlan
           DEF TypeOK, CopyIsPlan, Orderly, Active, HasRead, AtSubtask, NotLaunched
<1>13. ASSUME NEW e \in Runs, WaitCancelled(e)
      PROVE  CopyIsPlan'
  <2>1. at[e] = "waiting" /\ UNCHANGED <<plan, mem, cancelled, missed, unstored>>
    BY <1>13 DEF WaitCancelled, history, database
  <2>2. PICK step \in {"stopping"} : at' = [at EXCEPT ![e] = step]
    BY <1>13 DEF WaitCancelled, Go
  <2> QED BY ONLY <2>1, <2>2, e \in Runs, TypeOK, CopyIsPlan
           DEF TypeOK, CopyIsPlan, Orderly, Active, HasRead, AtSubtask, NotLaunched
<1>14. ASSUME NEW e \in Runs, WaitExit(e)
      PROVE  CopyIsPlan'
  <2>1. at[e] = "waiting" /\ UNCHANGED <<plan, mem, cancelled, missed, unstored>>
    BY <1>14 DEF WaitExit, history, database
  <2>2. PICK step \in {"ended"} : at' = [at EXCEPT ![e] = step]
    BY <1>14 DEF WaitExit, Go
  <2> QED BY ONLY <2>1, <2>2, e \in Runs, TypeOK, CopyIsPlan
           DEF TypeOK, CopyIsPlan, Orderly, Active, HasRead, AtSubtask, NotLaunched
<1>15. ASSUME NEW e \in Runs, WaitError(e)
      PROVE  CopyIsPlan'
  <2>1. at[e] = "waiting" /\ UNCHANGED <<plan, mem, cancelled, missed, unstored>>
    BY <1>15 DEF WaitError, history, database
  <2>2. PICK step \in {"ended"} : at' = [at EXCEPT ![e] = step]
    BY <1>15 DEF WaitError, Go
  <2> QED BY ONLY <2>1, <2>2, e \in Runs, TypeOK, CopyIsPlan
           DEF TypeOK, CopyIsPlan, Orderly, Active, HasRead, AtSubtask, NotLaunched
<1>16. ASSUME NEW e \in Runs, StopContainer(e)
      PROVE  CopyIsPlan'
  <2>1. at[e] = "stopping" /\ UNCHANGED <<plan, mem, cancelled, missed, unstored>>
    BY <1>16 DEF StopContainer, history, database
  <2>2. PICK step \in {"failing"} : at' = [at EXCEPT ![e] = step]
    BY <1>16 DEF StopContainer, Go
  <2> QED BY ONLY <2>1, <2>2, e \in Runs, TypeOK, CopyIsPlan
           DEF TypeOK, CopyIsPlan, Orderly, Active, HasRead, AtSubtask, NotLaunched
<1>17. ASSUME NEW e \in Runs, CleanUp(e)
      PROVE  CopyIsPlan'
  <2>1. at[e] = "ended" /\ UNCHANGED <<plan, mem, cancelled, missed, unstored>>
    BY <1>17 DEF CleanUp, history, database
  <2>2. PICK step \in {"succeeding", "failing"} : at' = [at EXCEPT ![e] = step]
    BY <1>17 DEF CleanUp, Go
  <2> QED BY ONLY <2>1, <2>2, e \in Runs, TypeOK, CopyIsPlan
           DEF TypeOK, CopyIsPlan, Orderly, Active, HasRead, AtSubtask, NotLaunched
<1>18. ASSUME NEW e \in Runs, CompleteSubtask(e)
      PROVE  CopyIsPlan'
  <2>1. at[e] = "succeeding" /\ at' = [at EXCEPT ![e] = "looping"] /\ UNCHANGED <<cancelled, missed>>
    BY <1>18 DEF CompleteSubtask, Looping, Go
  <2>2. \A f \in Runs \ {e} : mem'[f] = mem[f]
    BY <1>18 DEF CompleteSubtask, TypeOK
  <2>3. CASE plan' = mem'[e] /\ e \notin cancelled /\ UNCHANGED unstored
    BY ONLY <2>1, <2>2, <2>3, e \in Runs, TypeOK, CopyIsPlan, OnlyLatestActive
       DEF TypeOK, CopyIsPlan, Orderly, Active, HasRead, AtSubtask, NotLaunched, OnlyLatestActive
  <2>4. CASE UNCHANGED plan /\ unstored' = (unstored \/ e \notin cancelled)
    BY ONLY <2>1, <2>2, <2>4, e \in Runs, TypeOK, CopyIsPlan
       DEF TypeOK, CopyIsPlan, Orderly, Active, HasRead, AtSubtask, NotLaunched
  <2> QED BY <1>18, <2>3, <2>4 DEF CompleteSubtask, UpdatePlanSubtasks, CallWorks
<1>19. ASSUME NEW e \in Runs, FailSubtask(e)
      PROVE  CopyIsPlan'
  <2>1. at[e] = "failing" /\ at' = [at EXCEPT ![e] = "leaving"] /\ UNCHANGED <<cancelled, missed>>
    BY <1>19 DEF FailSubtask, Looping, Go
  <2>2. \A f \in Runs \ {e} : mem'[f] = mem[f]
    BY <1>19 DEF FailSubtask, TypeOK
  <2>3. CASE plan' = mem'[e] /\ e \notin cancelled /\ UNCHANGED unstored
    BY ONLY <2>1, <2>2, <2>3, e \in Runs, TypeOK, CopyIsPlan, OnlyLatestActive
       DEF TypeOK, CopyIsPlan, Orderly, Active, HasRead, AtSubtask, NotLaunched, OnlyLatestActive
  <2>4. CASE UNCHANGED plan /\ unstored' = (unstored \/ e \notin cancelled)
    BY ONLY <2>1, <2>2, <2>4, e \in Runs, TypeOK, CopyIsPlan
       DEF TypeOK, CopyIsPlan, Orderly, Active, HasRead, AtSubtask, NotLaunched
  <2> QED BY <1>19, <2>3, <2>4 DEF FailSubtask, UpdatePlanSubtasks, CallWorks
<1>20. ASSUME NEW e \in Runs, Leave(e)
      PROVE  CopyIsPlan'
  <2>1. /\ at' = [at EXCEPT ![e] = "over"] /\ UNCHANGED <<plan, cancelled, missed, unstored>>
        /\ \A f \in Runs \ {e} : mem'[f] = mem[f]
    BY <1>20 DEF Leave, Go, history, TypeOK
  <2> QED BY ONLY <2>1, e \in Runs, TypeOK, CopyIsPlan
           DEF TypeOK, CopyIsPlan, Orderly, Active, HasRead, AtSubtask, NotLaunched
<1>21. ASSUME NEW e \in Runs, AutoSave(e)
      PROVE  CopyIsPlan'
  BY <1>21 DEF AutoSave
<1>22. ASSUME NEW e \in Runs, NEW s \in Subtasks, Exit(e, s)
      PROVE  CopyIsPlan'
  BY <1>22 DEF Exit
<1>23. CASE StopSaves
  BY <1>23 DEF StopSaves
<1>24. CASE StopCancels
  BY <1>24 DEF StopCancels
<1>25. CASE StopPauses
  BY <1>25 DEF StopPauses
<1>26. CASE Resume
  <2>1. UNCHANGED <<plan, mem, cancelled, missed, unstored>>
    BY <1>26 DEF Resume
  <2>2. PICK e \in Runs : at[e] = NotLaunched /\ at' = [at EXCEPT ![e] = "launched"]
    BY <1>26 DEF Resume, Go
  <2> QED BY ONLY <2>1, <2>2, TypeOK, CopyIsPlan
           DEF TypeOK, CopyIsPlan, Orderly, Active, HasRead, AtSubtask, NotLaunched
<1>27. CASE UNCHANGED vars
  BY <1>27 DEF vars
<1> QED BY <1>1, <1>2, <1>3, <1>4, <1>5, <1>6, <1>7, <1>8, <1>9, <1>10, <1>11, <1>12,
           <1>13, <1>14, <1>15, <1>16, <1>17, <1>18, <1>19, <1>20, <1>21, <1>22, <1>23, <1>24, <1>25,
           <1>26, <1>27 DEF Next, Step

\* The name of a container is taken for as long as the container exists, whichever run it
\* belongs to, and only the active run asks for one.
LEMMA NamesStayUnique ==
  ASSUME TypeOK, PassedIsCompleted, VerdictIsExit, OnlyLatestActive, OneNameOneContainer, [Next]_vars
  PROVE  OneNameOneContainer'
<1> USE TypeOK
        DEF OneNameOneContainer, Active, Cur, database, local, history
<1>1. ASSUME NEW e \in Runs, Register(e)
      PROVE  OneNameOneContainer'
  <2>1. at[e] = "launched" /\ UNCHANGED <<order, next, container, cancelled, missed>>
    BY <1>1 DEF Register, history
  <2>2. PICK step \in {"registered"} : at' = [at EXCEPT ![e] = step]
    BY <1>1 DEF Register, Go
  <2> QED BY ONLY <2>1, <2>2, e \in Runs, TypeOK, OneNameOneContainer, VerdictIsExit
           DEF TypeOK, OneNameOneContainer, VerdictIsExit, Container, Active, AtSubtask,
               HadContainer, NotLaunched, Cur
<1>2. ASSUME NEW e \in Runs, ReadPlan(e)
      PROVE  OneNameOneContainer'
  <2>1. at[e] = "registered" /\ UNCHANGED <<order, next, container, cancelled, missed>>
    BY <1>2 DEF ReadPlan, history
  <2>2. PICK step \in {"leaving", "looping"} : at' = [at EXCEPT ![e] = step]
    BY <1>2 DEF ReadPlan, Go
  <2> QED BY ONLY <2>1, <2>2, e \in Runs, TypeOK, OneNameOneContainer, VerdictIsExit
           DEF TypeOK, OneNameOneContainer, VerdictIsExit, Container, Active, AtSubtask,
               HadContainer, NotLaunched, Cur
<1>3. ASSUME NEW e \in Runs, LoopCancelled(e)
      PROVE  OneNameOneContainer'
  <2>1. at[e] = "looping" /\ UNCHANGED <<order, next, container, cancelled, missed>>
    BY <1>3 DEF LoopCancelled, Looping, history
  <2>2. PICK step \in {"leaving"} : at' = [at EXCEPT ![e] = step]
    BY <1>3 DEF LoopCancelled, Looping, Go
  <2> QED BY ONLY <2>1, <2>2, e \in Runs, TypeOK, OneNameOneContainer, VerdictIsExit
           DEF TypeOK, OneNameOneContainer, VerdictIsExit, Container, Active, AtSubtask,
               HadContainer, NotLaunched, Cur
<1>4. ASSUME NEW e \in Runs, LoopEnds(e)
      PROVE  OneNameOneContainer'
  <2>1. at[e] = "looping" /\ UNCHANGED <<order, next, container, cancelled, missed>>
    BY <1>4 DEF LoopEnds, Looping, history
  <2>2. PICK step \in {"leaving"} : at' = [at EXCEPT ![e] = step]
    BY <1>4 DEF LoopEnds, Looping, Go
  <2> QED BY ONLY <2>1, <2>2, e \in Runs, TypeOK, OneNameOneContainer, VerdictIsExit
           DEF TypeOK, OneNameOneContainer, VerdictIsExit, Container, Active, AtSubtask,
               HadContainer, NotLaunched, Cur
<1>5. ASSUME NEW e \in Runs, SkipCompleted(e)
      PROVE  OneNameOneContainer'
  <2>1. /\ at[e] = "looping" /\ UNCHANGED <<order, at, container, cancelled, missed>>
        /\ \A f \in Runs \ {e} : next'[f] = next[f]
    BY ONLY <1>5, TypeOK, e \in Runs DEF SkipCompleted, Looping, TypeOK, database, history
  <2> QED BY ONLY <2>1, OneNameOneContainer DEF OneNameOneContainer, Active, HadContainer, Cur
<1>6. ASSUME NEW e \in Runs, DependenciesNotMet(e)
      PROVE  OneNameOneContainer'
  <2>1. at[e] = "looping" /\ UNCHANGED <<order, next, container, cancelled, missed>>
    BY <1>6 DEF DependenciesNotMet, Looping, history
  <2>2. PICK step \in {"leaving"} : at' = [at EXCEPT ![e] = step]
    BY <1>6 DEF DependenciesNotMet, Looping, Go
  <2> QED BY ONLY <2>1, <2>2, e \in Runs, TypeOK, OneNameOneContainer, VerdictIsExit
           DEF TypeOK, OneNameOneContainer, VerdictIsExit, Container, Active, AtSubtask,
               HadContainer, NotLaunched, Cur
<1>7. ASSUME NEW e \in Runs, BeginSubtask(e)
      PROVE  OneNameOneContainer'
  <2>1. at[e] = "looping" /\ UNCHANGED <<order, next, container, cancelled, missed>>
    BY <1>7 DEF BeginSubtask, Looping, history
  <2>2. PICK step \in {"beginning"} : at' = [at EXCEPT ![e] = step]
    BY <1>7 DEF BeginSubtask, Looping, Go
  <2> QED BY ONLY <2>1, <2>2, e \in Runs, TypeOK, OneNameOneContainer, VerdictIsExit
           DEF TypeOK, OneNameOneContainer, VerdictIsExit, Container, Active, AtSubtask,
               HadContainer, NotLaunched, Cur
<1>8. ASSUME NEW e \in Runs, CreateAgent(e)
      PROVE  OneNameOneContainer'
  <2>1. at[e] = "beginning" /\ UNCHANGED <<order, next, container, cancelled, missed>>
    BY <1>8 DEF CreateAgent, history
  <2>2. PICK step \in {"recorded", "failing"} : at' = [at EXCEPT ![e] = step]
    BY <1>8 DEF CreateAgent, Go
  <2> QED BY ONLY <2>1, <2>2, e \in Runs, TypeOK, OneNameOneContainer, VerdictIsExit
           DEF TypeOK, OneNameOneContainer, VerdictIsExit, Container, Active, AtSubtask,
               HadContainer, NotLaunched, Cur
<1>9. ASSUME NEW e \in Runs, CreateContainer(e)
      PROVE  OneNameOneContainer'
  <2>1. /\ at[e] = "recorded" /\ at' \in [Runs -> Steps]
        /\ at'[e] \in {"created", "failing"} /\ \A f \in Runs \ {e} : at'[f] = at[f]
        /\ UNCHANGED <<order, database, work, next, mem, good, cancelled, registered, stop, lost, unstored, missed, stray>>
    BY <1>9 DEF CreateContainer, Go, history, TypeOK, Steps
  <2>2. \A f \in Runs : at[f] \in AtSubtask => Cur(f) \in Subtasks
    BY CurIsSubtask
  <2>3. CASE UNCHANGED container /\ at'[e] = "failing"
    BY ONLY <2>1, <2>2, <2>3, e \in Runs, TypeOK, OneNameOneContainer, VerdictIsExit
       DEF TypeOK, OneNameOneContainer, VerdictIsExit, Container, Active, AtSubtask, HadContainer,
           NotLaunched, Cur
  <2>4. CASE SetContainer(e, "created") /\ at'[e] = "created" /\ NameIsFree(Cur(e)) /\ e \notin cancelled
    <3>1. \A f \in Runs, s \in Subtasks :
            container'[f][s] = IF f = e /\ s = Cur(e) THEN "created" ELSE container[f][s]
      BY <2>1, <2>4, OneContainerChanges DEF AtSubtask
    <3>2. \A f \in Runs : container[f][Cur(e)] = "none"
      BY <2>4 DEF NameIsFree
    <3>3. Cur(e)' = Cur(e) /\ Cur(e) \in Subtasks
      BY ONLY <2>1, <2>2, e \in Runs DEF Cur, AtSubtask
    <3>4. \A f, g \in Runs, s \in Subtasks :
            container'[f][s] # "none" /\ container'[g][s] # "none" => f = g
      BY ONLY <3>1, <3>2, OneNameOneContainer DEF OneNameOneContainer
    <3>5. ~missed => \A f \in Runs : Active(f)' => f = e
      BY <2>1, <2>4 DEF OnlyLatestActive, Active, NotLaunched
    <3>6. \A g \in Runs : container'[g][Cur(e)] # "none" => g = e
      BY ONLY <3>1, <3>2, <3>3
    <3> QED BY ONLY <2>1, <3>3, <3>4, <3>5, <3>6 DEF OneNameOneContainer
  <2> QED BY <1>9, <2>1, <2>3, <2>4 DEF CreateContainer, CallWorks, Go, TypeOK
<1>10. ASSUME NEW e \in Runs, StartContainer(e)
      PROVE  OneNameOneContainer'
  <2>1. /\ at[e] = "created" /\ at' = [at EXCEPT ![e] = "waiting"] /\ e \notin cancelled
        /\ UNCHANGED <<order, database, work, next, mem, good, cancelled, registered, stop, lost, unstored, missed, stray>>
    BY <1>10 DEF StartContainer, Go, history
  <2>2. \A f \in Runs : at[f] \in AtSubtask => Cur(f) \in Subtasks
    BY CurIsSubtask
  <2>3. \A f \in Runs, s \in Subtasks :
          container'[f][s] = IF f = e /\ s = Cur(e) THEN "running" ELSE container[f][s]
    BY <1>10, <2>1, OneContainerChanges DEF StartContainer, AtSubtask
  <2>4. \A f \in Runs, s \in Subtasks : container'[f][s] # "none" => container[f][s] # "none"
    BY ONLY <2>1, <2>3, VerdictIsExit DEF VerdictIsExit, Container
  <2> QED BY ONLY <2>1, <2>2, <2>4, e \in Runs, TypeOK, OneNameOneContainer
           DEF TypeOK, OneNameOneContainer, Active, AtSubtask, HadContainer, NotLaunched, Cur
<1>11. ASSUME NEW e \in Runs, StartContainerFails(e)
      PROVE  OneNameOneContainer'
  <2>1. at[e] = "created" /\ UNCHANGED <<order, next, container, cancelled, missed>>
    BY <1>11 DEF StartContainerFails, history
  <2>2. PICK step \in {"unstarted"} : at' = [at EXCEPT ![e] = step]
    BY <1>11 DEF StartContainerFails, Go
  <2> QED BY ONLY <2>1, <2>2, e \in Runs, TypeOK, OneNameOneContainer, VerdictIsExit
           DEF TypeOK, OneNameOneContainer, VerdictIsExit, Container, Active, AtSubtask,
               HadContainer, NotLaunched, Cur
<1>12. ASSUME NEW e \in Runs, UndoStart(e)
      PROVE  OneNameOneContainer'
  <2>1. /\ at[e] = "unstarted" /\ at' = [at EXCEPT ![e] = "failing"]
        /\ UNCHANGED <<order, database, work, next, mem, good, cancelled, registered, stop, lost, unstored, missed>>
    BY <1>12 DEF UndoStart, Go, database
  <2>2. RemoveContainer(e, FALSE) /\ at[e] \in AtSubtask
    BY <1>12, <2>1 DEF UndoStart, AtSubtask
  <2>3. /\ \A f \in Runs, s \in Subtasks :
             \/ container'[f][s] = container[f][s]
             \/ f = e /\ s = Cur(e) /\ container'[f][s] = "none"
        /\ container'[e][Cur(e)] = "none" \/ e \in cancelled \/ stray'
        /\ stray => stray'
    BY <2>2, OneContainerChanges
  <2>4. \A f \in Runs : at[f] \in AtSubtask => Cur(f) \in Subtasks
    BY CurIsSubtask
  <2> QED BY ONLY <2>1, <2>3, <2>4, e \in Runs, TypeOK, OneNameOneContainer, VerdictIsExit
           DEF TypeOK, OneNameOneContainer, VerdictIsExit, Container, Active, AtSubtask,
               HadContainer, NotLaunched, Cur
<1>13. ASSUME NEW e \in Runs, WaitCancelled(e)
      PROVE  OneNameOneContainer'
  <2>1. at[e] = "waiting" /\ UNCHANGED <<order, next, container, cancelled, missed>>
    BY <1>13 DEF WaitCancelled, history
  <2>2. PICK step \in {"stopping"} : at' = [at EXCEPT ![e] = step]
    BY <1>13 DEF WaitCancelled, Go
  <2> QED BY ONLY <2>1, <2>2, e \in Runs, TypeOK, OneNameOneContainer, VerdictIsExit
           DEF TypeOK, OneNameOneContainer, VerdictIsExit, Container, Active, AtSubtask,
               HadContainer, NotLaunched, Cur
<1>14. ASSUME NEW e \in Runs, WaitExit(e)
      PROVE  OneNameOneContainer'
  <2>1. at[e] = "waiting" /\ UNCHANGED <<order, next, container, cancelled, missed>>
    BY <1>14 DEF WaitExit, history
  <2>2. PICK step \in {"ended"} : at' = [at EXCEPT ![e] = step]
    BY <1>14 DEF WaitExit, Go
  <2> QED BY ONLY <2>1, <2>2, e \in Runs, TypeOK, OneNameOneContainer, VerdictIsExit
           DEF TypeOK, OneNameOneContainer, VerdictIsExit, Container, Active, AtSubtask,
               HadContainer, NotLaunched, Cur
<1>15. ASSUME NEW e \in Runs, WaitError(e)
      PROVE  OneNameOneContainer'
  <2>1. at[e] = "waiting" /\ UNCHANGED <<order, next, container, cancelled, missed>>
    BY <1>15 DEF WaitError, history
  <2>2. PICK step \in {"ended"} : at' = [at EXCEPT ![e] = step]
    BY <1>15 DEF WaitError, Go
  <2> QED BY ONLY <2>1, <2>2, e \in Runs, TypeOK, OneNameOneContainer, VerdictIsExit
           DEF TypeOK, OneNameOneContainer, VerdictIsExit, Container, Active, AtSubtask,
               HadContainer, NotLaunched, Cur
<1>16. ASSUME NEW e \in Runs, StopContainer(e)
      PROVE  OneNameOneContainer'
  <2>1. /\ at[e] = "stopping" /\ at' = [at EXCEPT ![e] = "failing"]
        /\ UNCHANGED <<order, database, work, next, mem, good, cancelled, registered, stop, lost, unstored, missed>>
    BY <1>16 DEF StopContainer, Go, database
  <2>2. RemoveContainer(e, TRUE) /\ at[e] \in AtSubtask
    BY <1>16, <2>1 DEF StopContainer, AtSubtask
  <2>3. /\ \A f \in Runs, s \in Subtasks :
             \/ container'[f][s] = container[f][s]
             \/ f = e /\ s = Cur(e) /\ container'[f][s] = "none"
        /\ container'[e][Cur(e)] = "none" \/ e \in cancelled \/ stray'
        /\ stray => stray'
    BY <2>2, OneContainerChanges
  <2>4. \A f \in Runs : at[f] \in AtSubtask => Cur(f) \in Subtasks
    BY CurIsSubtask
  <2> QED BY ONLY <2>1, <2>3, <2>4, e \in Runs, TypeOK, OneNameOneContainer, VerdictIsExit
           DEF TypeOK, OneNameOneContainer, VerdictIsExit, Container, Active, AtSubtask,
               HadContainer, NotLaunched, Cur
<1>17. ASSUME NEW e \in Runs, CleanUp(e)
      PROVE  OneNameOneContainer'
  <2>1. /\ at[e] = "ended" /\ at' = [at EXCEPT ![e] = IF good[e] THEN "succeeding" ELSE "failing"]
        /\ UNCHANGED <<order, database, work, next, mem, good, cancelled, registered, stop, lost, unstored, missed>>
    BY <1>17 DEF CleanUp, Go, database
  <2>2. RemoveContainer(e, FALSE) /\ at[e] \in AtSubtask
    BY <1>17, <2>1 DEF CleanUp, AtSubtask
  <2>3. /\ \A f \in Runs, s \in Subtasks :
             \/ container'[f][s] = container[f][s]
             \/ f = e /\ s = Cur(e) /\ container'[f][s] = "none"
        /\ container'[e][Cur(e)] = "none" \/ e \in cancelled \/ stray'
        /\ stray => stray'
    BY <2>2, OneContainerChanges
  <2>4. \A f \in Runs : at[f] \in AtSubtask => Cur(f) \in Subtasks
    BY CurIsSubtask
  <2> QED BY ONLY <2>1, <2>3, <2>4, e \in Runs, TypeOK, OneNameOneContainer, VerdictIsExit
           DEF TypeOK, OneNameOneContainer, VerdictIsExit, Container, Active, AtSubtask,
               HadContainer, NotLaunched, Cur
<1>18. ASSUME NEW e \in Runs, CompleteSubtask(e)
      PROVE  OneNameOneContainer'
  <2>1. /\ at[e] = "succeeding" /\ at' = [at EXCEPT ![e] = "looping"]
        /\ UNCHANGED <<order, container, cancelled, missed>>
        /\ \A f \in Runs \ {e} : next'[f] = next[f]
    BY <1>18 DEF CompleteSubtask, Go, TypeOK, history
  <2> QED BY ONLY <2>1, TypeOK, OneNameOneContainer, VerdictIsExit
           DEF TypeOK, OneNameOneContainer, VerdictIsExit, Container, Active, AtSubtask,
               HadContainer, NotLaunched, Cur
<1>19. ASSUME NEW e \in Runs, FailSubtask(e)
      PROVE  OneNameOneContainer'
  <2>1. at[e] = "failing" /\ UNCHANGED <<order, next, container, cancelled, missed>>
    BY <1>19 DEF FailSubtask, history
  <2>2. PICK step \in {"leaving"} : at' = [at EXCEPT ![e] = step]
    BY <1>19 DEF FailSubtask, Go
  <2> QED BY ONLY <2>1, <2>2, e \in Runs, TypeOK, OneNameOneContainer, VerdictIsExit
           DEF TypeOK, OneNameOneContainer, VerdictIsExit, Container, Active, AtSubtask,
               HadContainer, NotLaunched, Cur
<1>20. ASSUME NEW e \in Runs, Leave(e)
      PROVE  OneNameOneContainer'
  <2>1. /\ at[e] = "leaving" /\ at' = [at EXCEPT ![e] = "over"]
        /\ UNCHANGED <<order, container, cancelled, missed>>
        /\ \A f \in Runs \ {e} : next'[f] = next[f]
    BY <1>20 DEF Leave, Go, TypeOK, history
  <2> QED BY ONLY <2>1, TypeOK, OneNameOneContainer, VerdictIsExit
           DEF TypeOK, OneNameOneContainer, VerdictIsExit, Container, Active, AtSubtask,
               HadContainer, NotLaunched, Cur
<1>21. ASSUME NEW e \in Runs, AutoSave(e)
      PROVE  OneNameOneContainer'
  BY <1>21 DEF AutoSave
<1>22. ASSUME NEW e \in Runs, NEW s \in Subtasks, Exit(e, s)
      PROVE  OneNameOneContainer'
  <2>1. /\ container[e][s] = "running" /\ at' = at
        /\ UNCHANGED <<order, database, next, mem, good, cancelled, registered, stop, unstored, missed, stray>>
    BY <1>22 DEF Exit, local
  <2>2. \A f \in Runs : at[f] \in AtSubtask => Cur(f) \in Subtasks
    BY CurIsSubtask
  <2>3. PICK w \in {"succeeded", "failed"} : container' = [container EXCEPT ![e][s] = w]
          /\ (w = "succeeded" => s \in work' \cup lost') /\ work \cup lost \subseteq work' \cup lost'
    BY <1>22 DEF Exit
  <2>4. \A f \in Runs, t \in Subtasks :
          container'[f][t] = IF f = e /\ t = s THEN w ELSE container[f][t]
    BY <2>3, TypeOK DEF TypeOK
  <2> QED BY ONLY <2>1, <2>2, <2>3, <2>4, TypeOK, e \in Runs, s \in Subtasks, TypeOK,
                  OneNameOneContainer, VerdictIsExit
           DEF TypeOK, OneNameOneContainer, VerdictIsExit, Container, Active, AtSubtask,
               HadContainer, NotLaunched, Cur
<1>23. CASE StopSaves
  BY <1>23 DEF StopSaves
<1>24. CASE StopCancels
  BY <1>24 DEF StopCancels
<1>25. CASE StopPauses
  BY <1>25 DEF StopPauses
<1>26. CASE Resume
  <2>1. UNCHANGED <<order, next, container, cancelled, missed>>
    BY <1>26 DEF Resume
  <2>2. PICK e \in Runs : at[e] = NotLaunched /\ at' = [at EXCEPT ![e] = "launched"]
    BY <1>26 DEF Resume, Go
  <2> QED BY ONLY <2>1, <2>2, TypeOK, OneNameOneContainer, VerdictIsExit
           DEF TypeOK, OneNameOneContainer, VerdictIsExit, Container, Active, AtSubtask,
               HadContainer, NotLaunched, Cur
<1>27. CASE UNCHANGED vars
  BY <1>27 DEF vars
<1> QED BY <1>1, <1>2, <1>3, <1>4, <1>5, <1>6, <1>7, <1>8, <1>9, <1>10, <1>11, <1>12,
           <1>13, <1>14, <1>15, <1>16, <1>17, <1>18, <1>19, <1>20, <1>21, <1>22, <1>23, <1>24, <1>25,
           <1>26, <1>27 DEF Next, Step

\* Containers are for subtasks of the plan.
LEMMA ContainersStayListed ==
  ASSUME TypeOK, PassedIsCompleted, OnlyListed, [Next]_vars
  PROVE  OnlyListed'
<1> USE TypeOK, CurIsSubtask
        DEF OnlyListed
<1>1. ASSUME NEW e \in Runs, Register(e)
      PROVE  OnlyListed'
  BY <1>1 DEF Register
<1>2. ASSUME NEW e \in Runs, ReadPlan(e)
      PROVE  OnlyListed'
  BY <1>2 DEF ReadPlan
<1>3. ASSUME NEW e \in Runs, LoopCancelled(e)
      PROVE  OnlyListed'
  BY <1>3 DEF LoopCancelled
<1>4. ASSUME NEW e \in Runs, LoopEnds(e)
      PROVE  OnlyListed'
  BY <1>4 DEF LoopEnds
<1>5. ASSUME NEW e \in Runs, SkipCompleted(e)
      PROVE  OnlyListed'
  BY <1>5 DEF SkipCompleted
<1>6. ASSUME NEW e \in Runs, DependenciesNotMet(e)
      PROVE  OnlyListed'
  BY <1>6 DEF DependenciesNotMet
<1>7. ASSUME NEW e \in Runs, BeginSubtask(e)
      PROVE  OnlyListed'
  BY <1>7 DEF BeginSubtask
<1>8. ASSUME NEW e \in Runs, CreateAgent(e)
      PROVE  OnlyListed'
  BY <1>8 DEF CreateAgent
<1>9. ASSUME NEW e \in Runs, CreateContainer(e)
      PROVE  OnlyListed'
  <2>1. /\ at[e] = "recorded" /\ at' \in [Runs -> Steps]
        /\ at'[e] \in {"created", "failing"} /\ \A f \in Runs \ {e} : at'[f] = at[f]
        /\ UNCHANGED <<order, database, work, next, mem, good, cancelled, registered, stop, lost, unstored, missed, stray>>
    BY <1>9 DEF CreateContainer, Go, history, TypeOK, Steps
  <2>2. \A f \in Runs : at[f] \in AtSubtask => Cur(f) \in Subtasks
    BY CurIsSubtask
  <2>3. CASE UNCHANGED container /\ at'[e] = "failing"
    BY ONLY <2>1, <2>2, <2>3, e \in Runs, TypeOK, OnlyListed, PassedIsCompleted
       DEF TypeOK, OnlyListed, PassedIsCompleted, AtSubtask, Cur
  <2>4. CASE SetContainer(e, "created") /\ at'[e] = "created" /\ NameIsFree(Cur(e)) /\ e \notin cancelled
    <3>1. \A f \in Runs, s \in Subtasks :
            container'[f][s] = IF f = e /\ s = Cur(e) THEN "created" ELSE container[f][s]
      BY <2>1, <2>4, OneContainerChanges DEF AtSubtask
    <3>2. \A f \in Runs : container[f][Cur(e)] = "none"
      BY <2>4 DEF NameIsFree
    <3> QED BY ONLY <2>1, <2>2, <2>4, <3>1, <3>2, e \in Runs, TypeOK, OnlyListed, PassedIsCompleted
           DEF TypeOK, OnlyListed, PassedIsCompleted, AtSubtask, Cur
  <2> QED BY <1>9, <2>1, <2>3, <2>4 DEF CreateContainer, CallWorks, Go, TypeOK
<1>10. ASSUME NEW e \in Runs, StartContainer(e)
      PROVE  OnlyListed'
  <2>1. /\ at[e] = "created" /\ at' = [at EXCEPT ![e] = "waiting"] /\ e \notin cancelled
        /\ UNCHANGED <<order, database, work, next, mem, good, cancelled, registered, stop, lost, unstored, missed, stray>>
    BY <1>10 DEF StartContainer, Go, history
  <2>2. \A f \in Runs : at[f] \in AtSubtask => Cur(f) \in Subtasks
    BY CurIsSubtask
  <2>3. \A f \in Runs, s \in Subtasks :
          container'[f][s] = IF f = e /\ s = Cur(e) THEN "running" ELSE container[f][s]
    BY <1>10, <2>1, OneContainerChanges DEF StartContainer, AtSubtask
  <2> QED BY ONLY <2>1, <2>2, <2>3, e \in Runs, TypeOK, OnlyListed, PassedIsCompleted
           DEF TypeOK, OnlyListed, PassedIsCompleted, AtSubtask, Cur
<1>11. ASSUME NEW e \in Runs, StartContainerFails(e)
      PROVE  OnlyListed'
  BY <1>11 DEF StartContainerFails
<1>12. ASSUME NEW e \in Runs, UndoStart(e)
      PROVE  OnlyListed'
  <2>1. /\ at[e] = "unstarted" /\ at' = [at EXCEPT ![e] = "failing"]
        /\ UNCHANGED <<order, database, work, next, mem, good, cancelled, registered, stop, lost, unstored, missed>>
    BY <1>12 DEF UndoStart, Go, database
  <2>2. RemoveContainer(e, FALSE) /\ at[e] \in AtSubtask
    BY <1>12, <2>1 DEF UndoStart, AtSubtask
  <2>3. /\ \A f \in Runs, s \in Subtasks :
             \/ container'[f][s] = container[f][s]
             \/ f = e /\ s = Cur(e) /\ container'[f][s] = "none"
        /\ container'[e][Cur(e)] = "none" \/ e \in cancelled \/ stray'
        /\ stray => stray'
    BY <2>2, OneContainerChanges
  <2>4. \A f \in Runs : at[f] \in AtSubtask => Cur(f) \in Subtasks
    BY CurIsSubtask
  <2> QED BY ONLY <2>1, <2>3, <2>4, e \in Runs, TypeOK, OnlyListed, PassedIsCompleted
           DEF TypeOK, OnlyListed, PassedIsCompleted, AtSubtask, Cur
<1>13. ASSUME NEW e \in Runs, WaitCancelled(e)
      PROVE  OnlyListed'
  BY <1>13 DEF WaitCancelled
<1>14. ASSUME NEW e \in Runs, WaitExit(e)
      PROVE  OnlyListed'
  BY <1>14 DEF WaitExit
<1>15. ASSUME NEW e \in Runs, WaitError(e)
      PROVE  OnlyListed'
  BY <1>15 DEF WaitError
<1>16. ASSUME NEW e \in Runs, StopContainer(e)
      PROVE  OnlyListed'
  <2>1. /\ at[e] = "stopping" /\ at' = [at EXCEPT ![e] = "failing"]
        /\ UNCHANGED <<order, database, work, next, mem, good, cancelled, registered, stop, lost, unstored, missed>>
    BY <1>16 DEF StopContainer, Go, database
  <2>2. RemoveContainer(e, TRUE) /\ at[e] \in AtSubtask
    BY <1>16, <2>1 DEF StopContainer, AtSubtask
  <2>3. /\ \A f \in Runs, s \in Subtasks :
             \/ container'[f][s] = container[f][s]
             \/ f = e /\ s = Cur(e) /\ container'[f][s] = "none"
        /\ container'[e][Cur(e)] = "none" \/ e \in cancelled \/ stray'
        /\ stray => stray'
    BY <2>2, OneContainerChanges
  <2>4. \A f \in Runs : at[f] \in AtSubtask => Cur(f) \in Subtasks
    BY CurIsSubtask
  <2> QED BY ONLY <2>1, <2>3, <2>4, e \in Runs, TypeOK, OnlyListed, PassedIsCompleted
           DEF TypeOK, OnlyListed, PassedIsCompleted, AtSubtask, Cur
<1>17. ASSUME NEW e \in Runs, CleanUp(e)
      PROVE  OnlyListed'
  <2>1. /\ at[e] = "ended" /\ at' = [at EXCEPT ![e] = IF good[e] THEN "succeeding" ELSE "failing"]
        /\ UNCHANGED <<order, database, work, next, mem, good, cancelled, registered, stop, lost, unstored, missed>>
    BY <1>17 DEF CleanUp, Go, database
  <2>2. RemoveContainer(e, FALSE) /\ at[e] \in AtSubtask
    BY <1>17, <2>1 DEF CleanUp, AtSubtask
  <2>3. /\ \A f \in Runs, s \in Subtasks :
             \/ container'[f][s] = container[f][s]
             \/ f = e /\ s = Cur(e) /\ container'[f][s] = "none"
        /\ container'[e][Cur(e)] = "none" \/ e \in cancelled \/ stray'
        /\ stray => stray'
    BY <2>2, OneContainerChanges
  <2>4. \A f \in Runs : at[f] \in AtSubtask => Cur(f) \in Subtasks
    BY CurIsSubtask
  <2> QED BY ONLY <2>1, <2>3, <2>4, e \in Runs, TypeOK, OnlyListed, PassedIsCompleted
           DEF TypeOK, OnlyListed, PassedIsCompleted, AtSubtask, Cur
<1>18. ASSUME NEW e \in Runs, CompleteSubtask(e)
      PROVE  OnlyListed'
  BY <1>18 DEF CompleteSubtask
<1>19. ASSUME NEW e \in Runs, FailSubtask(e)
      PROVE  OnlyListed'
  BY <1>19 DEF FailSubtask
<1>20. ASSUME NEW e \in Runs, Leave(e)
      PROVE  OnlyListed'
  BY <1>20 DEF Leave
<1>21. ASSUME NEW e \in Runs, AutoSave(e)
      PROVE  OnlyListed'
  BY <1>21 DEF AutoSave
<1>22. ASSUME NEW e \in Runs, NEW s \in Subtasks, Exit(e, s)
      PROVE  OnlyListed'
  <2>1. /\ container[e][s] = "running" /\ at' = at
        /\ UNCHANGED <<order, database, next, mem, good, cancelled, registered, stop, unstored, missed, stray>>
    BY <1>22 DEF Exit, local
  <2>2. \A f \in Runs : at[f] \in AtSubtask => Cur(f) \in Subtasks
    BY CurIsSubtask
  <2>3. PICK w \in {"succeeded", "failed"} : container' = [container EXCEPT ![e][s] = w]
          /\ (w = "succeeded" => s \in work' \cup lost') /\ work \cup lost \subseteq work' \cup lost'
    BY <1>22 DEF Exit
  <2>4. \A f \in Runs, t \in Subtasks :
          container'[f][t] = IF f = e /\ t = s THEN w ELSE container[f][t]
    BY <2>3, TypeOK DEF TypeOK
  <2> QED BY ONLY <2>1, <2>2, <2>3, <2>4, TypeOK, e \in Runs, s \in Subtasks, TypeOK, OnlyListed,
                  PassedIsCompleted
           DEF TypeOK, OnlyListed, PassedIsCompleted, AtSubtask, Cur
<1>23. CASE StopSaves
  BY <1>23 DEF StopSaves
<1>24. CASE StopCancels
  BY <1>24 DEF StopCancels
<1>25. CASE StopPauses
  BY <1>25 DEF StopPauses
<1>26. CASE Resume
  BY <1>26 DEF Resume
<1>27. CASE UNCHANGED vars
  BY <1>27 DEF vars
<1> QED BY <1>1, <1>2, <1>3, <1>4, <1>5, <1>6, <1>7, <1>8, <1>9, <1>10, <1>11, <1>12,
           <1>13, <1>14, <1>15, <1>16, <1>17, <1>18, <1>19, <1>20, <1>21, <1>22, <1>23, <1>24, <1>25,
           <1>26, <1>27 DEF Next, Step

\* The active run goes through the plan in order, and no other run writes it.
LEMMA OrderStays ==
  ASSUME TypeOK, PassedIsCompleted, VerdictIsExit, CopyIsPlan, OneNameOneContainer, ContainersInOrder, [Next]_vars
  PROVE  ContainersInOrder'
<1> USE TypeOK
<1>1. ASSUME NEW e \in Runs, Register(e)
      PROVE  ContainersInOrder'
  <2>1. UNCHANGED <<order, container, plan, missed, unstored>>
    BY <1>1 DEF Register, Looping, history, database
  <2> QED BY ONLY <2>1, ContainersInOrder DEF ContainersInOrder, Orderly
<1>2. ASSUME NEW e \in Runs, ReadPlan(e)
      PROVE  ContainersInOrder'
  <2>1. UNCHANGED <<order, container, plan, missed, unstored>>
    BY <1>2 DEF ReadPlan, Looping, history, database
  <2> QED BY ONLY <2>1, ContainersInOrder DEF ContainersInOrder, Orderly
<1>3. ASSUME NEW e \in Runs, LoopCancelled(e)
      PROVE  ContainersInOrder'
  <2>1. UNCHANGED <<order, container, plan, missed, unstored>>
    BY <1>3 DEF LoopCancelled, Looping, history, database
  <2> QED BY ONLY <2>1, ContainersInOrder DEF ContainersInOrder, Orderly
<1>4. ASSUME NEW e \in Runs, LoopEnds(e)
      PROVE  ContainersInOrder'
  <2>1. UNCHANGED <<order, container, plan, missed, unstored>>
    BY <1>4 DEF LoopEnds, Looping, history, database
  <2> QED BY ONLY <2>1, ContainersInOrder DEF ContainersInOrder, Orderly
<1>5. ASSUME NEW e \in Runs, SkipCompleted(e)
      PROVE  ContainersInOrder'
  <2>1. UNCHANGED <<order, container, plan, missed, unstored>>
    BY <1>5 DEF SkipCompleted, Looping, history, database
  <2> QED BY ONLY <2>1, ContainersInOrder DEF ContainersInOrder, Orderly
<1>6. ASSUME NEW e \in Runs, DependenciesNotMet(e)
      PROVE  ContainersInOrder'
  <2>1. UNCHANGED <<order, container, plan, missed, unstored>>
    BY <1>6 DEF DependenciesNotMet, Looping, history, database
  <2> QED BY ONLY <2>1, ContainersInOrder DEF ContainersInOrder, Orderly
<1>7. ASSUME NEW e \in Runs, BeginSubtask(e)
      PROVE  ContainersInOrder'
  <2>1. /\ at[e] = "looping" /\ UNCHANGED <<order, container, missed>>
    BY <1>7 DEF BeginSubtask, Looping, history
  <2>2. CASE UNCHANGED plan /\ unstored' = (unstored \/ e \notin cancelled)
    BY ONLY <2>1, <2>2, ContainersInOrder DEF ContainersInOrder, Orderly
  <2>3. CASE e \notin cancelled /\ plan' = mem'[e] /\ UNCHANGED unstored
    <3>1. Orderly => mem[e] = plan
      BY <2>1, <2>3 DEF CopyIsPlan, Active, HasRead, AtSubtask, NotLaunched
    <3>2. mem'[e] = [mem[e] EXCEPT ![Cur(e)] = "running"]
      BY <1>7 DEF BeginSubtask, TypeOK
    <3>3. mem[e] \in [Subtasks -> SubtaskWords] /\ \A i \in DOMAIN order : order[i] \in Subtasks
      BY OrderIsList DEF TypeOK
    <3>4. \A j \in DOMAIN order : Orderly /\ plan[order[j]] = "completed" => plan'[order[j]] = "completed"
      <4>1. mem[e][Cur(e)] # "completed"
        BY <1>7 DEF BeginSubtask
      <4> QED BY ONLY <2>3, <3>1, <3>2, <3>3, <4>1
    <3>5. \A f \in Runs, i \in DOMAIN order :
            Orderly /\ container[f][order[i]] \in {"created", "running"} /\ plan[order[i]] # "completed"
              => plan'[order[i]] # "completed"
      BY <2>3, <3>1, <3>2, <3>3
    <3> QED BY ONLY <2>1, <2>3, <3>4, <3>5, OrderIsList, TypeOK, ContainersInOrder
             DEF ContainersInOrder, Orderly
  <2> QED BY <1>7, <2>2, <2>3 DEF BeginSubtask, UpdatePlanSubtasks, CallWorks
<1>8. ASSUME NEW e \in Runs, CreateAgent(e)
      PROVE  ContainersInOrder'
  <2>1. UNCHANGED <<order, container, plan, missed, unstored>>
    BY <1>8 DEF CreateAgent, Looping, history, database
  <2> QED BY ONLY <2>1, ContainersInOrder DEF ContainersInOrder, Orderly
<1>9. ASSUME NEW e \in Runs, CreateContainer(e)
      PROVE  ContainersInOrder'
  <2>1. /\ at[e] = "recorded" /\ at' \in [Runs -> Steps]
        /\ at'[e] \in {"created", "failing"} /\ \A f \in Runs \ {e} : at'[f] = at[f]
        /\ UNCHANGED <<order, database, work, next, mem, good, cancelled, registered, stop, lost, unstored, missed, stray>>
    BY <1>9 DEF CreateContainer, Go, history, TypeOK, Steps
  <2>2. \A f \in Runs : at[f] \in AtSubtask => Cur(f) \in Subtasks
    BY CurIsSubtask
  <2>3. CASE UNCHANGED container /\ at'[e] = "failing"
    BY ONLY <2>1, <2>2, <2>3, e \in Runs, TypeOK, ContainersInOrder
       DEF TypeOK, ContainersInOrder, Orderly, Cur, database
  <2>4. CASE SetContainer(e, "created") /\ at'[e] = "created" /\ NameIsFree(Cur(e)) /\ e \notin cancelled
    <3>1. \A f \in Runs, s \in Subtasks :
            container'[f][s] = IF f = e /\ s = Cur(e) THEN "created" ELSE container[f][s]
      BY <2>1, <2>4, OneContainerChanges DEF AtSubtask
    <3>2. \A f \in Runs : container[f][Cur(e)] = "none"
      BY <2>4 DEF NameIsFree
    <3>3. next[e] \in DOMAIN order /\ \A i \in DOMAIN order : order[i] = Cur(e) => i = next[e]
      BY <2>1, OrderIsList DEF PassedIsCompleted, AtSubtask, Cur
    <3>4. Orderly => mem[e] = plan
      BY <2>1, <2>4 DEF CopyIsPlan, Active, HasRead, AtSubtask, NotLaunched
    <3>5. \A i \in DOMAIN order : order[i] \in Subtasks
      BY OrderIsList
    <3>6. /\ mem[e][Cur(e)] = "running"
          /\ \A i \in 1 .. next[e] - 1 : mem[e][order[i]] = "completed"
      BY <2>1 DEF PassedIsCompleted, AtSubtask
    <3> QED BY ONLY <2>1, <2>2, <2>4, <3>1, <3>2, e \in Runs, TypeOK, ContainersInOrder, <3>3, <3>4,
                    <3>5, <3>6
           DEF TypeOK, ContainersInOrder, Orderly, Cur, database
  <2> QED BY <1>9, <2>1, <2>3, <2>4 DEF CreateContainer, CallWorks, Go, TypeOK
<1>10. ASSUME NEW e \in Runs, StartContainer(e)
      PROVE  ContainersInOrder'
  <2>1. /\ at[e] = "created" /\ at' = [at EXCEPT ![e] = "waiting"] /\ e \notin cancelled
        /\ UNCHANGED <<order, database, work, next, mem, good, cancelled, registered, stop, lost, unstored, missed, stray>>
    BY <1>10 DEF StartContainer, Go, history
  <2>2. \A f \in Runs : at[f] \in AtSubtask => Cur(f) \in Subtasks
    BY CurIsSubtask
  <2>3. \A f \in Runs, s \in Subtasks :
          container'[f][s] = IF f = e /\ s = Cur(e) THEN "running" ELSE container[f][s]
    BY <1>10, <2>1, OneContainerChanges DEF StartContainer, AtSubtask
  <2> QED BY ONLY <2>1, <2>2, <2>3, e \in Runs, TypeOK, ContainersInOrder, OrderIsList,
                  VerdictIsExit, <2>2
           DEF TypeOK, ContainersInOrder, Orderly, Cur, database, VerdictIsExit, Container
<1>11. ASSUME NEW e \in Runs, StartContainerFails(e)
      PROVE  ContainersInOrder'
  <2>1. UNCHANGED <<order, container, plan, missed, unstored>>
    BY <1>11 DEF StartContainerFails, Looping, history, database
  <2> QED BY ONLY <2>1, ContainersInOrder DEF ContainersInOrder, Orderly
<1>12. ASSUME NEW e \in Runs, UndoStart(e)
      PROVE  ContainersInOrder'
  <2>1. /\ at[e] = "unstarted" /\ at' = [at EXCEPT ![e] = "failing"]
        /\ UNCHANGED <<order, database, work, next, mem, good, cancelled, registered, stop, lost, unstored, missed>>
    BY <1>12 DEF UndoStart, Go, database
  <2>2. RemoveContainer(e, FALSE) /\ at[e] \in AtSubtask
    BY <1>12, <2>1 DEF UndoStart, AtSubtask
  <2>3. /\ \A f \in Runs, s \in Subtasks :
             \/ container'[f][s] = container[f][s]
             \/ f = e /\ s = Cur(e) /\ container'[f][s] = "none"
        /\ container'[e][Cur(e)] = "none" \/ e \in cancelled \/ stray'
        /\ stray => stray'
    BY <2>2, OneContainerChanges
  <2>4. \A f \in Runs : at[f] \in AtSubtask => Cur(f) \in Subtasks
    BY CurIsSubtask
  <2>9. \A i \in DOMAIN order : order[i] \in Subtasks
    BY OrderIsList
  <2> QED BY ONLY <2>1, <2>3, <2>4, e \in Runs, TypeOK, ContainersInOrder, <2>9
           DEF TypeOK, ContainersInOrder, Orderly, Cur, database
<1>13. ASSUME NEW e \in Runs, WaitCancelled(e)
      PROVE  ContainersInOrder'
  <2>1. UNCHANGED <<order, container, plan, missed, unstored>>
    BY <1>13 DEF WaitCancelled, Looping, history, database
  <2> QED BY ONLY <2>1, ContainersInOrder DEF ContainersInOrder, Orderly
<1>14. ASSUME NEW e \in Runs, WaitExit(e)
      PROVE  ContainersInOrder'
  <2>1. UNCHANGED <<order, container, plan, missed, unstored>>
    BY <1>14 DEF WaitExit, Looping, history, database
  <2> QED BY ONLY <2>1, ContainersInOrder DEF ContainersInOrder, Orderly
<1>15. ASSUME NEW e \in Runs, WaitError(e)
      PROVE  ContainersInOrder'
  <2>1. UNCHANGED <<order, container, plan, missed, unstored>>
    BY <1>15 DEF WaitError, Looping, history, database
  <2> QED BY ONLY <2>1, ContainersInOrder DEF ContainersInOrder, Orderly
<1>16. ASSUME NEW e \in Runs, StopContainer(e)
      PROVE  ContainersInOrder'
  <2>1. /\ at[e] = "stopping" /\ at' = [at EXCEPT ![e] = "failing"]
        /\ UNCHANGED <<order, database, work, next, mem, good, cancelled, registered, stop, lost, unstored, missed>>
    BY <1>16 DEF StopContainer, Go, database
  <2>2. RemoveContainer(e, TRUE) /\ at[e] \in AtSubtask
    BY <1>16, <2>1 DEF StopContainer, AtSubtask
  <2>3. /\ \A f \in Runs, s \in Subtasks :
             \/ container'[f][s] = container[f][s]
             \/ f = e /\ s = Cur(e) /\ container'[f][s] = "none"
        /\ container'[e][Cur(e)] = "none" \/ e \in cancelled \/ stray'
        /\ stray => stray'
    BY <2>2, OneContainerChanges
  <2>4. \A f \in Runs : at[f] \in AtSubtask => Cur(f) \in Subtasks
    BY CurIsSubtask
  <2>9. \A i \in DOMAIN order : order[i] \in Subtasks
    BY OrderIsList
  <2> QED BY ONLY <2>1, <2>3, <2>4, e \in Runs, TypeOK, ContainersInOrder, <2>9
           DEF TypeOK, ContainersInOrder, Orderly, Cur, database
<1>17. ASSUME NEW e \in Runs, CleanUp(e)
      PROVE  ContainersInOrder'
  <2>1. /\ at[e] = "ended" /\ at' = [at EXCEPT ![e] = IF good[e] THEN "succeeding" ELSE "failing"]
        /\ UNCHANGED <<order, database, work, next, mem, good, cancelled, registered, stop, lost, unstored, missed>>
    BY <1>17 DEF CleanUp, Go, database
  <2>2. RemoveContainer(e, FALSE) /\ at[e] \in AtSubtask
    BY <1>17, <2>1 DEF CleanUp, AtSubtask
  <2>3. /\ \A f \in Runs, s \in Subtasks :
             \/ container'[f][s] = container[f][s]
             \/ f = e /\ s = Cur(e) /\ container'[f][s] = "none"
        /\ container'[e][Cur(e)] = "none" \/ e \in cancelled \/ stray'
        /\ stray => stray'
    BY <2>2, OneContainerChanges
  <2>4. \A f \in Runs : at[f] \in AtSubtask => Cur(f) \in Subtasks
    BY CurIsSubtask
  <2>9. \A i \in DOMAIN order : order[i] \in Subtasks
    BY OrderIsList
  <2> QED BY ONLY <2>1, <2>3, <2>4, e \in Runs, TypeOK, ContainersInOrder, <2>9
           DEF TypeOK, ContainersInOrder, Orderly, Cur, database
<1>18. ASSUME NEW e \in Runs, CompleteSubtask(e)
      PROVE  ContainersInOrder'
  <2>1. /\ at[e] = "succeeding" /\ UNCHANGED <<order, container, missed>>
    BY <1>18 DEF CompleteSubtask, Looping, history
  <2>2. CASE UNCHANGED plan /\ unstored' = (unstored \/ e \notin cancelled)
    BY ONLY <2>1, <2>2, ContainersInOrder DEF ContainersInOrder, Orderly
  <2>3. CASE e \notin cancelled /\ plan' = mem'[e] /\ UNCHANGED unstored
    <3>1. Orderly => mem[e] = plan
      BY <2>1, <2>3 DEF CopyIsPlan, Active, HasRead, AtSubtask, NotLaunched
    <3>2. mem'[e] = [mem[e] EXCEPT ![Cur(e)] = "completed"]
      BY <1>18 DEF CompleteSubtask, TypeOK
    <3>3. mem[e] \in [Subtasks -> SubtaskWords] /\ \A i \in DOMAIN order : order[i] \in Subtasks
      BY OrderIsList DEF TypeOK
    <3>4. \A j \in DOMAIN order : Orderly /\ plan[order[j]] = "completed" => plan'[order[j]] = "completed"
      BY ONLY <2>3, <3>1, <3>2, <3>3
    <3>5. \A f \in Runs, i \in DOMAIN order :
            Orderly /\ container[f][order[i]] \in {"created", "running"} /\ plan[order[i]] # "completed"
              => plan'[order[i]] # "completed"
      <4>1. Orderly => \A f \in Runs : container[f][Cur(e)] \notin {"created", "running"}
        <5>1. Container(e) \in {"succeeded", "none"}
          BY <2>1 DEF VerdictIsExit
        <5>2. \A f \in Runs : Orderly /\ container[f][Cur(e)] # "none" => e = f
          BY <2>1, <2>3 DEF OneNameOneContainer, Orderly, Active, HadContainer, NotLaunched
        <5> QED BY <5>1, <5>2 DEF Container
      <4> QED BY ONLY <2>3, <3>1, <3>2, <3>3, <4>1
    <3> QED BY ONLY <2>1, <2>3, <3>4, <3>5, OrderIsList, TypeOK, ContainersInOrder
             DEF ContainersInOrder, Orderly
  <2> QED BY <1>18, <2>2, <2>3 DEF CompleteSubtask, UpdatePlanSubtasks, CallWorks
<1>19. ASSUME NEW e \in Runs, FailSubtask(e)
      PROVE  ContainersInOrder'
  <2>1. /\ at[e] = "failing" /\ UNCHANGED <<order, container, missed>>
    BY <1>19 DEF FailSubtask, Looping, history
  <2>2. CASE UNCHANGED plan /\ unstored' = (unstored \/ e \notin cancelled)
    BY ONLY <2>1, <2>2, ContainersInOrder DEF ContainersInOrder, Orderly
  <2>3. CASE e \notin cancelled /\ plan' = mem'[e] /\ UNCHANGED unstored
    <3>1. Orderly => mem[e] = plan
      BY <2>1, <2>3 DEF CopyIsPlan, Active, HasRead, AtSubtask, NotLaunched
    <3>2. mem'[e] = [mem[e] EXCEPT ![Cur(e)] = "failed"]
      BY <1>19 DEF FailSubtask, TypeOK
    <3>3. mem[e] \in [Subtasks -> SubtaskWords] /\ \A i \in DOMAIN order : order[i] \in Subtasks
      BY OrderIsList DEF TypeOK
    <3>4. \A j \in DOMAIN order : Orderly /\ plan[order[j]] = "completed" => plan'[order[j]] = "completed"
      <4>1. mem[e][Cur(e)] # "completed"
        BY <2>1 DEF PassedIsCompleted, AtSubtask
      <4> QED BY ONLY <2>3, <3>1, <3>2, <3>3, <4>1
    <3>5. \A f \in Runs, i \in DOMAIN order :
            Orderly /\ container[f][order[i]] \in {"created", "running"} /\ plan[order[i]] # "completed"
              => plan'[order[i]] # "completed"
      BY <2>3, <3>1, <3>2, <3>3
    <3> QED BY ONLY <2>1, <2>3, <3>4, <3>5, OrderIsList, TypeOK, ContainersInOrder
             DEF ContainersInOrder, Orderly
  <2> QED BY <1>19, <2>2, <2>3 DEF FailSubtask, UpdatePlanSubtasks, CallWorks
<1>20. ASSUME NEW e \in Runs, Leave(e)
      PROVE  ContainersInOrder'
  <2>1. UNCHANGED <<order, container, plan, missed, unstored>>
    BY <1>20 DEF Leave, Looping, history, database
  <2> QED BY ONLY <2>1, ContainersInOrder DEF ContainersInOrder, Orderly
<1>21. ASSUME NEW e \in Runs, AutoSave(e)
      PROVE  ContainersInOrder'
  <2>1. UNCHANGED <<order, container, plan, missed, unstored>>
    BY <1>21 DEF AutoSave, Looping, history, database
  <2> QED BY ONLY <2>1, ContainersInOrder DEF ContainersInOrder, Orderly
<1>22. ASSUME NEW e \in Runs, NEW s \in Subtasks, Exit(e, s)
      PROVE  ContainersInOrder'
  <2>1. /\ container[e][s] = "running" /\ at' = at
        /\ UNCHANGED <<order, database, next, mem, good, cancelled, registered, stop, unstored, missed, stray>>
    BY <1>22 DEF Exit, local
  <2>2. \A f \in Runs : at[f] \in AtSubtask => Cur(f) \in Subtasks
    BY CurIsSubtask
  <2>9. \A i \in DOMAIN order : order[i] \in Subtasks
    BY OrderIsList
  <2>3. PICK w \in {"succeeded", "failed"} : container' = [container EXCEPT ![e][s] = w]
          /\ (w = "succeeded" => s \in work' \cup lost') /\ work \cup lost \subseteq work' \cup lost'
    BY <1>22 DEF Exit
  <2>4. \A f \in Runs, t \in Subtasks :
          container'[f][t] = IF f = e /\ t = s THEN w ELSE container[f][t]
    BY <2>3, TypeOK DEF TypeOK
  <2> QED BY ONLY <2>1, <2>2, <2>3, <2>4, TypeOK, e \in Runs, s \in Subtasks, TypeOK,
                  ContainersInOrder, <2>9
           DEF TypeOK, ContainersInOrder, Orderly, Cur, database
<1>23. CASE StopSaves
  <2>1. UNCHANGED <<order, container, plan, unstored>> /\ (missed => missed')
    BY <1>23 DEF StopSaves, Looping, history, database, local
  <2> QED BY ONLY <2>1, ContainersInOrder DEF ContainersInOrder, Orderly
<1>24. CASE StopCancels
  <2>1. UNCHANGED <<order, container, plan, unstored>> /\ (missed => missed')
    BY <1>24 DEF StopCancels, Looping, history, database, local
  <2> QED BY ONLY <2>1, ContainersInOrder DEF ContainersInOrder, Orderly
<1>25. CASE StopPauses
  <2>1. UNCHANGED <<order, container, plan, unstored>> /\ (missed => missed')
    BY <1>25 DEF StopPauses, Looping, history, database, local
  <2> QED BY ONLY <2>1, ContainersInOrder DEF ContainersInOrder, Orderly
<1>26. CASE Resume
  <2>1. UNCHANGED <<order, container, plan, unstored>> /\ (missed => missed')
    BY <1>26 DEF Resume, Looping, history, database, local
  <2> QED BY ONLY <2>1, ContainersInOrder DEF ContainersInOrder, Orderly
<1>27. CASE UNCHANGED vars
  BY <1>27 DEF vars, ContainersInOrder, Orderly, database, history
<1> QED BY <1>1, <1>2, <1>3, <1>4, <1>5, <1>6, <1>7, <1>8, <1>9, <1>10, <1>11, <1>12,
           <1>13, <1>14, <1>15, <1>16, <1>17, <1>18, <1>19, <1>20, <1>21, <1>22, <1>23, <1>24, <1>25,
           <1>26, <1>27 DEF Next, Step

\* In the first state one run is launched, and nothing was done.
LEMMA InitialState ==
  ASSUME Init
  PROVE  ExecutorInv
<1> USE ExecutorAssumption DEF Init, NotLaunched
<1>1. TypeOK
  <2>1. 1 \in Runs /\ 0 \in 0 .. MaxFaults
    BY DEF Runs
  <2>2. order \in Seq(Subtasks)
    OBVIOUS
  <2>3. Len(order) \in Nat
    BY <2>2
  <2>4. 1 \in 1 .. Len(order) + 1
    BY <2>3
  <2>5. at \in [Runs -> Steps] /\ next \in [Runs -> 1 .. Len(order) + 1]
    BY <2>4 DEF Steps
  <2>6. mem \in [Runs -> [Subtasks -> SubtaskWords]] /\ plan \in [Subtasks -> SubtaskWords]
    BY DEF SubtaskWords
  <2>7. container \in [Runs -> [Subtasks -> {"none", "created", "running", "succeeded", "failed"}]]
    OBVIOUS
  <2>8. good \in [Runs -> BOOLEAN] /\ checkpoint \subseteq SUBSET Subtasks
    OBVIOUS
  <2> QED BY <2>1, <2>5, <2>6, <2>7, <2>8 DEF TypeOK
<1>2. PassedIsCompleted /\ VerdictIsExit /\ SuccessIsKept /\ CompletedIsInWorkspace
  BY DEF PassedIsCompleted, VerdictIsExit, SuccessIsKept, CompletedIsInWorkspace, AtSubtask, HasRead
<1>3. ContainersAreOwned /\ OnlyLatestActive /\ CopyIsPlan
  BY DEF ContainersAreOwned, OnlyLatestActive, CopyIsPlan, Active, AtSubtask, HasRead
<1>4. OnlyListed /\ OneNameOneContainer
  BY DEF OnlyListed, OneNameOneContainer, HadContainer
<1>5. ContainersInOrder
  BY <1>1, OrderIsList DEF ContainersInOrder
<1> QED BY <1>1, <1>2, <1>3, <1>4, <1>5 DEF ExecutorInv

\* In every reachable state, however Stops, Resumes, ticks and faults fall between the
\* steps of the runs: what a run has passed is completed in its copy of the plan, the
\* verdict on a container is its exit, one run is active at most, its copy is the plan
\* as stored, and containers are there in the order of the plan (executor.go:74-391).
THEOREM Invariance == Spec => []ExecutorInv
<1>1. ExecutorInv /\ [Next]_vars => ExecutorInv'
  <2> SUFFICES ASSUME ExecutorInv, [Next]_vars
               PROVE  ExecutorInv'
    OBVIOUS
  <2>1. /\ TypeOK /\ PassedIsCompleted /\ VerdictIsExit /\ SuccessIsKept /\ CompletedIsInWorkspace
        /\ ContainersAreOwned /\ OnlyLatestActive /\ CopyIsPlan /\ OneNameOneContainer
        /\ ContainersInOrder /\ OnlyListed
    BY DEF ExecutorInv
  <2>2. TypeOK' /\ PassedIsCompleted' /\ VerdictIsExit' /\ SuccessIsKept' /\ CompletedIsInWorkspace'
    BY ONLY <2>1, [Next]_vars, Typed, PassedStaysCompleted, VerdictsStay, SuccessStaysKept,
            CompletedStaysInWorkspace
  <2>3. ContainersAreOwned' /\ OnlyLatestActive' /\ CopyIsPlan'
    BY ONLY <2>1, [Next]_vars, ContainersStayOwned, LatestStaysActive, CopyStaysPlan
  <2>4. OneNameOneContainer' /\ ContainersInOrder' /\ OnlyListed'
    BY ONLY <2>1, [Next]_vars, NamesStayUnique, OrderStays, ContainersStayListed
  <2> QED BY <2>2, <2>3, <2>4 DEF ExecutorInv
<1> QED BY <1>1, InitialState, PTL DEF Spec

\* The variables have their types.
THEOREM TypeCorrect == Spec => []TypeOK
BY Invariance, PTL DEF ExecutorInv

\* A subtask the stored plan calls completed has its changes in the workspace, unless a
\* Resume copied an older checkpoint over them: whatever number of runs overlapped and
\* wrote the plan, each from its own copy (executor.go:131-132, 387-402; manager.go:307-327).
THEOREM CompletedKept == Spec => []CompletedIsInWorkspace
BY Invariance, PTL DEF ExecutorInv

\* A container is the one a run is at work with, or its run is cancelled, or Docker
\* refused to remove it (executor.go:283-290, 303-341).
THEOREM ContainersOwned == Spec => []ContainersAreOwned
BY Invariance, PTL DEF ExecutorInv

\* At most one agent of the task is at work in its workspace, for any plan and any number
\* of Stops and Resumes, as long as each Stop cancels the run there is and the plan can
\* be stored (executor.go:108-141, 223-237; manager.go:196-233, 275).
THEOREM OneAgent == Spec => []OneAgentAtWork
<1>1. ExecutorInv => OneAgentAtWork
  <2> DEFINE AtWork == {c \in Runs \X Subtasks : container[c[1]][c[2]] = "running"}
  <2> SUFFICES ASSUME ExecutorInv, Orderly
               PROVE  Cardinality(AtWork) <= 1
    BY DEF OneAgentAtWork, Orderly
  <2>1. ASSUME NEW e \in Runs, NEW f \in Runs, NEW s \in Subtasks, NEW t \in Subtasks,
               container[e][s] = "running", container[f][t] = "running"
        PROVE  e = f /\ s = t
    <3>1. PICK i \in DOMAIN order, j \in DOMAIN order : s = order[i] /\ t = order[j]
      BY <2>1 DEF ExecutorInv, OnlyListed
    <3>2. /\ \A k \in 1 .. i - 1 : plan[order[k]] = "completed"
          /\ \A k \in 1 .. j - 1 : plan[order[k]] = "completed"
          /\ plan[order[i]] # "completed" /\ plan[order[j]] # "completed"
      BY <2>1, <3>1 DEF ExecutorInv, ContainersInOrder
    <3>3. i \in Nat /\ j \in Nat /\ i >= 1 /\ j >= 1
      BY OrderIsList DEF ExecutorInv
    <3>4. ~(i < j) /\ ~(j < i)
      BY <3>2, <3>3
    <3>5. s = t
      BY <3>1, <3>3, <3>4
    <3> QED BY <2>1, <3>5 DEF ExecutorInv, OneNameOneContainer
  <2>2. CASE AtWork = {}
    BY <2>2, FS_EmptySet
  <2>3. CASE AtWork # {}
    <3>1. PICK c \in AtWork : TRUE
      BY <2>3
    <3>2. AtWork = {c}
      <4>1. ASSUME NEW d \in AtWork
            PROVE  d = c
        <5>1. c \in Runs \X Subtasks /\ d \in Runs \X Subtasks
          BY <3>1, <4>1
        <5>2. c[1] = d[1] /\ c[2] = d[2]
          BY <2>1, <3>1, <4>1, <5>1
        <5> QED BY <5>1, <5>2
      <4> QED BY <3>1, <4>1
    <3> QED BY <3>2, FS_Singleton
  <2> QED BY <2>2, <2>3
<1> QED BY <1>1, Invariance, PTL
=============================================================================
