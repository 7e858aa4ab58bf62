------------------------- MODULE SequentialExecutor -------------------------
(***************************************************************************)
(* task.Executor (internal/task/executor.go): the subtasks of a plan, one  *)
(* container after the other, with what TaskManager does to a task that is *)
(* executed this way: Stop saves a checkpoint, cancels the context of the  *)
(* run and marks the task paused; Resume restores the checkpoint into the  *)
(* workspace and launches another run, while the first may still be at its *)
(* clean-up.  The runs share the plan's row, the workspace, the checkpoint *)
(* and the names of the containers, klaudio-<task>-<subtask>; each has its *)
(* own copy of the plan and its own context.                               *)
(*                                                                         *)
(* Nearly every call to Docker and the database is made on the context of  *)
(* the run, and fails once that is cancelled.  Whole checkpoints are saved *)
(* and restored in one step here: Checkpoints has their steps.  The rows   *)
(* of the agents follow the containers, as in AgentPool, and are left out. *)
(***************************************************************************)
EXTENDS Integers, Sequences, FiniteSets

CONSTANTS
  Subtasks,
  DependsOn,    \* the dependencies each names, known or not
  Orders,       \* orders the plan may list the subtasks in
  Faults,       \* the external operations that may fail of themselves
  MaxRuns,      \* bound: executions of the task, the resumed ones included
  MaxFaults     \* bound: operations that fail of themselves

FaultKinds == {"store", "agent", "create", "start", "wait", "remove", "save"}
Runs == 1 .. MaxRuns

ASSUME ExecutorAssumption ==
  /\ DOMAIN DependsOn = Subtasks
  /\ \A o \in Orders : o \in Seq(Subtasks) /\ \A i, j \in DOMAIN o : o[i] = o[j] => i = j
  /\ Faults \subseteq FaultKinds /\ MaxRuns \in Nat \ {0} /\ MaxFaults \in Nat

VARIABLES
  order,       \* the plan's subtasks in the order they are listed
  status,      \* database: tasks.status
  plan,        \* database: the status of each subtask in plans.subtasks
  hasState,    \* database: tasks.has_state
  checkpoint,  \* the latest checkpoint, if there is one: the workspace it holds
  work,        \* the subtasks whose changes are in the workspace
  container,   \* Docker: the container each run created for each subtask
  at,          \* how far each run has come
  next,        \* the place in the plan of the subtask it is at
  mem,         \* its copy of the statuses
  good,        \* its verdict on the container, and on itself when it is leaving
  cancelled,   \* runs whose context is cancelled
  registered,  \* TaskManager.cancels: the run Stop would cancel, if any
  stop,        \* how far a call of Stop has come
  faults,      \* counter behind the bound
  \* history, which no action reads:
  lost,        \* subtasks whose changes a restore overwrote
  unstored,    \* a write of the plan failed of itself
  missed,      \* a Stop left a run of the task uncancelled
  stray        \* Docker refused to remove a container

database == <<status, plan, hasState>>
local == <<at, next, mem, good>>
history == <<lost, unstored, missed, stray>>
vars == <<order, database, checkpoint, work, container, local, cancelled, registered, stop, faults, history>>

None == 0
NotLaunched == "off"
Cur(e) == order[next[e]]

\* A call fails of itself...
Fault(kind) == kind \in Faults /\ faults < MaxFaults /\ faults' = faults + 1

\* ...or, when it is made on the context of a run, because that is cancelled.
CallFails(e, kind) == IF e \in cancelled THEN UNCHANGED faults ELSE Fault(kind)
CallWorks(e) == e \notin cancelled /\ UNCHANGED faults

Container(e) == container[e][Cur(e)]
SetContainer(e, word) == container' = [container EXCEPT ![e][Cur(e)] = word]

Init ==
  /\ order \in Orders
  /\ status = "running"
  /\ plan = [s \in Subtasks |-> "pending"]
  /\ hasState = FALSE /\ checkpoint = {}
  /\ work = {}
  /\ container = [e \in Runs |-> [s \in Subtasks |-> "none"]]
  /\ at = [e \in Runs |-> IF e = 1 THEN "launched" ELSE NotLaunched]
  /\ next = [e \in Runs |-> 1]
  /\ mem = [e \in Runs |-> [s \in Subtasks |-> "pending"]]
  /\ good = [e \in Runs |-> TRUE]
  /\ cancelled = {} /\ registered = None /\ stop = "idle" /\ faults = 0
  /\ lost = {} /\ unstored = FALSE /\ missed = FALSE /\ stray = FALSE

Go(e, step) == at' = [at EXCEPT ![e] = step]

\* updatePlanSubtasks writes all of the run's statuses; a failure is only logged.
UpdatePlanSubtasks(e, statuses) ==
  \/ /\ CallWorks(e)
     /\ plan' = statuses
     /\ UNCHANGED unstored
  \/ /\ CallFails(e, "store")
     /\ unstored' = (unstored \/ e \notin cancelled)
     /\ UNCHANGED plan

-----------------------------------------------------------------------------
Register(e) ==
  /\ at[e] = "launched"
  /\ registered' = e
  /\ Go(e, "registered")
  /\ UNCHANGED <<order, database, checkpoint, work, container, next, mem, good, cancelled, stop, faults, history>>

\* The plan is read on the run's context.
ReadPlan(e) ==
  /\ at[e] = "registered"
  /\ IF e \in cancelled
     THEN Go(e, "leaving") /\ UNCHANGED mem
     ELSE Go(e, "looping") /\ mem' = [mem EXCEPT ![e] = plan]
  /\ UNCHANGED <<order, database, checkpoint, work, container, next, good, cancelled, registered, stop, faults, history>>

Looping(e) == at[e] = "looping" /\ e \notin cancelled

\* As if `return' were `break', which only leaves the select.
LoopCancelledGoesOn(e) ==
  /\ at[e] = "looping" /\ e \in cancelled
  /\ checkpoint' = {work}
  /\ UNCHANGED <<order, database, work, container, local, cancelled, registered, stop, faults, history>>

\* Cancelled between two subtasks: saveFinalCheckpoint, which may fail.
LoopCancelled(e) ==
  /\ at[e] = "looping" /\ e \in cancelled
  /\ \/ checkpoint' = {work} /\ UNCHANGED faults
     \/ Fault("save") /\ UNCHANGED checkpoint
  /\ Go(e, "leaving")
  /\ UNCHANGED <<order, database, work, container, next, mem, good, cancelled, registered, stop, history>>

LoopEnds(e) ==
  /\ Looping(e) /\ next[e] > Len(order)
  /\ Go(e, "leaving")
  /\ UNCHANGED <<order, database, checkpoint, work, container, next, mem, good, cancelled, registered, stop, faults, history>>

SkipCompleted(e) ==
  /\ Looping(e) /\ next[e] <= Len(order) /\ mem[e][Cur(e)] = "completed"
  /\ next' = [next EXCEPT ![e] = @ + 1]
  /\ UNCHANGED <<order, database, checkpoint, work, container, at, mem, good, cancelled, registered, stop, faults, history>>

DependenciesMet(e) ==
  \A d \in DependsOn[Cur(e)] : d \in Subtasks /\ mem[e][d] = "completed"

DependenciesNotMet(e) ==
  /\ Looping(e) /\ next[e] <= Len(order) /\ mem[e][Cur(e)] # "completed"
  /\ ~DependenciesMet(e)
  /\ good' = [good EXCEPT ![e] = FALSE]
  /\ Go(e, "leaving")
  /\ UNCHANGED <<order, database, checkpoint, work, container, next, mem, cancelled, registered, stop, faults, history>>

BeginSubtask(e) ==
  /\ Looping(e) /\ next[e] <= Len(order) /\ mem[e][Cur(e)] # "completed"
  /\ DependenciesMet(e)
  /\ mem' = [mem EXCEPT ![e][Cur(e)] = "running"]
  /\ UpdatePlanSubtasks(e, mem'[e])
  /\ Go(e, "beginning")
  /\ UNCHANGED <<order, status, hasState, checkpoint, work, container, next, good, cancelled, registered,
                 stop, lost, missed, stray>>
-----------------------------------------------------------------------------
CreateAgent(e) ==
  /\ at[e] = "beginning"
  /\ \/ CallWorks(e) /\ Go(e, "recorded")
     \/ CallFails(e, "agent") /\ Go(e, "failing")
  /\ UNCHANGED <<order, database, checkpoint, work, container, next, mem, good, cancelled, registered, stop, history>>

\* As if Docker gave every container a name of its own.
NameIsFreeAlways(s) == TRUE

NameIsFree(s) == \A e \in Runs : container[e][s] = "none"

CreateContainer(e) ==
  /\ at[e] = "recorded"
  /\ \/ /\ CallWorks(e) /\ NameIsFree(Cur(e))
        /\ SetContainer(e, "created")
        /\ Go(e, "created")
     \/ /\ CallFails(e, "create") \/ (~NameIsFree(Cur(e)) /\ UNCHANGED faults)
        /\ Go(e, "failing")
        /\ UNCHANGED container
  /\ UNCHANGED <<order, database, checkpoint, work, next, mem, good, cancelled, registered, stop, history>>

\* RemoveContainer with Force, on the run's context or in the background.
RemoveContainer(e, background) ==
  \/ /\ IF background THEN UNCHANGED faults ELSE CallWorks(e)
     /\ SetContainer(e, "none")
     /\ UNCHANGED stray
  \/ /\ IF background THEN Fault("remove") ELSE CallFails(e, "remove")
     /\ stray' = (stray \/ e \notin cancelled \/ background)
     /\ UNCHANGED container

StartContainer(e) ==
  /\ at[e] = "created" /\ e \notin cancelled
  /\ SetContainer(e, "running")
  /\ Go(e, "waiting")
  /\ UNCHANGED <<order, database, checkpoint, work, next, mem, good, cancelled, registered, stop, faults, history>>

StartContainerFails(e) ==
  /\ at[e] = "created" /\ CallFails(e, "start")
  /\ Go(e, "unstarted")
  /\ UNCHANGED <<order, database, checkpoint, work, container, next, mem, good, cancelled, registered, stop, history>>

UndoStart(e) ==
  /\ at[e] = "unstarted"
  /\ RemoveContainer(e, FALSE)
  /\ Go(e, "failing")
  /\ UNCHANGED <<order, database, checkpoint, work, next, mem, good, cancelled, registered, stop, lost, unstored, missed>>

\* The agent ends of itself, with its changes made or with an error.
Exit(e, s) ==
  /\ container[e][s] = "running"
  /\ \/ /\ container' = [container EXCEPT ![e][s] = "succeeded"]
        /\ work' = work \cup {s}
        /\ lost' = lost \ {s}
     \/ /\ container' = [container EXCEPT ![e][s] = "failed"]
        /\ UNCHANGED <<work, lost>>
  /\ UNCHANGED <<order, database, checkpoint, local, cancelled, registered, stop, faults, unstored, missed, stray>>
-----------------------------------------------------------------------------
\* The select of executeSubtask takes the cancelled context...
WaitCancelled(e) ==
  /\ at[e] = "waiting" /\ e \in cancelled
  /\ Go(e, "stopping")
  /\ UNCHANGED <<order, database, checkpoint, work, container, next, mem, good, cancelled, registered, stop, faults, history>>

\* As if the end of the container were enough.
WaitExitUnread(e) ==
  /\ at[e] = "waiting" /\ Container(e) \in {"succeeded", "failed"}
  /\ Go(e, "ended")
  /\ UNCHANGED <<order, database, checkpoint, work, container, next, mem, good, cancelled, registered, stop, faults, history>>

\* ...or the exit code, when the container has ended...
WaitExit(e) ==
  /\ at[e] = "waiting" /\ Container(e) \in {"succeeded", "failed"}
  /\ good' = [good EXCEPT ![e] = Container(e) = "succeeded"]
  /\ Go(e, "ended")
  /\ UNCHANGED <<order, database, checkpoint, work, container, next, mem, cancelled, registered, stop, faults, history>>

\* ...or the -1 that WaitContainer sends when it fails, or when its own select takes
\* the same cancelled context first.
WaitError(e) ==
  /\ at[e] = "waiting" /\ CallFails(e, "wait")
  /\ good' = [good EXCEPT ![e] = FALSE]
  /\ Go(e, "ended")
  /\ UNCHANGED <<order, database, checkpoint, work, container, next, mem, cancelled, registered, stop, history>>

\* StopContainer and RemoveContainer in the background; stopping takes up to ten seconds.
StopContainer(e) ==
  /\ at[e] = "stopping"
  /\ RemoveContainer(e, TRUE)
  /\ Go(e, "failing")
  /\ UNCHANGED <<order, database, checkpoint, work, next, mem, good, cancelled, registered, stop,
                 lost, unstored, missed>>

\* As if a container that failed were kept, to be looked at.
CleanUpAfterSuccess(e) ==
  /\ at[e] = "ended"
  /\ IF good[e] THEN RemoveContainer(e, FALSE) ELSE UNCHANGED <<container, stray, faults>>
  /\ Go(e, IF good[e] THEN "succeeding" ELSE "failing")
  /\ UNCHANGED <<order, database, checkpoint, work, next, mem, good, cancelled, registered, stop,
                 lost, unstored, missed>>

CleanUp(e) ==
  /\ at[e] = "ended"
  /\ RemoveContainer(e, FALSE)
  /\ Go(e, IF good[e] THEN "succeeding" ELSE "failing")
  /\ UNCHANGED <<order, database, checkpoint, work, next, mem, good, cancelled, registered, stop,
                 lost, unstored, missed>>

CompleteSubtask(e) ==
  /\ at[e] = "succeeding"
  /\ mem' = [mem EXCEPT ![e][Cur(e)] = "completed"]
  /\ UpdatePlanSubtasks(e, mem'[e])
  /\ next' = [next EXCEPT ![e] = @ + 1]
  /\ Go(e, "looping")
  /\ UNCHANGED <<order, status, hasState, checkpoint, work, container, good, cancelled, registered, stop,
                 lost, missed, stray>>

FailSubtask(e) ==
  /\ at[e] = "failing"
  /\ mem' = [mem EXCEPT ![e][Cur(e)] = "failed"]
  /\ UpdatePlanSubtasks(e, mem'[e])
  /\ good' = [good EXCEPT ![e] = FALSE]
  /\ Go(e, "leaving")
  /\ UNCHANGED <<order, status, hasState, checkpoint, work, container, next, cancelled, registered, stop,
                 lost, missed, stray>>

\* The end of runExecutor: the outcome is written unless the run was cancelled, and
\* the entry of TaskManager.cancels is deleted, whichever run it belongs to.  What was
\* local to the run is gone.
Leave(e) ==
  /\ at[e] = "leaving"
  /\ status' = IF e \in cancelled THEN status ELSE IF good[e] THEN "completed" ELSE "failed"
  /\ registered' = None
  /\ Go(e, "over")
  /\ next' = [next EXCEPT ![e] = 1]
  /\ mem' = [mem EXCEPT ![e] = [s \in Subtasks |-> "pending"]]
  /\ good' = [good EXCEPT ![e] = TRUE]
  /\ UNCHANGED <<order, plan, hasState, checkpoint, work, container, cancelled, stop, faults, history>>

\* A tick of the AutoSaver, which runs from the start of Execute to its end; on a
\* cancelled context it leaves no checkpoint.
AutoSave(e) ==
  /\ at[e] \notin {NotLaunched, "launched", "registered", "leaving", "over"}
  /\ e \notin cancelled
  /\ checkpoint' = {work}
  /\ UNCHANGED <<order, database, work, container, local, cancelled, registered, stop, faults, history>>
-----------------------------------------------------------------------------
\* Stop checks the status and saves; a failure to save is only logged.
StopSaves ==
  /\ stop = "idle" /\ status = "running"
  /\ \/ checkpoint' = {work} /\ hasState' = TRUE /\ UNCHANGED faults
     \/ Fault("save") /\ UNCHANGED <<checkpoint, hasState>>
  /\ stop' = "saved"
  /\ UNCHANGED <<order, status, plan, work, container, local, cancelled, registered, history>>

StopCancels ==
  /\ stop = "saved"
  /\ cancelled' = cancelled \cup ({registered} \ {None})
  /\ missed' = (missed \/ \E e \in Runs \ cancelled' : at[e] \notin {NotLaunched, "over"})
  /\ stop' = "cancelled"
  /\ UNCHANGED <<order, database, checkpoint, work, container, local, registered, faults, lost, unstored, stray>>

StopPauses ==
  /\ stop = "cancelled"
  /\ status' = "paused"
  /\ stop' = "idle"
  /\ UNCHANGED <<order, plan, hasState, checkpoint, work, container, local, cancelled, registered, faults, history>>

\* The files of the checkpoint are copied over those of the workspace: a file that was
\* changed since is as before, one that was added since stays.
RestoreWorkspace ==
  \/ /\ hasState
     /\ \E saved \in checkpoint, kept \in SUBSET work : work \cap saved \subseteq kept /\ work' = kept
  \/ /\ ~hasState \/ checkpoint = {}
     /\ UNCHANGED work

Resume ==
  /\ status = "paused"
  /\ \E e \in Runs :
       /\ at[e] = NotLaunched /\ \A f \in Runs : f < e => at[f] # NotLaunched
       /\ Go(e, "launched")
  /\ RestoreWorkspace
  /\ lost' = lost \cup (work \ work')
  /\ status' = "running"
  /\ UNCHANGED <<order, plan, hasState, checkpoint, container, next, mem, good, cancelled, registered, stop, faults,
                 unstored, missed, stray>>
-----------------------------------------------------------------------------
Step(e) ==
  \/ Register(e) \/ ReadPlan(e)
  \/ LoopCancelled(e) \/ LoopEnds(e) \/ SkipCompleted(e) \/ DependenciesNotMet(e) \/ BeginSubtask(e)
  \/ CreateAgent(e) \/ CreateContainer(e) \/ StartContainer(e) \/ StartContainerFails(e) \/ UndoStart(e)
  \/ WaitCancelled(e) \/ WaitExit(e) \/ WaitError(e)
  \/ StopContainer(e) \/ CleanUp(e) \/ CompleteSubtask(e) \/ FailSubtask(e) \/ Leave(e)

Next ==
  \/ \E e \in Runs : Step(e) \/ AutoSave(e)
  \/ \E e \in Runs, s \in Subtasks : Exit(e, s)
  \/ StopSaves \/ StopCancels \/ StopPauses
  \/ Resume

\* The goroutines go on; nothing says that an agent ever ends.
Fairness == \A e \in Runs : WF_vars(Step(e))

Spec == Init /\ [][Next]_vars
FairSpec == Spec /\ Fairness
-----------------------------------------------------------------------------
(***************************************************************************)
(* Properties                                                              *)
(***************************************************************************)
SubtaskWords == {"pending", "running", "completed", "failed"}
Steps == {NotLaunched, "launched", "registered", "looping", "beginning", "recorded", "created", "unstarted",
          "waiting", "stopping", "ended", "succeeding", "failing", "leaving", "over"}

TypeOK ==
  /\ order \in Orders
  /\ status \in {"running", "paused", "completed", "failed"}
  /\ plan \in [Subtasks -> SubtaskWords]
  /\ hasState \in BOOLEAN
  /\ checkpoint \subseteq SUBSET Subtasks
  /\ work \subseteq Subtasks /\ lost \subseteq Subtasks
  /\ container \in [Runs -> [Subtasks -> {"none", "created", "running", "succeeded", "failed"}]]
  /\ at \in [Runs -> Steps]
  /\ next \in [Runs -> 1 .. Len(order) + 1]
  /\ mem \in [Runs -> [Subtasks -> SubtaskWords]]
  /\ good \in [Runs -> BOOLEAN]
  /\ cancelled \subseteq Runs /\ registered \in Runs \cup {None}
  /\ stop \in {"idle", "saved", "cancelled"} /\ faults \in 0 .. MaxFaults
  /\ unstored \in BOOLEAN /\ missed \in BOOLEAN /\ stray \in BOOLEAN

\* A subtask the plan calls completed has its changes in the workspace, whatever runs
\* overlapped and wrote the plan from a copy of their own, unless a Resume copied an
\* older checkpoint over them (executor.go:131-132, 387-402; manager.go:307-327).
CompletedIsInWorkspace == \A s \in Subtasks : plan[s] = "completed" => s \in work \cup lost

\* Two agents of the task are never at work in its workspace at once, although a resumed
\* run does not wait for the run before it: the subtask that one may still be stopping is
\* the first the new one comes to, and its container's name is taken (executor.go:223-237).
\* It takes Stops that cancelled the run there was, which one may fail to that finds the
\* entry of an earlier run (manager.go:275), and the plan to have been stored.
OneAgentAtWork ==
  ~missed /\ ~unstored => Cardinality({c \in Runs \X Subtasks : container[c[1]][c[2]] = "running"}) <= 1

\* A container is the one a run is at work with, or was left behind by a run whose
\* context is cancelled, or Docker refused to remove it (executor.go:283-290, 303-341).
ContainersAreOwned ==
  \A e \in Runs, s \in Subtasks : container[e][s] # "none" =>
    \/ at[e] \in {"created", "unstarted", "waiting", "stopping", "ended"} /\ Cur(e) = s
    \/ e \in cancelled
    \/ stray

\* A run that is cancelled ends, wherever it was, and lets go of the task (executor.go:
\* 79-91, 303-320): Delete and the next Stop need its entry gone.
CancelledRunsEnd == \A e \in Runs : e \in cancelled ~> at[e] = "over"

\* A run that is over has left no container running: Stop is "stopping containers"
\* (manager.go:196).  It does not hold (README, section 5).
StopStopsContainers ==
  \A e \in Runs, s \in Subtasks : container[e][s] = "running" => at[e] # "over"
=============================================================================
