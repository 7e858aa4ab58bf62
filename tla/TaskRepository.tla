--------------------------- MODULE TaskRepository ---------------------------
(***************************************************************************)
(* What TaskManager does with the git repository of a task                 *)
(* (internal/task/manager.go, internal/repo): it is cloned into the        *)
(* workspace before the planner runs, on a work branch if the task wants   *)
(* one, and analysed if that is wanted; after the execution the changes    *)
(* are committed, pushed and offered as a pull request.  A Stop saves the  *)
(* workspace, .git and all, and may come at any of these steps; Resume     *)
(* puts the saved workspace back; Relaunch makes a new task from a copy of *)
(* the workspace.  All tasks use one repository.                           *)
(*                                                                         *)
(* A commit is named by its author and a number, and a branch is the set   *)
(* of commits it has.  Nobody rewrites history, so one branch can be       *)
(* pushed over another exactly when it has all of the other's commits.     *)
(* How a task is planned and executed is in TaskLifecycle and              *)
(* SequentialExecutor; here a plan is executed one subtask after another.  *)
(* Tasks with and without a memory come from two templates of the same     *)
(* repository.                                                             *)
(***************************************************************************)
EXTENDS Integers, Sequences, FiniteSets

CONSTANTS
  Tasks,
  Configs,     \* the repository settings users choose from
  MaxRuns,     \* bounds: executions of each task, the resumed ones included,
  MaxFaults    \* and operations that fail of themselves

Base == "base"
Branches == Tasks \cup {Base}  \* the work branch klaudio/<id> of a task is named by the task
Config == [autoBranch : BOOLEAN, autoCommit : BOOLEAN, autoPush : BOOLEAN, autoPR : BOOLEAN, memory : BOOLEAN]

ASSUME RepositoryAssumption ==
  /\ Configs \subseteq Config /\ MaxRuns \in [Tasks -> Nat \ {0}] /\ MaxFaults \in Nat
  /\ {Base, "others", "none"} \cap Tasks = {}

VARIABLES
  row,         \* database: tasks.status ("none": no such task)
  config,      \* database: tasks.repo_config
  memories,    \* database: repo_memories, oldest first
  reported,    \* database: tasks with an event repo.postexec_error
  clone,       \* the git repository in the workspace of each task
  dirty,       \* the workspace has changes that are not committed
  saved,       \* the task's latest checkpoint, if it has one
  remote,      \* the commits of each branch of the common repository
  requests,    \* branches with an open pull request
  planner,     \* how far the planner of a task has come
  at,          \* how far each execution has come
  registered,  \* TaskManager.cancels: the execution Stop would cancel, if any
  cancelled,   \* executions whose context is cancelled
  stop,        \* tasks a call of Stop has saved and not yet cancelled
  shared,      \* Executor.repoMemory, a field all executions share
  told,        \* the analysis in the latest prompt made for the task
  faults,      \* counter behind the bound
  \* history, which no action reads:
  unbranched,  \* tasks that wanted a work branch, which could not be made
  merged,      \* commits that came to the base branch through a pull request
  offered,     \* branches a pull request was ever opened for
  cutShort     \* tasks stopped when an execution was at its post-execution

database == <<row, config, memories, reported>>
workspaces == <<clone, dirty, saved, unbranched>>
hosting == <<remote, requests, merged, offered>>
control == <<registered, cancelled, stop, cutShort>>
prompts == <<shared, told>>
vars == <<database, workspaces, hosting, planner, at, control, prompts, faults>>

Runs == UNION {{t} \X (1 .. MaxRuns[t]) : t \in Tasks}
NoClone == [head |-> "none", refs |-> <<>>]
NoMemory == [branch |-> "none", commits |-> {}]
NoConfig == [autoBranch |-> FALSE, autoCommit |-> FALSE, autoPush |-> FALSE, autoPR |-> FALSE, memory |-> FALSE]

HeadOf(t) == clone[t].head
History(t) == clone[t].refs[HeadOf(t)]
Snapshot(t) == [clone |-> clone[t], dirty |-> dirty[t]]
NoSnapshot == [clone |-> NoClone, dirty |-> FALSE]

Fault == faults < MaxFaults /\ faults' = faults + 1
NoFault == UNCHANGED faults

Init ==
  /\ row = [t \in Tasks |-> "none"] /\ config = [t \in Tasks |-> NoConfig]
  /\ memories = <<>> /\ reported = {}
  /\ clone = [t \in Tasks |-> NoClone] /\ dirty = [t \in Tasks |-> FALSE]
  /\ saved = [t \in Tasks |-> NoSnapshot] /\ unbranched = {}
  /\ remote = [b \in Branches |-> IF b = Base THEN {<<"others", 0>>} ELSE {}]
  /\ requests = {} /\ merged = {} /\ offered = {}
  /\ planner = [t \in Tasks |-> "off"] /\ at = [r \in Runs |-> "off"]
  /\ registered = [t \in Tasks |-> 0] /\ cancelled = {} /\ stop = {} /\ cutShort = {}
  /\ shared = NoMemory /\ told = [t \in Tasks |-> NoMemory]
  /\ faults = 0

-----------------------------------------------------------------------------
(***************************************************************************)
(* Creation and planning                                                   *)
(***************************************************************************)
SetRow(t, status) == row' = [row EXCEPT ![t] = status]
PlannerAt(t, step) == planner' = [planner EXCEPT ![t] = step]

CreateTask(t) ==
  /\ row[t] = "none"
  /\ \E c \in Configs : config' = [config EXCEPT ![t] = c]
  /\ SetRow(t, "created")
  /\ UNCHANGED <<memories, reported, workspaces, hosting, planner, at, control, prompts, faults>>

\* A new task with the settings of one that has ended, and a copy of its workspace; that
\* the copy failed is only logged.
Relaunch(t, u) ==
  /\ row[t] \in {"completed", "failed"} /\ row[u] = "none"
  /\ SetRow(u, "created")
  /\ config' = [config EXCEPT ![u] = config[t]]
  /\ \/ /\ clone' = [clone EXCEPT ![u] = clone[t]]
        /\ dirty' = [dirty EXCEPT ![u] = dirty[t]]
        /\ unbranched' = IF t \in unbranched THEN unbranched \cup {u} ELSE unbranched
        /\ NoFault
     \/ Fault /\ UNCHANGED <<clone, dirty, unbranched>>
  /\ UNCHANGED <<memories, reported, saved, hosting, planner, at, control, prompts>>

\* Start, and Replan.
Start(t) ==
  /\ row[t] \in {"created", "planned", "failed"} /\ planner[t] = "off"
  /\ SetRow(t, "planning")
  /\ PlannerAt(t, "started")
  /\ UNCHANGED <<config, memories, reported, workspaces, hosting, at, control, prompts, faults>>

\* As if the work branch were made, and not checked out.
CreateWorkBranchOnly(t, commits) == [head |-> Base, refs |-> [b \in {Base, t} |-> commits]]
CreateWorkBranch(t, commits) == [head |-> t, refs |-> [b \in {Base, t} |-> commits]]

\* Without the work branch, the task goes on on the branch that was cloned.
PrepareWorkspace(t) ==
  /\ planner[t] = "started"
  /\ IF clone[t] # NoClone
     THEN PlannerAt(t, "ready") /\ NoFault /\ UNCHANGED <<clone, unbranched>>
     ELSE /\ \/ /\ config[t].autoBranch
                /\ clone' = [clone EXCEPT ![t] = CreateWorkBranch(t, remote[Base])]
                /\ NoFault /\ UNCHANGED unbranched
             \/ /\ clone' = [clone EXCEPT ![t] = [head |-> Base, refs |-> [b \in {Base} |-> remote[Base]]]]
                /\ IF config[t].autoBranch THEN Fault /\ unbranched' = unbranched \cup {t}
                                           ELSE NoFault /\ UNCHANGED unbranched
          /\ PlannerAt(t, IF config[t].memory THEN "cloned" ELSE "ready")
  /\ UNCHANGED <<database, dirty, saved, hosting, at, control, prompts>>

\* runPlanner fails the task when the repository cannot be cloned, or the planner fails.
PlanningFails(t) ==
  /\ \/ planner[t] = "started" /\ clone[t] = NoClone
     \/ planner[t] = "ready"
  /\ Fault
  /\ SetRow(t, "failed")
  /\ PlannerAt(t, "off")
  /\ UNCHANGED <<config, memories, reported, workspaces, hosting, at, control, prompts>>

\* A memory is stored under the branch that is checked out, and looked for under the
\* branch that was asked for.
MemoryOf(t) == [branch |-> HeadOf(t), commits |-> History(t)]
Known(memory) == \E i \in DOMAIN memories : memories[i] = memory

EnsureRepoMemory(t) ==
  /\ planner[t] = "cloned"
  /\ \/ PlannerAt(t, IF Known(MemoryOf(t)) THEN "ready" ELSE "analysed") /\ NoFault
     \/ PlannerAt(t, "ready") /\ Fault
  /\ UNCHANGED <<database, workspaces, hosting, at, control, prompts>>

\* Rows are unique: whoever comes second is refused, which is only logged.
CreateRepoMemory(t) ==
  /\ planner[t] = "analysed"
  /\ memories' = IF Known(MemoryOf(t)) THEN memories ELSE Append(memories, MemoryOf(t))
  /\ PlannerAt(t, "ready")
  /\ UNCHANGED <<row, config, reported, workspaces, hosting, at, control, prompts, faults>>

DeleteRepoMemories ==
  /\ memories # <<>>
  /\ memories' = <<>>
  /\ UNCHANGED <<row, config, reported, workspaces, hosting, planner, at, control, prompts, faults>>

\* The newest row of the branch.
GetRepoMemory(t) ==
  LET ofBranch == SelectSeq(memories, LAMBDA m : m.branch = Base)
  IN  IF ~config[t].memory \/ ofBranch = <<>> THEN NoMemory ELSE ofBranch[Len(ofBranch)]

Plan(t) ==
  /\ planner[t] = "ready"
  /\ told' = [told EXCEPT ![t] = GetRepoMemory(t)]
  /\ SetRow(t, "planned")
  /\ PlannerAt(t, "off")
  /\ UNCHANGED <<config, memories, reported, workspaces, hosting, at, control, shared, faults>>

-----------------------------------------------------------------------------
(***************************************************************************)
(* Execution                                                               *)
(***************************************************************************)
Go(r, step) == at' = [at EXCEPT ![r] = step]
Task(r) == r[1]

\* The next execution of the task.
Launch(t) ==
  \E k \in 1 .. MaxRuns[t] :
    /\ at[<<t, k>>] = "off" /\ \A j \in 1 .. k - 1 : at[<<t, j>>] # "off"
    /\ Go(<<t, k>>, "launched")

Approve(t) ==
  /\ row[t] = "planned" /\ planner[t] = "off"
  /\ SetRow(t, "running")
  /\ Launch(t)
  /\ UNCHANGED <<config, memories, reported, workspaces, hosting, planner, control, prompts, faults>>

\* Resume copies the files of the checkpoint over the workspace: the branch and the
\* index go back to where they were.
Resume(t) ==
  /\ row[t] = "paused"
  /\ IF saved[t] # NoSnapshot
     THEN /\ clone' = [clone EXCEPT ![t] = saved[t].clone]
          /\ dirty' = [dirty EXCEPT ![t] = @ \/ saved[t].dirty \/ clone[t] # saved[t].clone]
     ELSE UNCHANGED <<clone, dirty>>
  /\ SetRow(t, "running")
  /\ Launch(t)
  /\ UNCHANGED <<config, memories, reported, saved, unbranched, hosting, planner, control, prompts, faults>>

\* runExecutor up to Execute: the repository is there since the planning.
Begin(r) ==
  /\ at[r] = "launched"
  /\ registered' = [registered EXCEPT ![Task(r)] = r[2]]
  /\ shared' = GetRepoMemory(Task(r))
  /\ Go(r, "executing")
  /\ UNCHANGED <<database, workspaces, hosting, planner, cancelled, stop, cutShort, told, faults>>

\* The prompt of a subtask is made from the shared field; its agent may change files,
\* as do the input files that runExecutor copies into the workspace (manager.go:794-832).
ExecuteSubtask(r) ==
  /\ at[r] = "executing" /\ r \notin cancelled
  /\ told' = [told EXCEPT ![Task(r)] = shared]
  /\ \E changed \in BOOLEAN : dirty' = [dirty EXCEPT ![Task(r)] = @ \/ changed]
  /\ UNCHANGED <<database, clone, saved, unbranched, hosting, planner, at, control, shared, faults>>

ExecutionEnds(r) ==
  /\ at[r] = "executing" /\ r \notin cancelled
  /\ \/ Go(r, "checking") /\ NoFault /\ UNCHANGED row
     \/ Go(r, "leaving") /\ Fault /\ SetRow(Task(r), "failed")
  /\ UNCHANGED <<config, memories, reported, workspaces, hosting, planner, control, prompts>>

\* A cancelled execution saves a checkpoint of its own.
ExecutionCancelled(r) ==
  /\ at[r] = "executing" /\ r \in cancelled
  /\ \/ saved' = [saved EXCEPT ![Task(r)] = IF @ = NoSnapshot THEN @ ELSE Snapshot(Task(r))] /\ NoFault
     \/ Fault /\ UNCHANGED saved
  /\ Go(r, "leaving")
  /\ UNCHANGED <<database, clone, dirty, unbranched, hosting, planner, control, prompts>>

-----------------------------------------------------------------------------
(***************************************************************************)
(* Post-execution                                                          *)
(***************************************************************************)
PostSteps == <<"committing", "pushing", "opening">>
Wanted(t) == [s \in {"committing", "pushing", "opening"} |->
                CASE s = "committing" -> config[t].autoCommit
                  [] s = "pushing" -> config[t].autoPush
                  [] s = "opening" -> config[t].autoPR]

\* The first wanted step from the i-th on.
StepFrom(t, i) ==
  LET left == {j \in i .. 3 : Wanted(t)[PostSteps[j]]}
  IN  IF left = {} THEN "completing"
      ELSE PostSteps[CHOOSE j \in left : \A l \in left : j <= l]

HasChanges(r) ==
  /\ at[r] = "checking"
  /\ Go(r, IF dirty[Task(r)] THEN StepFrom(Task(r), 1) ELSE "completing")
  /\ UNCHANGED <<database, workspaces, hosting, planner, control, prompts, faults>>

\* Everything in the workspace is committed to the branch that is checked out.  A commit
\* without changes is refused.
CommitAll(r) ==
  LET t == Task(r) IN
    /\ at[r] = "committing" /\ dirty[t]
    /\ clone' = [clone EXCEPT ![t].refs[HeadOf(t)] = @ \cup {r}]
    /\ dirty' = [dirty EXCEPT ![t] = FALSE]
    /\ Go(r, StepFrom(t, 2))
    /\ UNCHANGED <<database, saved, unbranched, hosting, planner, control, prompts, faults>>

\* Without RefSpecs go-git pushes every local branch, all or nothing, none over commits it
\* does not have; to have nothing to push is an error.
Refused(t) == \E b \in DOMAIN clone[t].refs : ~ remote[b] \subseteq clone[t].refs[b]
UpToDate(t) == \A b \in DOMAIN clone[t].refs : remote[b] = clone[t].refs[b]

Push(r) ==
  LET t == Task(r) IN
    /\ at[r] = "pushing" /\ ~Refused(t) /\ ~UpToDate(t)
    /\ remote' = [b \in Branches |-> IF b \in DOMAIN clone[t].refs THEN clone[t].refs[b] ELSE remote[b]]
    /\ Go(r, StepFrom(t, 3))
    /\ UNCHANGED <<database, workspaces, requests, merged, offered, planner, control, prompts, faults>>

\* A host takes one request for a branch that has something the base does not.
CanOpen(b) == b \in Tasks \ requests /\ ~ remote[b] \subseteq remote[Base]

CreatePlatformPR(r) ==
  LET b == HeadOf(Task(r)) IN
    /\ at[r] = "opening" /\ r \notin cancelled /\ CanOpen(b)
    /\ requests' = requests \cup {b}
    /\ offered' = offered \cup {b}
    /\ Go(r, "completing")
    /\ UNCHANGED <<database, workspaces, remote, merged, planner, control, prompts, faults>>

\* The first two use no context.
CannotGoOn(r) ==
  LET t == Task(r) IN
    \/ at[r] = "committing" /\ ~dirty[t]
    \/ at[r] = "pushing" /\ (Refused(t) \/ UpToDate(t))
    \/ at[r] = "opening" /\ (r \in cancelled \/ ~CanOpen(HeadOf(t)))

\* As if an error ended the post-execution like a success.
PostExecutionFailsQuietly(r) ==
  /\ at[r] \in {"committing", "pushing", "opening"}
  /\ IF CannotGoOn(r) THEN NoFault ELSE Fault
  /\ Go(r, "completing")
  /\ UNCHANGED <<database, workspaces, hosting, planner, control, prompts>>

\* What is left of the steps is dropped.  The event is written on the context, too.
PostExecutionFails(r) ==
  /\ at[r] \in {"committing", "pushing", "opening"}
  /\ IF CannotGoOn(r) THEN NoFault ELSE Fault
  /\ reported' = IF r \in cancelled THEN reported ELSE reported \cup {Task(r)}
  /\ Go(r, "completing")
  /\ UNCHANGED <<row, config, memories, workspaces, hosting, planner, control, prompts>>

\* Whatever became of the post-execution.
UpdateTaskCompleted(r) ==
  /\ at[r] = "completing"
  /\ IF r \in cancelled THEN UNCHANGED row ELSE SetRow(Task(r), "completed")
  /\ Go(r, "leaving")
  /\ UNCHANGED <<config, memories, reported, workspaces, hosting, planner, control, prompts, faults>>

Leave(r) ==
  /\ at[r] = "leaving"
  /\ registered' = [registered EXCEPT ![Task(r)] = 0]
  /\ Go(r, "over")
  /\ UNCHANGED <<database, workspaces, hosting, planner, cancelled, stop, cutShort, prompts, faults>>

-----------------------------------------------------------------------------
(***************************************************************************)
(* Stop, in two steps, and the host of the repository                      *)
(***************************************************************************)
\* (Bound: the task can be resumed.)
StopSave(t) ==
  /\ row[t] = "running" /\ t \notin stop /\ at[<<t, MaxRuns[t]>>] = "off"
  /\ \/ saved' = [saved EXCEPT ![t] = Snapshot(t)] /\ NoFault
     \/ Fault /\ UNCHANGED saved
  /\ stop' = stop \cup {t}
  /\ UNCHANGED <<database, clone, dirty, unbranched, hosting, planner, at, registered, cancelled, cutShort, prompts>>

StopCancel(t) ==
  /\ t \in stop
  /\ stop' = stop \ {t}
  /\ cancelled' = IF registered[t] = 0 THEN cancelled ELSE cancelled \cup {<<t, registered[t]>>}
  /\ cutShort' = IF \E k \in 1 .. MaxRuns[t] : at[<<t, k>>] \in {"checking", "committing", "pushing", "opening"}
                 THEN cutShort \cup {t} ELSE cutShort
  /\ SetRow(t, "paused")
  /\ UNCHANGED <<config, memories, reported, workspaces, hosting, planner, at, registered, prompts, faults>>

\* A pull request is merged.
Merge(b) ==
  /\ b \in requests
  /\ requests' = requests \ {b}
  /\ merged' = merged \cup remote[b]
  /\ remote' = [remote EXCEPT ![Base] = @ \cup remote[b]]
  /\ UNCHANGED <<database, workspaces, offered, planner, at, control, prompts, faults>>

-----------------------------------------------------------------------------
Planner(t) ==
  PrepareWorkspace(t) \/ PlanningFails(t) \/ EnsureRepoMemory(t) \/ CreateRepoMemory(t) \/ Plan(t)

PostExecution(r) == HasChanges(r) \/ CommitAll(r) \/ Push(r) \/ CreatePlatformPR(r) \/ PostExecutionFails(r)

Execution(r) ==
  \/ Begin(r) \/ ExecuteSubtask(r) \/ ExecutionEnds(r) \/ ExecutionCancelled(r)
  \/ PostExecution(r) \/ UpdateTaskCompleted(r) \/ Leave(r)

User(t) == CreateTask(t) \/ Start(t) \/ Approve(t) \/ Resume(t) \/ StopSave(t) \/ StopCancel(t)

Next ==
  \/ \E t \in Tasks : User(t) \/ Planner(t) \/ \E u \in Tasks : Relaunch(t, u)
  \/ \E r \in Runs : Execution(r)
  \/ DeleteRepoMemories \/ \E b \in Tasks : Merge(b)

Spec == Init /\ [][Next]_vars
-----------------------------------------------------------------------------
(***************************************************************************)
(* Properties                                                              *)
(***************************************************************************)
Own(t) == {c \in History(t) : c[1] = t}

\* A completed task has pushed what it committed and offered it as its settings ask, or
\* has an event that says it did not, whatever other tasks pushed meanwhile and however often
\* it was stopped while its agents worked (manager.go:835-875, postexec.go:23-68).  Only a
\* Stop during these steps may leave work unpublished with nothing to tell.
AtRest(t) == \A k \in 1 .. MaxRuns[t] : at[<<t, k>>] \in {"off", "over"}

PublishedOrReported ==
  \A t \in Tasks \ (reported \cup cutShort) :
    row[t] = "completed" /\ AtRest(t) /\ config[t].autoCommit =>
      /\ config[t].autoPush => Own(t) \subseteq remote[HeadOf(t)]
      /\ config[t].autoPR /\ Own(t) # {} => HeadOf(t) \in offered

\* The commits of a task that works on a branch of its own come to the base branch
\* through a pull request only, though every push is of all branches, unless the branch
\* could not be made (manager.go:676-684, repo/manager.go:48-77, 113-131).
WorkStaysOffBase ==
  \A c \in remote[Base] \ merged : c[1] \in Tasks \ unbranched => ~config[c[1]].autoBranch

\* A task whose template has not enabled the memory is told none: "Optional feature,
\* enabled per template via enable_memory flag" (migrations/006_repo_memory.sql:2).
\* It does not hold: the field of the executor is shared (manager.go:1040, executor.go:185).
MemoryIsOptIn == \A t \in Tasks : told[t] # NoMemory => config[t].memory
=============================================================================
