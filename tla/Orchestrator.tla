---------------------------- MODULE Orchestrator ----------------------------
(***************************************************************************)
(* Orchestrator.Run (internal/task/orchestrator.go): the loop that spawns  *)
(* an agent for every ready subtask of a plan, waits for agents to end and *)
(* spawns again; and what surrounds a run: the agents themselves (as the   *)
(* handles the pool promises), the slots other tasks hold in the pool, the *)
(* Stop that terminates the agents and cancels the context, and the Resume *)
(* that starts another run from the stored plan.                           *)
(*                                                                         *)
(* One goroutine executes Run; agents end, waiters listen, slots come and  *)
(* go and the user stops the task between any two of its steps.  The       *)
(* stored plan lives in the database; its updates use the context of the   *)
(* run, so that nothing is stored once it is cancelled.                    *)
(***************************************************************************)
EXTENDS Integers, FiniteSets, DependencyGraph

CONSTANTS
  Subtasks, Files, Nobody,
  Plans,         \* the plans considered: [deps, files, reviewer]
  Failing,       \* subtasks whose agent may fail of itself
  MaxRuns,       \* bound: one run and MaxRuns - 1 resumptions
  MaxAgents,     \* config docker.max_agents
  MaxPerTask,    \* config docker.max_agents_per_task
  MaxOthers,     \* bound: slots held by the agents of other tasks
  SpawnFaults    \* whether Docker or the database may make Spawn fail

ASSUME OrchestratorAssumption ==
  /\ Plans \subseteq [deps : [Subtasks -> SUBSET Subtasks],
                      files : [Subtasks -> SUBSET Files], reviewer : BOOLEAN]
  /\ Nobody \notin Subtasks
  /\ Failing \subseteq Subtasks
  /\ MaxRuns \in Nat \ {0}
  /\ MaxAgents \in Nat \ {0} /\ MaxPerTask \in Nat \ {0} /\ MaxOthers \in Nat
  /\ SpawnFaults \in BOOLEAN

Agents == Subtasks \X (1 .. MaxRuns)     \* the agent of a subtask in a run

VARIABLES
  plan,       \* the plan being executed; never changes
  pc,         \* where the goroutine of Run is
  run,        \* number of this run
  status,     \* DependencyGraph.status
  memory,     \* plan.Subtasks[i].Status of this run
  stored,     \* the same in the database
  locks,      \* FileLockService.locks
  running,    \* subtasks in the map `running'
  todo,       \* rest of the ready subtasks of this pass of spawnReady
  current,    \* subtask whose agent has just been spawned
  stopping,   \* Stop has begun: it has listed the agents and terminates them
  listed,     \* the agents it listed
  cancelled,  \* the context of this run is cancelled
  others,     \* pool slots held by other tasks
  handle, heard     \* the agents, see AgentHandles

Pool == INSTANCE AgentHandles

Lock == INSTANCE FileLocks

graphVars == <<status, memory, stored>>
loopVars == <<locks, running, todo, current>>
ctxVars == <<stopping, listed, cancelled>>
vars == <<plan, pc, run, graphVars, loopVars, ctxVars, others, handle, heard>>

Agent(s) == <<s, run>>
Ready == GetReady(status, plan.deps)
LiveAgents == {a \in Agents : handle[a] = "live"}

\* The admission check of Pool.Spawn.
PoolHasRoom ==
  /\ Cardinality(LiveAgents) + others < MaxAgents
  /\ Cardinality(LiveAgents) < MaxPerTask

\* updatePlanSubtasks: fails, and is only logged, when the context is cancelled.
Store(planStatus) == stored' = IF cancelled THEN stored ELSE planStatus

Ended == {"succeeded", "failed", "cancelled"}
------------------------------------------------------------------------------
Init ==
  /\ plan \in Plans
  /\ pc = "starting"
  /\ run = 1
  /\ status = [s \in Subtasks |-> "pending"]
  /\ memory = status
  /\ stored = status
  /\ locks = Lock!NoLocks
  /\ running = {}
  /\ todo = {}
  /\ current = Nobody
  /\ stopping = FALSE
  /\ listed = {}
  /\ cancelled = FALSE
  /\ others \in 0 .. MaxOthers
  /\ Pool!HandlesInit

(***************************************************************************)
(* Run                                                                     *)
(***************************************************************************)

\* BuildGraph and the first pass of spawnReady, or the refusal of a circular
\* plan.
Begin ==
  /\ pc = "starting"
  /\ memory' = stored
  /\ status' = BuildGraph(memory')
  /\ IF HasCycles(plan.deps)
     THEN pc' = "failed" /\ UNCHANGED todo
     ELSE pc' = "spawning" /\ todo' = GetReady(status', plan.deps)
  /\ UNCHANGED <<plan, run, stored, locks, running, current, ctxVars, others, handle, heard>>

\* A file of the subtask is held by another one.
Defer(s) ==
  /\ pc = "spawning" /\ s \in todo
  /\ ~ Lock!CanLock(locks, s, plan.files[s])
  /\ todo' = todo \ {s}
  /\ UNCHANGED <<plan, pc, run, graphVars, locks, running, current, ctxVars, others, handle, heard>>

TakeLocks(s) ==
  /\ pc = "spawning" /\ s \in todo
  /\ Lock!CanLock(locks, s, plan.files[s])
  /\ locks' = Lock!Lock(locks, s, plan.files[s])

SpawnAgent(s) ==
  /\ TakeLocks(s)
  /\ PoolHasRoom
  /\ ~ cancelled
  /\ Pool!Launch(Agent(s))
  /\ current' = s
  /\ pc' = "noting"
  /\ UNCHANGED <<plan, run, graphVars, running, todo, ctxVars, others>>

NoteRunning ==
  /\ pc = "noting"
  /\ status' = MarkRunning(status, current)
  /\ memory' = [memory EXCEPT ![current] = "running"]
  /\ Store(memory')
  /\ running' = running \cup {current}
  /\ todo' = todo \ {current}
  /\ current' = Nobody
  /\ pc' = "spawning"
  /\ UNCHANGED <<plan, run, locks, ctxVars, others, handle, heard>>

\* The pool is full: the pass ends, and the locks just taken stay taken.
SpawnRefused(s) ==
  /\ TakeLocks(s)
  /\ ~ PoolHasRoom
  /\ todo' = {}
  /\ UNCHANGED <<plan, pc, run, graphVars, running, current, ctxVars, others, handle, heard>>

SpawnFails(s) ==
  /\ TakeLocks(s)
  /\ PoolHasRoom
  /\ cancelled \/ SpawnFaults
  /\ pc' = "failed"
  /\ UNCHANGED <<plan, run, graphVars, running, todo, current, ctxVars, others, handle, heard>>

\* The head of the main loop, after a pass of spawnReady.
NothingToDo == AllCompleted(status) \/ (running = {} /\ Ready = {})

ShouldRunReviewer ==
  plan.reviewer \/ Cardinality({s \in Subtasks : memory[s] = "completed"}) > 1

CheckLoop ==
  /\ pc = "spawning" /\ todo = {}
  /\ pc' = IF ~ NothingToDo THEN "selecting"
           ELSE IF ShouldRunReviewer THEN "reviewing" ELSE "succeeded"
  /\ UNCHANGED <<plan, run, graphVars, loopVars, ctxVars, others, handle, heard>>

\* The reviewer gives up on its own deadline, and its failure is not fatal.
Review ==
  /\ pc = "reviewing"
  /\ pc' = "succeeded"
  /\ UNCHANGED <<plan, run, graphVars, loopVars, ctxVars, others, handle, heard>>

\* The select takes whichever is ready: a cancelled context...
SelectCancelled ==
  /\ pc = "selecting"
  /\ cancelled
  /\ pc' = "cancelled"
  /\ UNCHANGED <<plan, run, graphVars, loopVars, ctxVars, others, handle, heard>>

\* ... or a completion event, sent by the goroutine that listened to the agent.
SelectCompletion(s, outcome) ==
  /\ pc = "selecting"
  /\ s \in running
  /\ heard[Agent(s)] = outcome
  /\ running' = running \ {s}
  /\ locks' = Lock!Release(locks, s)
  /\ pc' = "spawning"
  /\ todo' = GetReady(status', plan.deps)

CompleteSubtask(s) ==
  /\ status' = Complete(status, s)
  /\ SelectCompletion(s, "won")
  /\ memory' = [memory EXCEPT ![s] = "completed"]
  /\ Store(memory')
  /\ UNCHANGED <<plan, run, current, ctxVars, others, handle, heard>>

FailSubtask(s) ==
  /\ status' = Fail(status, plan.deps, s)
  /\ SelectCompletion(s, "lost")
  /\ memory' = [memory EXCEPT ![s] = "failed"]
  /\ Store(memory')
  /\ UNCHANGED <<plan, run, current, ctxVars, others, handle, heard>>

(***************************************************************************)
(* Around the run                                                          *)
(***************************************************************************)

\* The goroutine started for the agent; it may be late.  Those of an earlier run
\* send to a channel that nobody reads any more, and are left out.
Listen(a) ==
  /\ a[2] = run /\ a[1] \in running
  /\ Pool!Listen(a)
  /\ UNCHANGED <<plan, pc, run, graphVars, loopVars, ctxVars, others>>

Deliver(a) ==
  /\ a[2] = run
  /\ Pool!Deliver(a)
  /\ UNCHANGED <<plan, pc, run, graphVars, loopVars, ctxVars, others>>

\* An agent that is terminated, or whose context is cancelled, may end with any
\* exit code.
Finish(a) ==
  /\ \/ Pool!Finish(a, "won")
     \/ /\ a[1] \in Failing \/ a \in listed \/ cancelled \/ a[2] < run \/ pc \in Ended
        /\ Pool!Finish(a, "lost")
  /\ UNCHANGED <<plan, pc, run, graphVars, loopVars, ctxVars, others>>

OthersChange ==
  /\ others' \in 0 .. MaxOthers
  /\ UNCHANGED <<plan, pc, run, graphVars, loopVars, ctxVars, handle, heard>>

\* TaskManager.Stop terminates the agents, which takes as long as they need to
\* stop, and only then cancels the context.
Stop ==
  /\ ~ stopping
  /\ pc \notin Ended
  /\ stopping' = TRUE
  /\ listed' = listed \cup LiveAgents
  /\ UNCHANGED <<plan, pc, run, graphVars, loopVars, cancelled, others, handle, heard>>

Cancel ==
  /\ stopping /\ ~ cancelled
  /\ cancelled' = TRUE
  /\ UNCHANGED <<plan, pc, run, graphVars, loopVars, stopping, listed, others, handle, heard>>

\* TaskManager.Resume, once the interrupted run has returned (with whatever result:
\* runExecutor ignores it when the context is cancelled): a new context and a new
\* run of the stored plan.
Resume ==
  /\ cancelled
  /\ pc \in Ended
  /\ run < MaxRuns
  /\ run' = run + 1
  /\ pc' = "starting"
  /\ locks' = Lock!NoLocks
  /\ running' = {}
  /\ todo' = {}
  /\ stopping' = FALSE
  /\ cancelled' = FALSE
  /\ UNCHANGED <<plan, graphVars, current, listed, others, handle, heard>>
------------------------------------------------------------------------------
RunStep ==
  \/ Begin \/ NoteRunning \/ CheckLoop \/ Review \/ SelectCancelled
  \/ \E s \in Subtasks :
       \/ Defer(s) \/ SpawnAgent(s) \/ SpawnRefused(s) \/ SpawnFails(s)
       \/ CompleteSubtask(s) \/ FailSubtask(s)

AgentStep(a) == Listen(a) \/ Deliver(a) \/ Finish(a)

Next == RunStep \/ (\E a \in Agents : AgentStep(a)) \/ OthersChange \/ Stop \/ Cancel \/ Resume

Spec == Init /\ [][Next]_vars

(***************************************************************************)
(* The scheduler keeps running the goroutine of Run and the waiters, an    *)
(* agent ends sooner or later, and a Stop that has begun is carried out.   *)
(* Other tasks, users and resumptions do as they like.                     *)
(***************************************************************************)
Fairness ==
  /\ WF_vars(RunStep)
  /\ \A a \in Agents : WF_vars(Listen(a)) /\ WF_vars(Deliver(a)) /\ WF_vars(Finish(a))
  /\ WF_vars(Cancel)

FairSpec == Spec /\ Fairness
------------------------------------------------------------------------------
(***************************************************************************)
(* Properties                                                              *)
(***************************************************************************)

TypeOK ==
  /\ plan \in Plans
  /\ pc \in {"starting", "spawning", "noting", "selecting", "reviewing"} \cup Ended
  /\ run \in 1 .. MaxRuns
  /\ status \in [Subtasks -> Statuses]
  /\ memory \in [Subtasks -> Statuses] /\ stored \in [Subtasks -> Statuses]
  /\ locks \in [Files -> Subtasks \cup {Nobody}]
  /\ running \subseteq Subtasks /\ todo \subseteq Subtasks
  /\ current \in Subtasks \cup {Nobody}
  /\ stopping \in BOOLEAN /\ cancelled \in BOOLEAN /\ listed \subseteq Agents
  /\ others \in 0 .. MaxOthers
  /\ Pool!HandlesTypeOK

\* "Each subtask waits for its dependencies to complete before starting"
\* (README.md:240): no agent is ever launched before an agent of each of its
\* dependencies has really ended well, whatever failed, was stopped, resumed or
\* lost on the way.
DependenciesFirst ==
  \A s \in Subtasks, r \in 1 .. MaxRuns :
    handle[<<s, r>>] # "unborn" =>
      \A d \in plan.deps[s] : \E q \in 1 .. r : handle[<<d, q>>] = "won"

Conflict(s, t) == plan.files[s] \cap plan.files[t] # {}

\* Two agents of one run never work on the same file (filelock.go:5): not while
\* an agent that ended has yet to be noticed, nor after a deferral.  Nothing of the
\* kind holds of two runs: every run has a lock service of its own, and an agent
\* launched after Stop made its list may be at work when the next run begins.
FileExclusion ==
  \A s, t \in Subtasks :
    s # t /\ Agent(s) \in LiveAgents /\ Agent(t) \in LiveAgents => ~ Conflict(s, t)

\* No file is locked by a subtask that will not run again: the lock a subtask
\* keeps when the pool refuses it (orchestrator.go:97,130) blocks the others
\* only until it is its turn.
LocksAreUsed ==
  \A f \in Files : locks[f] # Nobody => locks[f] \in running \cup {current} \cup Ready

\* In a first run, a subtask is skipped exactly when something it depends on,
\* directly or not, failed (dependency.go:101-115): nothing waits for a
\* dependency that will not complete, and nothing is given up without a cause.
SkipsExact ==
  run = 1 =>
    \A s \in Subtasks :
      LET hopeless == \E d \in plan.deps[s] : status[d] \in {"failed", "skipped"}
      IN  /\ status[s] = "pending" => ~ hopeless
          /\ status[s] = "skipped" => hopeless

\* A first run that returns without an error has dealt with every subtask: the
\* way out of the loop for "nothing running and nothing ready"
\* (orchestrator.go:185-194) never abandons one.
NothingLeftBehind == run = 1 /\ pc \in {"reviewing", "succeeded"} => AllCompleted(status)

\* Once the stored plan says a subtask is completed it says so for good, and no
\* run ever spawns an agent for it again ("it will skip already-completed
\* subtasks", manager.go:337).
CompletedForGood ==
  [][\A s \in Subtasks :
       stored[s] = "completed" =>
         /\ stored'[s] = "completed"
         /\ \A r \in 1 .. MaxRuns : handle[<<s, r>>] = "unborn" => handle'[<<s, r>>] = "unborn"]_vars

(***************************************************************************)
(* Why they hold: an inductive invariant.                                  *)
(***************************************************************************)

\* The agents of a run that has not begun do not exist.
RunsAreFresh ==
  \A a \in Agents : a[2] > run \/ (a[2] = run /\ pc = "starting") => handle[a] = "unborn"

\* Listeners are told of agents that ended, and of a success only if it was one.
AnswersAreTrue ==
  \A a \in Agents :
    /\ heard[a] \in Pool!Outcomes => handle[a] \in Pool!Outcomes
    /\ heard[a] = "won" => handle[a] = "won"

\* A subtask is called completed by the graph, the plan in memory or the stored
\* plan only if an agent of this or an earlier run completed it.
CompletedIsEarned ==
  \A s \in Subtasks :
    "completed" \in {status[s], memory[s], stored[s]} =>
      \E q \in 1 .. run : handle[<<s, q>>] = "won"

\* The list spawnReady works on is not overtaken by its own steps.
TodoIsReady ==
  /\ pc \in {"spawning", "noting"} => todo \subseteq Ready
  /\ IF pc = "noting" THEN current \in todo ELSE current = Nobody

NothingYet == pc = "starting" => running = {} /\ locks = Lock!NoLocks

\* A subtask in the map `running' is running in the graph, and stays so when
\* another fails: what it depends on is completed.
RunningIsMarked ==
  \A s \in running : status[s] = "running" /\ AllDepsCompleted(status, plan.deps, s)

LiveAreRunning == \A s \in Subtasks : Agent(s) \in LiveAgents => s \in running \cup {current}

RunningHoldLocks ==
  \A s \in Subtasks \cap (running \cup {current}) : \A f \in plan.files[s] : locks[f] = s

\* The three places that hold the status of a subtask agree on what is completed,
\* the database possibly lagging behind.
StoredIsRemembered ==
  pc # "starting" =>
    \A s \in Subtasks :
      /\ stored[s] = "completed" => memory[s] = "completed"
      /\ memory[s] = "completed" <=> status[s] = "completed"

FirstRunIsExact ==
  run = 1 =>
    /\ \A s \in Subtasks : status[s] = "running" => s \in running
    /\ pc = "starting" =>
         \A s \in Subtasks : status[s] = "pending" /\ stored[s] = "pending"
    /\ pc \notin {"starting", "failed"} => ~ HasCycles(plan.deps)

OrchestratorInv ==
  /\ TypeOK /\ RunsAreFresh /\ AnswersAreTrue /\ CompletedIsEarned /\ TodoIsReady
  /\ NothingYet /\ RunningIsMarked /\ LiveAreRunning /\ RunningHoldLocks
  /\ StoredIsRemembered /\ FirstRunIsExact
  /\ DependenciesFirst /\ LocksAreUsed /\ SkipsExact /\ NothingLeftBehind

\* A first run always comes to an end, if the other tasks leave the pool some
\* room (orchestrator.go:107-194).  A resumed run need not: the agents launched
\* after Stop made its list may hold the slots it needs, and a run that was refused
\* its first slot waits for a completion that cannot come.
RunReturns == (run = 1 /\ pc = "starting") ~> (pc \in Ended)

\* The comment "will retry when slot opens" (orchestrator.go:131): when the
\* other tasks leave the pool for good, the run goes on.  It does not hold
\* (README, section 5): with no agent of its own to wait for, the loop waits for
\* a completion that cannot come.
RetriesWhenSlotOpens == <>[](others = 0) => RunReturns

\* A resumed run "will skip already-completed subtasks" (manager.go:337) and so
\* executes the others, whose agents do not fail here.  It does not hold
\* (README, section 5): a subtask that was running when the task was stopped is
\* taken for running for ever.
ResumeFinishesPlan ==
  run > 1 /\ pc = "succeeded" => \A s \in Subtasks : status[s] = "completed"
==============================================================================
