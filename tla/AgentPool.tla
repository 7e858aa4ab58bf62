------------------------------ MODULE AgentPool ------------------------------
(***************************************************************************)
(* agent.Pool (internal/agent/pool.go): the two admission limits, the      *)
(* steps of Spawn, the monitor goroutine of every agent, Terminate and     *)
(* Wait.  Each step below is one critical section of p.mu or one call to   *)
(* Docker, the database or the stream hub; between two of them any other   *)
(* goroutine may run, and the context of the task may be cancelled.        *)
(*                                                                         *)
(* An id of Agents stands for one admitted call of Spawn (the code draws   *)
(* the uuid after the admission check).  A refused call (ErrPoolFull,      *)
(* ErrTaskLimitReached) changes nothing and so is a stuttering step.       *)
(***************************************************************************)
EXTENDS Integers, FiniteSets

CONSTANTS
  Tasks,
  Callers,       \* goroutines that call Spawn: planner, orchestrator, reviewer...
  Agents,
  TaskOf,        \* the task each caller works for
  Stoppable,     \* tasks whose agents run under a context that can be cancelled
                 \* (an execution; the planner's agent runs under Background)
  CallerOf,      \* the caller that spawns each agent
  MaxAgents,     \* config docker.max_agents
  MaxPerTask,    \* config docker.max_agents_per_task
  Faults         \* the external operations that may fail of themselves

FaultKinds ==
  {"createRow", "createContainer", "noteContainer", "start", "wait", "remove", "completeRow"}

ASSUME PoolAssumption ==
  /\ IsFiniteSet(Callers) /\ IsFiniteSet(Agents)
  /\ TaskOf \in [Callers -> Tasks] /\ Stoppable \subseteq Tasks
  /\ CallerOf \in [Agents -> Callers]
  /\ MaxAgents \in Nat \ {0} /\ MaxPerTask \in Nat \ {0}
  /\ Faults \subseteq FaultKinds

VARIABLES
  spawn,       \* how far the call of Spawn that creates the agent has come
  active,      \* keys of Pool.active, and of Pool.waiters: they change together
  monitor,     \* how far monitorContainer has come
  result,      \* the AgentResult the monitor settled on
  wait,        \* the caller of Wait: not called, attached to the channel, or its answer
  doomed,      \* agents TerminateTaskAgents has listed and not yet stopped
  cancelled,   \* tasks whose execution context is cancelled
  container,   \* Docker: state of the agent's container
  exit,        \* Docker: its exit code
  row,         \* database: agents.status
  stream       \* stream hub: agents with a registered stream

vars == <<spawn, active, monitor, result, wait, doomed, cancelled, container, exit, row, stream>>

SpawnSteps == {"admitted", "recorded", "contained", "noted", "registered", "startFailed", "started"}
MonitorSteps == {"watching", "decided", "removed", "freed", "unregistered", "recorded"}
Answers == {"success", "failure"}

Task(a) == TaskOf[CallerOf[a]]

\* Agents whose Spawn is past the admission check and not yet over.
InFlight == {a \in Agents : spawn[a] \in SpawnSteps}

\* What p.mu protects, and what has passed the check without being counted.
Claimed == active \cup InFlight

MayFail(a, op) == Task(a) \in cancelled \/ op \in Faults
MaySucceed(a) == Task(a) \notin cancelled

AdvanceSpawn(a, from, to) ==
  /\ spawn[a] = from
  /\ spawn' = [spawn EXCEPT ![a] = to]

AdvanceMonitor(a, from, to) ==
  /\ monitor[a] = from
  /\ monitor' = [monitor EXCEPT ![a] = to]
------------------------------------------------------------------------------
Init ==
  /\ spawn = [a \in Agents |-> "idle"]
  /\ active = {}
  /\ monitor = [a \in Agents |-> "none"]
  /\ result = [a \in Agents |-> "none"]
  /\ wait = [a \in Agents |-> "none"]
  /\ doomed = {}
  /\ cancelled = {}
  /\ container = [a \in Agents |-> "none"]
  /\ exit = [a \in Agents |-> "none"]
  /\ row = [a \in Agents |-> "none"]
  /\ stream = {}

(***************************************************************************)
(* Spawn                                                                   *)
(***************************************************************************)

GlobalRoom == Cardinality(active) < MaxAgents

TaskRoom(t) == Cardinality({b \in active : Task(b) = t}) < MaxPerTask

\* The admission check reads Pool.active under the lock and reserves nothing.
\* A caller makes its calls of Spawn one after the other.
Admit(a) ==
  /\ \A b \in InFlight : CallerOf[b] # CallerOf[a]
  /\ GlobalRoom
  /\ TaskRoom(Task(a))
  /\ AdvanceSpawn(a, "idle", "admitted")
  /\ UNCHANGED <<active, monitor, result, wait, doomed, cancelled, container, exit, row, stream>>

CreateAgentRow(a) ==
  /\ \/ /\ MaySucceed(a)
        /\ AdvanceSpawn(a, "admitted", "recorded")
        /\ row' = [row EXCEPT ![a] = "created"]
     \/ /\ MayFail(a, "createRow")
        /\ AdvanceSpawn(a, "admitted", "failed")
        /\ UNCHANGED row
  /\ UNCHANGED <<active, monitor, result, wait, doomed, cancelled, container, exit, stream>>

\* A call of Docker that reports an error may have taken effect all the same
\* (its context can be cancelled while the daemon is at work).
CreateContainer(a) ==
  /\ \/ /\ MaySucceed(a)
        /\ AdvanceSpawn(a, "recorded", "contained")
        /\ container' = [container EXCEPT ![a] = "created"]
     \/ /\ MayFail(a, "createContainer")
        /\ AdvanceSpawn(a, "recorded", "failed")
        /\ container' \in {container, [container EXCEPT ![a] = "created"]}
  /\ UNCHANGED <<active, monitor, result, wait, doomed, cancelled, exit, row, stream>>

\* A failure to note the container id is only logged.
UpdateAgentContainer(a) ==
  /\ AdvanceSpawn(a, "contained", "noted")
  /\ \/ /\ MaySucceed(a)
        /\ row' = [row EXCEPT ![a] = "running"]
     \/ /\ MayFail(a, "noteContainer")
        /\ UNCHANGED row
  /\ UNCHANGED <<active, monitor, result, wait, doomed, cancelled, container, exit, stream>>

RegisterStream(a) ==
  /\ AdvanceSpawn(a, "noted", "registered")
  /\ stream' = stream \cup {a}
  /\ UNCHANGED <<active, monitor, result, wait, doomed, cancelled, container, exit, row>>

StartContainer(a) ==
  /\ \/ /\ MaySucceed(a)
        /\ AdvanceSpawn(a, "registered", "started")
        /\ container' = [container EXCEPT ![a] = "running"]
     \/ /\ MayFail(a, "start")
        /\ AdvanceSpawn(a, "registered", "startFailed")
        /\ container' \in {container, [container EXCEPT ![a] = "running"]}
  /\ UNCHANGED <<active, monitor, result, wait, doomed, cancelled, exit, row, stream>>

\* The removal after a failed start uses the context of the task, so it fails
\* too when the cancellation of that context is what made the start fail.
\* The agent's row keeps the status it has.
UndoStart(a) ==
  /\ AdvanceSpawn(a, "startFailed", "failed")
  /\ \/ /\ MaySucceed(a)
        /\ container' = [container EXCEPT ![a] = "gone"]
     \/ /\ MayFail(a, "remove")
        /\ UNCHANGED container
  /\ stream' = stream \ {a}
  /\ UNCHANGED <<active, monitor, result, wait, doomed, cancelled, exit, row>>

\* Insertion into active and waiters, and `go p.monitorContainer`.
Activate(a) ==
  /\ AdvanceSpawn(a, "started", "returned")
  /\ active' = active \cup {a}
  /\ monitor' = [monitor EXCEPT ![a] = "watching"]
  /\ UNCHANGED <<result, wait, doomed, cancelled, container, exit, row, stream>>

(***************************************************************************)
(* monitorContainer                                                        *)
(***************************************************************************)

\* The select of the monitor.  The exit status is taken as it is, even when
\* the context is cancelled too; a cancelled context, a failed wait or an exit
\* that comes with an error is a failure, whether or not the container still runs.
SettleOnExit(a) ==
  /\ container[a] = "exited"
  /\ AdvanceMonitor(a, "watching", "decided")
  /\ result' = [result EXCEPT ![a] = IF exit[a] = "zero" THEN "success" ELSE "failure"]
  /\ UNCHANGED <<spawn, active, wait, doomed, cancelled, container, exit, row, stream>>

SettleOnError(a) ==
  /\ MayFail(a, "wait")
  /\ AdvanceMonitor(a, "watching", "decided")
  /\ result' = [result EXCEPT ![a] = "failure"]
  /\ UNCHANGED <<spawn, active, wait, doomed, cancelled, container, exit, row, stream>>

\* As if the removal were left to Docker's own clean-up of containers.
RemoveContainerSkipped(a) ==
  /\ AdvanceMonitor(a, "decided", "removed")
  /\ UNCHANGED <<spawn, active, result, wait, doomed, cancelled, container, exit, row, stream>>

\* A forced removal, with a context of its own; a failure is only logged.
RemoveContainer(a) ==
  /\ AdvanceMonitor(a, "decided", "removed")
  /\ \/ container' = [container EXCEPT ![a] = "gone"]
     \/ /\ "remove" \in Faults
        /\ UNCHANGED container
  /\ UNCHANGED <<spawn, active, result, wait, doomed, cancelled, exit, row, stream>>

\* As if only the waiters entry were deleted.
FreeSlotKept(a) ==
  /\ AdvanceMonitor(a, "removed", "freed")
  /\ UNCHANGED <<spawn, active, result, wait, doomed, cancelled, container, exit, row, stream>>

FreeSlot(a) ==
  /\ AdvanceMonitor(a, "removed", "freed")
  /\ active' = active \ {a}
  /\ UNCHANGED <<spawn, result, wait, doomed, cancelled, container, exit, row, stream>>

UnregisterStream(a) ==
  /\ AdvanceMonitor(a, "freed", "unregistered")
  /\ stream' = stream \ {a}
  /\ UNCHANGED <<spawn, active, result, wait, doomed, cancelled, container, exit, row>>

\* The row is given its word by the exit code alone: a container that exited with
\* code zero and an error from Docker is a failure, but its row says "completed".
CompleteRow(a) ==
  /\ AdvanceMonitor(a, "unregistered", "recorded")
  /\ \/ row' = [row EXCEPT ![a] = IF result[a] = "success" THEN "completed" ELSE "failed"]
     \/ /\ "wait" \in Faults /\ exit[a] = "zero"
        /\ row' = [row EXCEPT ![a] = "completed"]
     \/ /\ "completeRow" \in Faults
        /\ UNCHANGED row
  /\ UNCHANGED <<spawn, active, result, wait, doomed, cancelled, container, exit, stream>>

\* The channel has room for the one result it ever carries.
SendResult(a) ==
  /\ AdvanceMonitor(a, "recorded", "done")
  /\ UNCHANGED <<spawn, active, result, wait, doomed, cancelled, container, exit, row, stream>>

(***************************************************************************)
(* Wait, as its callers use it: `<-pool.Wait(id)` once per agent, some     *)
(* time after Spawn has returned.                                          *)
(***************************************************************************)
\* As if a missing id gave the zero AgentResult, which reads as exit code 0.
WaitZeroResult(a) ==
  /\ spawn[a] = "returned"
  /\ wait[a] = "none"
  /\ wait' = [wait EXCEPT ![a] = IF a \in active THEN "attached" ELSE "success"]
  /\ UNCHANGED <<spawn, active, monitor, result, doomed, cancelled, container, exit, row, stream>>

\* As if a missing id gave the nil channel of the map lookup, which blocks for ever.
WaitNilChannel(a) ==
  /\ spawn[a] = "returned"
  /\ wait[a] = "none"
  /\ a \in active
  /\ wait' = [wait EXCEPT ![a] = "attached"]
  /\ UNCHANGED <<spawn, active, monitor, result, doomed, cancelled, container, exit, row, stream>>

Wait(a) ==
  /\ spawn[a] = "returned"
  /\ wait[a] = "none"
  /\ wait' = [wait EXCEPT ![a] = IF a \in active THEN "attached" ELSE "failure"]
  /\ UNCHANGED <<spawn, active, monitor, result, doomed, cancelled, container, exit, row, stream>>

\* As if the result were sent before the database update.
ResultSentEarly(a) == monitor[a] \in {"freed", "unregistered", "recorded", "done"}
ResultSent(a) == monitor[a] = "done"

Receive(a) ==
  /\ wait[a] = "attached"
  /\ ResultSent(a)
  /\ wait' = [wait EXCEPT ![a] = result[a]]
  /\ UNCHANGED <<spawn, active, monitor, result, doomed, cancelled, container, exit, row, stream>>

(***************************************************************************)
(* TerminateTaskAgents lists the active agents of a task, then terminates  *)
(* them one by one; Terminate looks the agent up again and stops its       *)
(* container.  The stop leaves the container with any exit code.           *)
(***************************************************************************)
TerminateTaskAgents(t) ==
  /\ doomed' = doomed \cup {a \in active : Task(a) = t}
  /\ UNCHANGED <<spawn, active, monitor, result, wait, cancelled, container, exit, row, stream>>

Terminate(a) ==
  /\ a \in doomed
  /\ doomed' = doomed \ {a}
  /\ \/ /\ a \in active
        /\ container[a] = "running"
        /\ container' = [container EXCEPT ![a] = "exited"]
        /\ \E code \in {"zero", "nonzero"} : exit' = [exit EXCEPT ![a] = code]
     \/ /\ a \notin active \/ container[a] # "running"
        /\ UNCHANGED <<container, exit>>
  /\ UNCHANGED <<spawn, active, monitor, result, wait, cancelled, row, stream>>

(***************************************************************************)
(* The rest of the system: contexts are cancelled, containers exit.        *)
(***************************************************************************)
Cancel(t) ==
  /\ cancelled' = cancelled \cup {t}
  /\ UNCHANGED <<spawn, active, monitor, result, wait, doomed, container, exit, row, stream>>

Exit(a) ==
  /\ container[a] = "running"
  /\ container' = [container EXCEPT ![a] = "exited"]
  /\ \E code \in {"zero", "nonzero"} : exit' = [exit EXCEPT ![a] = code]
  /\ UNCHANGED <<spawn, active, monitor, result, wait, doomed, cancelled, row, stream>>
------------------------------------------------------------------------------
SpawnStep(a) ==
  \/ Admit(a) \/ CreateAgentRow(a) \/ CreateContainer(a) \/ UpdateAgentContainer(a)
  \/ RegisterStream(a) \/ StartContainer(a) \/ UndoStart(a) \/ Activate(a)

MonitorStep(a) ==
  \/ SettleOnExit(a) \/ SettleOnError(a) \/ RemoveContainer(a) \/ FreeSlot(a)
  \/ UnregisterStream(a) \/ CompleteRow(a) \/ SendResult(a)

Next ==
  \/ \E a \in Agents :
       \/ SpawnStep(a) \/ MonitorStep(a) \/ Wait(a) \/ Receive(a)
       \/ Terminate(a) \/ Exit(a)
  \/ \E t \in Stoppable : TerminateTaskAgents(t) \/ Cancel(t)

(***************************************************************************)
(* The Go scheduler runs every goroutine that can run: a call of Spawn, a  *)
(* monitor and a waiter keep going.  Nothing makes an agent exit, a user   *)
(* stop a task or a refused caller be admitted.                            *)
(***************************************************************************)
Fairness ==
  \A a \in Agents :
    /\ WF_vars(SpawnStep(a) /\ spawn[a] # "idle")
    /\ WF_vars(MonitorStep(a))
    /\ WF_vars(Wait(a))
    /\ WF_vars(Receive(a))
    /\ WF_vars(Terminate(a))

Spec == Init /\ [][Next]_vars

FairSpec == Spec /\ Fairness
------------------------------------------------------------------------------
(***************************************************************************)
(* Properties                                                              *)
(***************************************************************************)

TypeOK ==
  /\ spawn \in [Agents -> {"idle", "returned", "failed"} \cup SpawnSteps]
  /\ active \subseteq Agents
  /\ monitor \in [Agents -> {"none", "done"} \cup MonitorSteps]
  /\ result \in [Agents -> {"none"} \cup Answers]
  /\ wait \in [Agents -> {"none", "attached"} \cup Answers]
  /\ doomed \subseteq Agents
  /\ cancelled \subseteq Tasks
  /\ container \in [Agents -> {"none", "created", "running", "exited", "gone"}]
  /\ exit \in [Agents -> {"none", "zero", "nonzero"}]
  /\ row \in [Agents -> {"none", "created", "running", "completed", "failed"}]
  /\ stream \subseteq Agents

CallersOf(t) == {c \in Callers : TaskOf[c] = t}
ActiveOf(t) == {a \in active : Task(a) = t}

\* The check of Spawn and the insertion are two critical sections, so the
\* global limit can be passed, but only by the callers that were admitted
\* together: by less than the number of goroutines that spawn (pool.go:109,201).
\* With several of them it is not the "Global concurrent agent limit" that the
\* configuration promises (README.md:257).
OvershootBound == Cardinality(active) <= MaxAgents + Cardinality(Callers) - 1

\* The same for the limit of one task; a task whose agents are all spawned by
\* one goroutine never passes its limit (pool.go:115-123).
PerTaskBound ==
  \A t \in Tasks :
    ActiveOf(t) # {} =>
      Cardinality(ActiveOf(t)) <= MaxPerTask + Cardinality(CallersOf(t)) - 1

\* Whoever reads a success from Wait reads it of an agent whose container did
\* exit with code zero, and finds the slot free, the stream closed and (unless
\* the database failed) the row already completed: the order of the steps at
\* the end of monitorContainer, whatever else runs between them.
SuccessIsSettled ==
  \A a \in Agents :
    wait[a] = "success" =>
      /\ exit[a] = "zero"
      /\ a \notin active \cup stream
      /\ "completeRow" \notin Faults => row[a] = "completed"

\* An agent that runs is counted: once Spawn has returned, its container runs
\* only while it holds a slot, so that the limits bound the containers and not
\* just the map.  (Unless Docker refused to remove it.)
RunningHoldsSlot ==
  "remove" \notin Faults =>
    \A a \in Agents :
      spawn[a] = "returned" /\ container[a] = "running" => a \in active

\* The faults that orphan a container without any cancellation.
OrphaningFaults == {"createContainer", "remove"}

\* A container that nobody watches any more is gone, except when a start that
\* failed was undone with a cancelled context or a creation reported an error
\* it had got over: an orphan always belongs to a failed Spawn of a cancelled
\* task or to a fault of Docker.
OrphansExplained ==
  \A a \in Agents :
    /\ container[a] \in {"created", "running", "exited"}
    /\ spawn[a] \in {"returned", "failed"}
    /\ monitor[a] \in {"none", "done"}
    => \/ Faults \cap OrphaningFaults # {}
       \/ spawn[a] = "failed" /\ Task(a) \in cancelled

(***************************************************************************)
(* Why they hold: an inductive invariant.  Slots and monitors go together, *)
(* and each stage of the monitor leaves its mark.                          *)
(***************************************************************************)
Past(a, stages) == monitor[a] \in stages \cup {"done"}

SlotsMatchMonitors ==
  \A a \in Agents :
    /\ spawn[a] = "returned" <=> monitor[a] # "none"
    /\ a \in active <=> monitor[a] \in {"watching", "decided", "removed"}

CallsLeaveMarks ==
  \A a \in Agents :
    /\ spawn[a] \in {"idle", "admitted", "recorded"} => container[a] = "none"
    /\ spawn[a] \in {"contained", "noted", "registered"} => container[a] = "created"
    /\ spawn[a] = "failed" /\ Faults \cap OrphaningFaults = {} /\ Task(a) \notin cancelled
         => container[a] \in {"none", "gone"}

StagesLeaveMarks ==
  \A a \in Agents :
    /\ Past(a, MonitorSteps \ {"watching"}) => result[a] \in Answers
    /\ Past(a, MonitorSteps \ {"watching"}) /\ result[a] = "success" => exit[a] = "zero"
    /\ Past(a, MonitorSteps \ {"watching", "decided"}) /\ "remove" \notin Faults
         => container[a] = "gone"
    /\ Past(a, {"unregistered", "recorded"}) => a \notin stream
    /\ Past(a, {"recorded"}) /\ "completeRow" \notin Faults /\ result[a] = "success"
         => row[a] = "completed"

AnswersAreSent ==
  \A a \in Agents :
    /\ wait[a] # "none" => spawn[a] = "returned"
    /\ wait[a] = "success" => monitor[a] = "done" /\ result[a] = "success"
    /\ exit[a] # "none" => container[a] \in {"exited", "gone"}

OneCallAtATime ==
  \A a, b \in InFlight : CallerOf[a] = CallerOf[b] => a = b

ClaimsBounded ==
  /\ Cardinality(Claimed) <= MaxAgents + Cardinality(Callers) - 1
  /\ \A c \in Callers :
       Cardinality({a \in Claimed : Task(a) = TaskOf[c]})
         <= MaxPerTask + Cardinality(CallersOf(TaskOf[c])) - 1

PoolInv ==
  /\ TypeOK /\ SlotsMatchMonitors /\ CallsLeaveMarks /\ StagesLeaveMarks /\ AnswersAreSent
  /\ OneCallAtATime /\ ClaimsBounded

\* A slot is given back once the agent has exited or its task is cancelled.
SlotsReturn ==
  \A a \in Agents :
    (a \in active /\ (container[a] = "exited" \/ Task(a) \in cancelled)) ~> (a \notin active)

\* Nobody waits forever on an agent that has exited or whose task is cancelled.
WaitersAnswered ==
  \A a \in Agents :
    (spawn[a] = "returned" /\ (container[a] = "exited" \/ Task(a) \in cancelled))
      ~> (wait[a] \in Answers)

\* What the comment of Wait says, that the channel "receives the result when
\* an agent completes" (pool.go:363).  It does not hold (README, section 5): an agent
\* may end before its waiter has attached.
WaitTellsResult ==
  \A a \in Agents : (wait[a] = "failure" /\ monitor[a] = "done") => result[a] = "failure"

\* The promise of AgentHandles: an agent is live while it is in active.
HandleOf(a) ==
  IF a \in active THEN "live"
  ELSE IF monitor[a] \in {"freed", "unregistered", "recorded", "done"}
       THEN IF result[a] = "success" THEN "won" ELSE "lost"
       ELSE "unborn"

HeardOf(a) ==
  IF wait[a] = "none" THEN "nothing"
  ELSE IF wait[a] = "attached" THEN "attached"
  ELSE IF wait[a] = "success" THEN "won" ELSE "lost"

Handles == INSTANCE AgentHandles WITH
  handle <- [a \in Agents |-> HandleOf(a)],
  heard <- [a \in Agents |-> HeardOf(a)]

\* Every step of the pool is a step of the handles its callers rely on.
ImplementsHandles == Handles!HandlesSpec
==============================================================================
