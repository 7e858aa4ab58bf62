---------------------------- MODULE Collaborative ----------------------------
(***************************************************************************)
(* Orchestrator.RunCollaborative (internal/task/collaborative.go): a team  *)
(* manager and all workers run at the same time.  They talk through the    *)
(* messages of the task (internal/api/teams.go), which are kept in the     *)
(* database and published on the message bus (internal/stream/msgbus.go).  *)
(* When all workers have ended, the orchestrator asks the manager for its  *)
(* decision: to exit, or to have workers spawned again.                    *)
(*                                                                         *)
(* Agents follow the protocol their prompts prescribe, or crash.  A worker *)
(* that has finished polls the messages, from the first one, until it is   *)
(* approved, told to go on, or told that the manager has exited.  When the *)
(* manager says what is for it to decide.                                  *)
(*                                                                         *)
(* Of the messages, those are kept that the loop of a worker or the        *)
(* orchestrator look for; the notices of the orchestrator to the manager   *)
(* (WORKER_COMPLETED, WORKER_FAILED, RESPAWN_FAILED, WORKERS_RESPAWNED)    *)
(* guide nobody but the manager.                                           *)
(***************************************************************************)
EXTENDS Integers, Sequences, FiniteSets

CONSTANTS
  Subtasks,
  Plan,         \* the order of the subtasks in the plan
  Manager, Everybody,
  Requests,     \* what a broadcast may ask for with RESPAWN_WORKERS: sequences of ids,
                \* empty when it says something else
  MaxSpawns,    \* bound: workers of a subtask
  MaxTalk,      \* bound: messages of the manager
  MaxAgents,    \* config docker.max_agents
  MaxOthers,    \* bound: slots held by the agents of other tasks
  BusCap,       \* capacity of the channel of a subscriber
  MaxFaults     \* bound: times Docker or the database make a Spawn fail

ASSUME CollaborativeAssumption ==
  /\ Plan \in Seq(Subtasks) /\ Manager \notin Subtasks /\ Everybody \notin Subtasks
  /\ MaxSpawns \in Nat \ {0} /\ MaxTalk \in Nat /\ MaxAgents \in Nat \ {0}
  /\ MaxOthers \in Nat /\ BusCap \in Nat \ {0} /\ MaxFaults \in Nat

Workers == Subtasks \X (1 .. MaxSpawns)     \* the n-th worker of a subtask
Lead == <<Manager, 1>>
Agents == Workers \cup {Lead}

VARIABLES
  pc,           \* where the goroutine of RunCollaborative is
  next,         \* which subtask of the plan it spawns next
  current,      \* the agent just spawned
  running,      \* the map of that name
  memory,       \* plan.Subtasks[i].Status
  stored,       \* the same in the database
  round,
  requests,     \* rest of the respawn requests
  cancelled,    \* the context of the run
  faults,
  messages,     \* agent_messages, without those only the manager heeds
  posting,      \* a message of the manager is stored and not yet published
  inbox,        \* the orchestrator's channel on the bus, when it is subscribed
  subscribed,
  work,         \* what each worker does
  seen,         \* LAST_ID of its loop
  handle, heard,  \* the agents, see AgentHandles
  \* history, which no action reads:
  born,         \* the number of messages, and the round, when a worker was spawned
  postedIn,     \* the round in which the message that is being posted was posted
  missed        \* requests made after ALL_WORKERS_DONE that the orchestrator will never see

runVars == <<pc, next, current, running, memory, stored, round, requests>>
busVars == <<messages, posting, inbox, subscribed, postedIn, missed>>
workVars == <<work, seen, born>>
vars == <<runVars, cancelled, faults, busVars, workVars, handle, heard>>

Pool == INSTANCE AgentHandles

Live == {a \in Agents : handle[a] = "live"}
LiveWorkers == Live \ {Lead}
Spawned(s) == {a \in Workers : a[1] = s /\ handle[a] # "unborn"}
NextWorker(s) == <<s, Cardinality(Spawned(s)) + 1>>

Says(kind, to) == [from |-> Manager, to |-> to, kind |-> kind, asks |-> <<>>]
ManagerExited == [from |-> "orchestrator", to |-> Everybody, kind |-> "MANAGER_EXITED", asks |-> <<>>]

Init ==
  /\ pc = "starting" /\ next = 1 /\ current = Lead /\ running = {}
  /\ memory = [s \in Subtasks |-> "pending"] /\ stored = memory
  /\ round = 0 /\ requests = <<>> /\ cancelled = FALSE /\ faults = 0
  /\ messages = <<>> /\ posting = 0 /\ inbox = <<>> /\ subscribed = FALSE
  /\ work = [a \in Workers |-> "working"] /\ seen = [a \in Workers |-> 0]
  /\ Pool!HandlesInit
  /\ born = [a \in Workers |-> [messages |-> 0, round |-> 0]] /\ postedIn = 0 /\ missed = {}
-----------------------------------------------------------------------------
(***************************************************************************)
(* Spawning                                                                *)
(***************************************************************************)
\* The admission check; the slots of other tasks come and go.
PoolIsFull == Cardinality(Live) + MaxOthers >= MaxAgents
PoolHasRoom == Cardinality(Live) < MaxAgents

\* The container of an agent is named after its task and subtask.
NameIsTaken(s) == \E a \in Live : a[1] = s

Spawn(a) ==
  /\ PoolHasRoom /\ ~cancelled /\ ~NameIsTaken(a[1])
  /\ Pool!Launch(a)

\* ...and other ways for Spawn to fail.
SpawnFails(s) ==
  \/ (cancelled \/ NameIsTaken(s)) /\ UNCHANGED faults
  \/ faults < MaxFaults /\ faults' = faults + 1

SpawnManager ==
  /\ pc = "starting"
  /\ Spawn(Lead)
  /\ current' = Lead
  /\ pc' = "noting"
  /\ UNCHANGED <<next, running, memory, stored, round, requests, cancelled, faults, busVars, workVars>>

SpawnManagerFails ==
  /\ pc = "starting"
  /\ \/ PoolIsFull /\ UNCHANGED faults
     \/ SpawnFails(Manager)
  /\ pc' = "failed"
  /\ UNCHANGED <<next, current, running, memory, stored, round, requests, cancelled, busVars, workVars,
                 handle, heard>>

SpawnedAll ==
  /\ pc = "spawning" /\ next > Len(Plan)
  /\ pc' = "waiting"
  /\ UNCHANGED <<next, current, running, memory, stored, round, requests, cancelled, faults, busVars,
                 workVars, handle, heard>>

\* The context is looked at before each subtask and before each respawn.
SpawnCancelled ==
  /\ cancelled
  /\ \/ pc = "spawning" /\ next <= Len(Plan)
     \/ pc = "respawning" /\ requests # <<>>
  /\ pc' = "cancelled"
  /\ UNCHANGED <<next, current, running, memory, stored, round, requests, cancelled, faults, busVars,
                 workVars, handle, heard>>

Launch(s) ==
  LET a == NextWorker(s) IN
    /\ a \in Workers
    /\ Spawn(a)
    /\ current' = a
    /\ born' = [born EXCEPT ![a] = [messages |-> Len(messages), round |-> round]]
    /\ pc' = "noting"
    /\ UNCHANGED <<next, running, memory, stored, round, cancelled, faults, busVars, work, seen>>

SpawnWorker ==
  /\ pc \in {"spawning", "retrying"} /\ next <= Len(Plan)
  /\ Launch(Plan[next])
  /\ UNCHANGED requests

\* For want of a slot, wait for an agent of this task to end...
SpawnFull ==
  /\ pc = "spawning" /\ next <= Len(Plan)
  /\ PoolIsFull
  /\ pc' = "full"
  /\ UNCHANGED <<next, current, running, memory, stored, round, requests, cancelled, faults, busVars,
                 workVars, handle, heard>>

\* As if it were tried again and again.
GiveUpNever ==
  /\ pc \in {"spawning", "retrying"} /\ next <= Len(Plan)
  /\ \/ SpawnFails(Plan[next]) /\ pc' = "failed"
     \/ pc = "retrying" /\ PoolIsFull /\ pc' = "full" /\ UNCHANGED faults
  /\ UNCHANGED <<next, current, running, memory, stored, round, requests, cancelled, busVars, workVars,
                 handle, heard>>

\* ...and try once more.  The agents there are go on until the context is cancelled.
GiveUp ==
  /\ pc \in {"spawning", "retrying"} /\ next <= Len(Plan)
  /\ \/ SpawnFails(Plan[next])
     \/ pc = "retrying" /\ PoolIsFull /\ UNCHANGED faults
  /\ pc' = "failed"
  /\ UNCHANGED <<next, current, running, memory, stored, round, requests, cancelled, busVars, workVars,
                 handle, heard>>

\* updatePlanSubtasks, with the context of the run.
Note(s, status) ==
  /\ memory' = [memory EXCEPT ![s] = status]
  /\ stored' = IF cancelled THEN stored ELSE memory'

\* The goroutine that waits for the agent starts: it is told of a failure, whatever it
\* was, when the agent has ended already.
NoteAgent ==
  /\ pc = "noting"
  /\ running' = running \cup {current}
  /\ Pool!Listen(current)
  /\ UNCHANGED <<current, round, requests, cancelled, faults, busVars, workVars>>

NoteManager ==
  /\ NoteAgent
  /\ current = Lead
  /\ pc' = "spawning"
  /\ UNCHANGED <<next, memory, stored>>

NoteWorker ==
  /\ NoteAgent
  /\ current # Lead
  /\ Note(current[1], "running")
  /\ IF round = 0 THEN pc' = "spawning" /\ next' = next + 1 ELSE pc' = "respawning" /\ UNCHANGED next
-----------------------------------------------------------------------------
(***************************************************************************)
(* Completions                                                             *)
(***************************************************************************)
\* What Wait told the goroutine of an agent, which puts it into completionCh.
Told(a) == IF heard[a] = "attached" THEN handle[a] ELSE heard[a]
Completed == {a \in running : Told(a) \in Pool!Outcomes}

\* sendSystemMessage: what cannot be stored is only logged.
SendSystemMessage(message) ==
  /\ messages' = IF cancelled THEN messages ELSE Append(messages, message)
  /\ inbox' = IF subscribed /\ Len(inbox) < BusCap THEN Append(inbox, message) ELSE inbox
  /\ UNCHANGED <<posting, subscribed, postedIn, missed>>

\* As if the workers were not told.
HandleCompletionQuietly(a) ==
  /\ a \in Completed
  /\ running' = running \ {a}
  /\ UNCHANGED busVars
  /\ IF a = Lead THEN UNCHANGED <<memory, stored>>
     ELSE Note(a[1], IF Told(a) = "won" THEN "completed" ELSE "failed")

\* As if a subtask that failed once stayed failed.
HandleCompletionSticky(a) ==
  /\ a \in Completed
  /\ running' = running \ {a}
  /\ IF a = Lead THEN SendSystemMessage(ManagerExited) /\ UNCHANGED <<memory, stored>>
     ELSE /\ IF Told(a) = "won" /\ Told(<<a[1], 1>>) # "lost"
             THEN Note(a[1], "completed") ELSE Note(a[1], "failed")
          /\ UNCHANGED busVars

HandleCompletion(a) ==
  /\ a \in Completed
  /\ running' = running \ {a}
  /\ IF a = Lead THEN SendSystemMessage(ManagerExited) /\ UNCHANGED <<memory, stored>>
     ELSE /\ Note(a[1], IF Told(a) = "won" THEN "completed" ELSE "failed")
          /\ UNCHANGED busVars

\* The context is not looked at here.
ReceiveWhenFull ==
  /\ pc = "full"
  /\ \E a \in Agents : HandleCompletion(a)
  /\ pc' = "retrying"
  /\ UNCHANGED <<next, current, round, requests, cancelled, faults, workVars, handle, heard>>

OnlyManager == running = {Lead}

Receive ==
  /\ pc = "waiting" /\ ~OnlyManager
  /\ \E a \in Agents : HandleCompletion(a)
  /\ UNCHANGED <<pc, next, current, round, requests, cancelled, faults, workVars, handle, heard>>

WaitCancelled ==
  /\ pc = "waiting" /\ running # {} /\ ~OnlyManager
  /\ cancelled
  /\ pc' = "cancelled"
  /\ UNCHANGED <<next, current, running, memory, stored, round, requests, cancelled, faults, busVars,
                 workVars, handle, heard>>

EverybodyGone ==
  /\ pc = "waiting" /\ running = {}
  /\ pc' = "wrapping"
  /\ UNCHANGED <<next, current, running, memory, stored, round, requests, cancelled, faults, busVars,
                 workVars, handle, heard>>
-----------------------------------------------------------------------------
(***************************************************************************)
(* The decision of the manager                                             *)
(***************************************************************************)
\* ALL_WORKERS_DONE is sent, and the manager may answer from now on...
AnnounceDone ==
  /\ pc = "waiting" /\ OnlyManager
  /\ round' = round + 1
  /\ pc' = "announced"
  /\ UNCHANGED <<next, current, running, memory, stored, requests, cancelled, faults, busVars, workVars,
                 handle, heard>>

\* ...before the orchestrator listens.
Subscribe ==
  /\ pc = "announced"
  /\ subscribed' = TRUE
  /\ pc' = "deciding"
  /\ UNCHANGED <<next, current, running, memory, stored, round, requests, cancelled, faults, messages,
                 posting, inbox, postedIn, missed, workVars, handle, heard>>

\* The deferred Unsubscribe: what is left in the channel is lost.
Unsubscribe(left) ==
  /\ subscribed' = FALSE
  /\ inbox' = <<>>
  /\ missed' = missed \cup {left[i] : i \in {j \in DOMAIN left : left[j].asks # <<>>}}
  /\ UNCHANGED <<messages, posting, postedIn>>

\* Like the exit of the manager, the cancellation ends the run with success.
DecisionCancelled ==
  /\ pc = "deciding" /\ cancelled
  /\ Unsubscribe(inbox)
  /\ pc' = "wrapping"
  /\ UNCHANGED <<next, current, running, memory, stored, round, requests, cancelled, faults, workVars,
                 handle, heard>>

ManagerDone ==
  /\ pc = "deciding" /\ Lead \in Completed
  /\ running' = running \ {Lead}
  /\ Unsubscribe(inbox)
  /\ pc' = "wrapping"
  /\ UNCHANGED <<next, current, memory, stored, round, requests, cancelled, faults, workVars, handle, heard>>

HearOther ==
  /\ pc = "deciding" /\ inbox # <<>> /\ Head(inbox).asks = <<>>
  /\ inbox' = Tail(inbox)
  /\ UNCHANGED <<runVars, cancelled, faults, messages, posting, subscribed, postedIn, missed, workVars, handle, heard>>

HearRequest ==
  /\ pc = "deciding" /\ inbox # <<>> /\ Head(inbox).asks # <<>>
  /\ requests' = Head(inbox).asks
  /\ Unsubscribe(Tail(inbox))
  /\ pc' = "respawning"
  /\ UNCHANGED <<next, current, running, memory, stored, round, cancelled, faults, workVars, handle, heard>>

\* findSubtask: a request for something that is not in the plan is skipped.
SkipUnknown ==
  /\ pc = "respawning" /\ requests # <<>> /\ ~cancelled
  /\ Head(requests) \notin Subtasks
  /\ requests' = Tail(requests)
  /\ UNCHANGED <<pc, next, current, running, memory, stored, round, cancelled, faults, busVars, workVars,
                 handle, heard>>

Respawn ==
  /\ pc = "respawning" /\ requests # <<>> /\ Head(requests) \in Subtasks
  /\ Launch(Head(requests))
  /\ requests' = Tail(requests)

\* RESPAWN_FAILED: the bound on spawns counts as a failure of Docker.
RespawnFails ==
  /\ pc = "respawning" /\ requests # <<>> /\ Head(requests) \in Subtasks
  /\ \/ (PoolIsFull \/ NextWorker(Head(requests)) \notin Workers) /\ UNCHANGED faults
     \/ SpawnFails(Head(requests))
  /\ requests' = Tail(requests)
  /\ UNCHANGED <<pc, next, current, running, memory, stored, round, cancelled, busVars, workVars, handle, heard>>

RespawnedAll ==
  /\ pc = "respawning" /\ requests = <<>>
  /\ pc' = "waiting"
  /\ UNCHANGED <<next, current, running, memory, stored, round, requests, cancelled, faults, busVars,
                 workVars, handle, heard>>

\* The context of the manager is saved; what the reviewer finds is only recorded.
WrapUp ==
  /\ pc = "wrapping"
  /\ pc' = "succeeded"
  /\ UNCHANGED <<next, current, running, memory, stored, round, requests, cancelled, faults, busVars,
                 workVars, handle, heard>>

Ended == {"succeeded", "failed", "cancelled"}

\* Stop and Cancel of the task, or the deferred cancel() of the goroutine that ran it.
\* What agents of a cancelled run do before they end is not followed.
Cancel ==
  /\ ~cancelled
  /\ cancelled' = TRUE
  /\ work' = [a \in Workers |-> "working"] /\ seen' = [a \in Workers |-> 0]
  /\ posting' = 0 /\ postedIn' = 0
  /\ UNCHANGED <<runVars, faults, messages, inbox, subscribed, missed, born, handle, heard>>
-----------------------------------------------------------------------------
(***************************************************************************)
(* Agents                                                                  *)
(***************************************************************************)
\* Nobody asks for what an agent did that has ended.
EndWork(a) ==
  /\ work' = [b \in Workers |-> IF b = a THEN "working" ELSE work[b]]
  /\ seen' = [b \in Workers |-> IF b = a THEN 0 ELSE seen[b]]
  /\ UNCHANGED born

\* A container dies, is terminated, or is removed as the context is cancelled.
Die(a) ==
  /\ Pool!Finish(a, "lost")
  /\ EndWork(a)
  /\ UNCHANGED <<runVars, cancelled, faults, busVars>>

\* The manager posts a message: it is stored, and published a moment later.
Post(message) ==
  /\ Lead \in Live /\ posting = 0
  /\ Len(SelectSeq(messages, LAMBDA m : m.from = Manager)) < MaxTalk
  /\ messages' = Append(messages, message)
  /\ posting' = Len(messages')
  /\ postedIn' = round
  /\ UNCHANGED <<runVars, cancelled, faults, inbox, subscribed, missed, workVars, handle, heard>>

\* "When a worker sends [WORK_DONE], you can" approve it or request more work.
SaysDone(s) == \E a \in LiveWorkers : a[1] = s /\ work[a] = "polling"

Approve(s) == SaysDone(s) /\ Post(Says("WORKER_APPROVED", s))
Continue(s) == SaysDone(s) /\ Post(Says("CONTINUE_WORK", s))
Broadcast(asks) == Post([Says("broadcast", Everybody) EXCEPT !.asks = asks])

Publish ==
  /\ posting # 0
  /\ posting' = 0 /\ postedIn' = 0
  /\ LET message == messages[posting] IN
       IF subscribed /\ Len(inbox) < BusCap
       THEN inbox' = Append(inbox, message) /\ UNCHANGED missed
       ELSE /\ missed' = IF message.asks # <<>> /\ pc \in {"announced", "deciding"} /\ postedIn = round
                        THEN missed \cup {message} ELSE missed
            /\ UNCHANGED inbox
  /\ UNCHANGED <<runVars, cancelled, faults, messages, subscribed, workVars, handle, heard>>

\* The manager exits when its messages are sent.
ManagerExits ==
  /\ posting = 0
  /\ Pool!Finish(Lead, "won")
  /\ UNCHANGED <<runVars, cancelled, faults, busVars, workVars>>

\* WORK_DONE, and into the approval loop, with LAST_ID=0.
FinishWork(a) ==
  /\ a \in Live /\ work[a] = "working"
  /\ work' = [work EXCEPT ![a] = "polling"]
  /\ seen' = [seen EXCEPT ![a] = 0]
  /\ UNCHANGED <<runVars, cancelled, faults, busVars, born, handle, heard>>

\* The places of the new messages of the manager to it or to everybody...
NewFor(a) ==
  {i \in seen[a] + 1 .. Len(messages) : messages[i].from = Manager /\ messages[i].to \in {a[1], Everybody}}

\* ...the last of which counts.
ToldTo(a, kind) ==
  \E i \in NewFor(a) : messages[i].kind = kind /\ \A j \in NewFor(a) : j <= i

\* As if a message other than the last one counted.
ApprovedEver(a) == \E i \in NewFor(a) : messages[i].kind = "WORKER_APPROVED"

Approved(a) == ToldTo(a, "WORKER_APPROVED")

TellsExit(a) ==
  /\ ~ToldTo(a, "CONTINUE_WORK")
  /\ \E i \in seen[a] + 1 .. Len(messages) : messages[i] = ManagerExited

PollAndExit(a) ==
  /\ a \in LiveWorkers /\ work[a] = "polling"
  /\ Approved(a) \/ TellsExit(a)
  /\ Pool!Finish(a, "won")
  /\ EndWork(a)
  /\ UNCHANGED <<runVars, cancelled, faults, busVars>>

PollAndContinue(a) ==
  /\ a \in LiveWorkers /\ work[a] = "polling"
  /\ ToldTo(a, "CONTINUE_WORK")
  /\ work' = [work EXCEPT ![a] = "working"]
  /\ UNCHANGED <<runVars, cancelled, faults, busVars, seen, born, handle, heard>>

Poll(a) ==
  /\ a \in LiveWorkers /\ work[a] = "polling"
  /\ ~Approved(a) /\ ~TellsExit(a) /\ ~ToldTo(a, "CONTINUE_WORK")
  /\ seen[a] < Len(messages)
  /\ seen' = [seen EXCEPT ![a] = Len(messages)]
  /\ UNCHANGED <<runVars, cancelled, faults, busVars, work, born, handle, heard>>
-----------------------------------------------------------------------------
Orchestrate ==
  \/ SpawnManager \/ SpawnManagerFails \/ SpawnedAll \/ SpawnCancelled \/ SpawnWorker \/ SpawnFull
  \/ GiveUp \/ NoteManager \/ NoteWorker \/ ReceiveWhenFull \/ Receive \/ WaitCancelled \/ EverybodyGone
  \/ AnnounceDone \/ Subscribe \/ DecisionCancelled \/ ManagerDone \/ HearOther \/ HearRequest
  \/ SkipUnknown \/ Respawn \/ RespawnFails \/ RespawnedAll \/ WrapUp

Manage ==
  /\ ~cancelled
  /\ \/ \E s \in Subtasks : Approve(s) \/ Continue(s)
     \/ \E asks \in Requests : Broadcast(asks)
     \/ ManagerExits

WorkerLoop(a) == ~cancelled /\ (FinishWork(a) \/ PollAndExit(a) \/ PollAndContinue(a) \/ Poll(a))

Next ==
  \/ Orchestrate \/ Manage \/ Publish \/ Cancel
  \/ \E a \in Agents : Die(a)
  \/ \E a \in Workers : WorkerLoop(a)

\* Goroutines and scripts go on, and the pool removes the containers of a cancelled run;
\* nothing makes the manager decide.
Fairness ==
  /\ WF_vars(Orchestrate) /\ WF_vars(Publish) /\ WF_vars(pc \in Ended /\ Cancel)
  /\ \A a \in Agents : WF_vars(cancelled /\ Die(a))
  /\ \A a \in Workers : WF_vars(WorkerLoop(a))

Spec == Init /\ [][Next]_vars
FairSpec == Spec /\ Fairness
-----------------------------------------------------------------------------
(***************************************************************************)
(* Properties                                                              *)
(***************************************************************************)
Messages ==
  {Says(kind, s) : kind \in {"WORKER_APPROVED", "CONTINUE_WORK"}, s \in Subtasks}
    \cup {[Says("broadcast", Everybody) EXCEPT !.asks = asks] : asks \in Requests} \cup {ManagerExited}

TypeOK ==
  /\ pc \in {"starting", "spawning", "full", "retrying", "noting", "waiting", "announced", "deciding",
             "respawning", "wrapping"} \cup Ended
  /\ next \in Nat \ {0} /\ current \in Agents /\ running \in SUBSET Agents
  /\ memory \in [Subtasks -> {"pending", "running", "completed", "failed"}]
  /\ stored \in [Subtasks -> {"pending", "running", "completed", "failed"}]
  /\ round \in Nat /\ cancelled \in BOOLEAN /\ faults \in 0 .. MaxFaults
  /\ messages \in Seq(Messages) /\ posting \in 0 .. Len(messages)
  /\ inbox \in Seq(Messages) /\ subscribed \in BOOLEAN
  /\ work \in [Workers -> {"working", "polling"}] /\ seen \in [Workers -> Nat]
  /\ born \in [Workers -> [messages : Nat, round : Nat]]
  /\ Pool!HandlesTypeOK

\* Whoever waits for a slot to open waits for an agent that is still to be taken from
\* completionCh: the blocking receive, which the context does not end, always gets one,
\* because it is done once for every spawn (collaborative.go:137-151).
FullWaitsForSomebody == pc = "full" => running # {}

\* When ALL_WORKERS_DONE goes out no worker is at work, however many rounds there were and
\* whoever died in between (collaborative.go:189-221, "all workers have finished").
DoneMeansDone == pc \in {"announced", "deciding"} => LiveWorkers = {}

\* The manager decides on results of the latest round that had a worker for the subtask, and
\* the stored plan shows them, whoever died meanwhile (collaborative.go:444-544, 285-293).
\* Among two workers one request has asked for, the last to be taken from completionCh counts.
Result(a) == IF Told(a) = "won" THEN "completed" ELSE "failed"
Latest(s) == {a \in Spawned(s) : \A b \in Spawned(s) : born[b].round <= born[a].round}

DecidesOnTheLatest ==
  pc \in {"announced", "deciding"} /\ ~cancelled =>
    \A s \in Subtasks : Spawned(s) # {} =>
      memory[s] = stored[s] /\ \E a \in Latest(s) : stored[s] = Result(a)

\* A worker that ends well was approved in its round, or the manager is gone: an approval of
\* an earlier round is not taken for its own, although it reads the messages from the first
\* ("Do NOT exit before receiving WORKER_APPROVED", collaborative.go:1012).  The approval of
\* another worker of its subtask and round is, which one request for two workers can bring about.
ApprovedOrOrphaned ==
  \A a \in Workers : handle[a] = "won" =>
    \/ \E b \in Spawned(a[1]) : \E i \in born[b].messages + 1 .. Len(messages) :
         born[b].round = born[a].round /\ messages[i] = Says("WORKER_APPROVED", a[1])
    \/ handle[Lead] # "live"

\* Workers do not wait for ever for a manager that is gone ("do not wait forever",
\* collaborative.go:993), unless the last they were told was to go on: such a worker
\* reads that message again whenever it polls.
OrphanedWorkersLeave ==
  handle[Lead] \in Pool!Outcomes
    ~> \A a \in LiveWorkers : \E i \in DOMAIN messages : messages[i] = Says("CONTINUE_WORK", a[1])

\* A cancelled run returns, wherever it is, and leaves no agent behind: receives that do
\* not look at the context are answered by the agents that are removed.
CancelledRunsReturn == cancelled ~> pc \in Ended /\ Live = {}

\* A request made after ALL_WORKERS_DONE reaches the orchestrator ("The orchestrator will
\* respawn those workers with your fix instructions and send you a [WORKERS_RESPAWNED]
\* confirmation", collaborative.go:810-811).  It does not hold: the manager may ask
\* before the orchestrator has subscribed (607, 223-234).
RequestsAreHeard == missed = {}
=============================================================================
