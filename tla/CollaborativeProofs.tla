------------------------- MODULE CollaborativeProofs -------------------------
(***************************************************************************)
(* Theorems about Collaborative, for every plan, any number of workers,    *)
(* rounds, messages and faults, whatever the manager says and whoever      *)
(* dies.                                                                   *)
(***************************************************************************)
EXTENDS Collaborative, TLAPS

\* An agent that was spawned and whose end the orchestrator is still to take notice of.
IsOpen(a) == a \in running \/ (pc = "noting" /\ current = a)

\* The orchestrator keeps hold of every agent until it has been told an outcome.
AgentsAreHeld ==
  \A a \in Agents :
    /\ handle[a] = "unborn" => heard[a] = "nothing"
    /\ heard[a] \in Pool!Outcomes => handle[a] \in Pool!Outcomes
    /\ IsOpen(a) => handle[a] # "unborn"
    /\ a \in running => heard[a] # "nothing"
    /\ pc = "noting" /\ current = a => heard[a] = "nothing"
    /\ handle[a] # "unborn" /\ ~IsOpen(a) => handle[a] \in Pool!Outcomes /\ Told(a) \in Pool!Outcomes

\* The manager is there first.
ManagerIsFirst ==
  /\ pc \notin {"starting", "failed"} => handle[Lead] # "unborn"
  /\ \A a \in Workers : handle[a] # "unborn" => handle[Lead] # "unborn"

\* A round begins when the workers of the one before have ended.
RoundsFollow ==
  /\ \A a \in Workers : handle[a] # "unborn" => born[a].round <= round /\ (IsOpen(a) => born[a].round = round)
  /\ pc \in {"starting", "spawning", "full", "retrying"} \/ (pc = "noting" /\ current = Lead) => round = 0
  /\ pc \in {"announced", "deciding"} => running = {Lead}

\* After a spawn somebody is in the map.
SomebodyRuns == pc \in {"spawning", "full"} => running # {}

\* With nobody of a subtask left, the result is known, and stored while the context allows.
ResultsAreKnown ==
  /\ ~cancelled => stored = memory
  /\ \A s \in Subtasks :
       Spawned(s) # {} /\ (\A a \in Spawned(s) : ~IsOpen(a)) => \E a \in Latest(s) : memory[s] = Result(a)

IsApproval(i, s) == messages[i] = Says("WORKER_APPROVED", s)
BroadcastAfter(i) ==
  \E j \in i + 1 .. Len(messages) : messages[j].from = Manager /\ messages[j].to = Everybody
OfRound(s, n) == {b \in Spawned(s) : born[b].round = n}

\* Only a worker that is there is approved, and what is being posted is the latest message.
ApprovalsAreAnswers ==
  /\ \A a \in Workers : born[a].messages <= Len(messages)
  /\ \A i \in 1 .. Len(messages), s \in Subtasks :
       IsApproval(i, s) =>
         /\ \E b \in Spawned(s) : i > born[b].messages
         /\ posting # 0 => i <= posting

\* What comes through the bus has been stored, and nobody has been approved since.
InboxIsStored ==
  /\ subscribed <=> pc = "deciding"
  /\ ~subscribed => inbox = <<>>
  /\ \A k \in 1 .. Len(inbox) :
       inbox[k].asks # <<>> =>
         \E j \in 1 .. Len(messages) :
           /\ messages[j] = inbox[k]
           /\ \A i \in 1 .. Len(messages), s \in Subtasks : IsApproval(i, s) => i < j

\* An approval of an earlier round is followed by the request that began the new one.
RequestsComeBetween ==
  round > 0 /\ pc \in {"respawning", "noting"} =>
    \A s \in Subtasks : OfRound(s, round) = {} =>
      \A i \in 1 .. Len(messages) : IsApproval(i, s) => BroadcastAfter(i)

ApprovalsAreOfRound ==
  \A a \in Workers : handle[a] # "unborn" =>
    \A i \in 1 .. Len(messages) : IsApproval(i, a[1]) =>
      BroadcastAfter(i) \/ \E b \in OfRound(a[1], born[a].round) : i > born[b].messages

\* Who tells of the manager's exit has been told of it.
ExitIsTrue ==
  \A i \in 1 .. Len(messages) : messages[i] = ManagerExited => handle[Lead] \in Pool!Outcomes

CollaborativeInv ==
  /\ TypeOK /\ AgentsAreHeld /\ ManagerIsFirst /\ RoundsFollow /\ SomebodyRuns /\ ResultsAreKnown
  /\ ApprovalsAreAnswers /\ InboxIsStored /\ RequestsComeBetween /\ ApprovalsAreOfRound /\ ExitIsTrue
  /\ ApprovedOrOrphaned
-----------------------------------------------------------------------------
(***************************************************************************)
(* What a step may do to what the invariant speaks of.                     *)
(***************************************************************************)
Spawns(a) ==
  /\ handle[a] = "unborn"
  /\ handle' = [handle EXCEPT ![a] = "live"]
  /\ current' = a /\ pc' = "noting"
  /\ IF a = Lead THEN pc = "starting" /\ UNCHANGED born
     ELSE /\ pc \in {"spawning", "retrying", "respawning"}
          /\ born' = [born EXCEPT ![a] = [messages |-> Len(messages), round |-> round]]
  /\ UNCHANGED <<running, memory, stored, round, cancelled, messages, posting, inbox, subscribed, heard>>

Notes ==
  /\ pc = "noting"
  /\ running' = running \cup {current}
  /\ Pool!Listen(current)
  /\ IF current = Lead THEN pc' = "spawning" /\ UNCHANGED <<memory, stored>>
     ELSE /\ Note(current[1], "running")
          /\ pc' = IF round = 0 THEN "spawning" ELSE "respawning"
  /\ UNCHANGED <<current, round, cancelled, messages, posting, inbox, subscribed, born>>

Takes(a) ==
  /\ \/ pc = "full" /\ pc' = "retrying"
     \/ pc = "waiting" /\ pc' = "waiting"
  /\ HandleCompletion(a)
  /\ UNCHANGED <<current, round, cancelled, born, handle, heard>>

Loses ==
  /\ pc = "deciding" /\ pc' = "wrapping"
  /\ Lead \in Completed /\ running' = running \ {Lead}
  /\ subscribed' = FALSE /\ inbox' = <<>>
  /\ UNCHANGED <<current, memory, stored, round, cancelled, messages, posting, born, handle, heard>>

GoesOn ==
  \/ /\ pc = "starting" /\ pc' = "failed"
     /\ UNCHANGED <<round, subscribed, inbox>>
  \/ /\ pc \in {"spawning", "retrying", "respawning", "waiting", "wrapping"}
     /\ \/ pc' \in {"waiting", "wrapping", "succeeded", "failed", "cancelled"}
        \/ pc = "spawning" /\ pc' = "full"
     /\ UNCHANGED <<round, subscribed, inbox>>
  \/ /\ pc = "waiting" /\ pc' = "announced" /\ running = {Lead}
     /\ round' = round + 1 /\ UNCHANGED <<subscribed, inbox>>
  \/ /\ pc = "announced" /\ pc' = "deciding"
     /\ subscribed' = TRUE /\ UNCHANGED <<round, inbox>>
  \/ /\ pc = "deciding"
     /\ \/ pc' = "wrapping"
        \/ pc' = "respawning" /\ inbox # <<>> /\ inbox[1].asks # <<>>
     /\ subscribed' = FALSE /\ inbox' = <<>> /\ UNCHANGED round

Moves ==
  GoesOn /\ UNCHANGED <<current, running, memory, stored, cancelled, messages, posting, born, handle, heard>>

Ends(a) ==
  /\ \E outcome \in Pool!Outcomes :
       Pool!Finish(a, outcome) /\ (outcome = "won" => a = Lead \/ Approved(a) \/ TellsExit(a))
  /\ UNCHANGED <<pc, current, running, memory, stored, round, cancelled, messages, posting, inbox, subscribed,
                 born>>

Talks(message) ==
  /\ message.kind # "MANAGER_EXITED"
  /\ \A s \in Subtasks : message = Says("WORKER_APPROVED", s) => SaysDone(s)
  /\ messages' = Append(messages, message)
  /\ posting' = Len(messages')
  /\ UNCHANGED <<pc, current, running, memory, stored, round, cancelled, inbox, subscribed, born, handle, heard>>

Rests ==
  /\ posting' \in {posting, 0}
  /\ \/ inbox' = inbox
     \/ inbox # <<>> /\ inbox' = Tail(inbox)
     \/ posting # 0 /\ subscribed /\ inbox' = Append(inbox, messages[posting])
  /\ cancelled' \in {cancelled, TRUE}
  /\ UNCHANGED <<pc, current, running, memory, stored, round, messages, subscribed, born, handle, heard>>

\* What the messages are.
LEMMA MessageFacts ==
  ASSUME NEW m \in Messages
  PROVE  /\ m.kind = "WORKER_APPROVED" => \E s \in Subtasks : m = Says("WORKER_APPROVED", s)
         /\ m.asks # <<>> => m.from = Manager /\ m.to = Everybody /\ m.kind = "broadcast"
         /\ m.kind = "MANAGER_EXITED" <=> m = ManagerExited
BY DEF Messages, Says, ManagerExited

LEMMA SaysFacts ==
  ASSUME NEW s \in Subtasks
  PROVE  /\ Says("WORKER_APPROVED", s) \in Messages /\ Says("CONTINUE_WORK", s) \in Messages
         /\ Says("WORKER_APPROVED", s).to = s /\ Says("WORKER_APPROVED", s).asks = <<>>
         /\ Says("WORKER_APPROVED", s).kind = "WORKER_APPROVED"
         /\ \A t \in Subtasks : Says("WORKER_APPROVED", s) = Says("WORKER_APPROVED", t) => s = t
         /\ Says("CONTINUE_WORK", s).kind = "CONTINUE_WORK"
BY DEF Messages, Says

LEMMA BroadcastFacts ==
  ASSUME NEW asks \in Requests
  PROVE  [Says("broadcast", Everybody) EXCEPT !.asks = asks] \in Messages
BY DEF Messages, Says

LEMMA ExitFacts ==
  /\ ManagerExited \in Messages /\ ManagerExited.asks = <<>>
  /\ ManagerExited.kind = "MANAGER_EXITED"
BY DEF Messages, ManagerExited

\* Who the agents are.
LEMMA AgentFacts ==
  /\ Lead \in Agents /\ Lead \notin Workers /\ Workers \subseteq Agents
  /\ \A a \in Workers : a[1] \in Subtasks /\ a # Lead
  /\ \A a \in Agents : a \in Workers \/ a = Lead
  /\ \A s \in Subtasks : s # Everybody
BY CollaborativeAssumption DEF Agents, Workers, Lead

\* The kinds of steps.
StepKind ==
  \/ \E a \in Agents : Spawns(a) \/ Takes(a) \/ Ends(a)
  \/ \E m \in Messages : Talks(m)
  \/ Notes \/ Loses \/ Moves \/ Rests

\* Every step is of one of these kinds.
LEMMA StepIsOfAKind ==
  ASSUME TypeOK, [Next]_vars
  PROVE  StepKind
<1> USE DEF vars, runVars, busVars, workVars
<1>1. CASE SpawnManager
  <2>1. Spawns(Lead)
    BY <1>1 DEF SpawnManager, Spawn, Pool!Launch, Spawns
  <2> QED BY <2>1, AgentFacts DEF StepKind
<1>2. CASE SpawnManagerFails
  BY <1>2 DEF SpawnManagerFails, StepKind, Moves, GoesOn, OnlyManager, Ended, Unsubscribe
<1>3. CASE SpawnedAll
  BY <1>3 DEF SpawnedAll, StepKind, Moves, GoesOn, OnlyManager, Ended, Unsubscribe
<1>4. CASE SpawnCancelled
  BY <1>4 DEF SpawnCancelled, StepKind, Moves, GoesOn, OnlyManager, Ended, Unsubscribe
<1>5. CASE SpawnWorker
  <2>1. Launch(Plan[next])
    BY <1>5 DEF SpawnWorker
  <2>2. Spawns(NextWorker(Plan[next]))
    BY <2>1, <1>5, AgentFacts DEF SpawnWorker, Launch, Spawn, Pool!Launch, Spawns
  <2> QED BY <2>1, <2>2, AgentFacts DEF StepKind, Launch
<1>6. CASE SpawnFull
  BY <1>6 DEF SpawnFull, StepKind, Moves, GoesOn, OnlyManager, Ended, Unsubscribe
<1>7. CASE GiveUp
  BY <1>7 DEF GiveUp, StepKind, Moves, GoesOn, OnlyManager, Ended, Unsubscribe
<1>8. CASE NoteManager
  BY <1>8 DEF NoteManager, NoteAgent, StepKind, Notes
<1>9. CASE NoteWorker
  BY <1>9 DEF NoteWorker, NoteAgent, StepKind, Notes
<1>10. CASE ReceiveWhenFull
  <2>1. PICK a \in Agents : HandleCompletion(a)
    BY <1>10 DEF ReceiveWhenFull
  <2>2. Takes(a)
    BY <2>1, <1>10 DEF Takes, ReceiveWhenFull
  <2> QED BY <2>2 DEF StepKind
<1>11. CASE Receive
  <2>1. PICK a \in Agents : HandleCompletion(a)
    BY <1>11 DEF Receive
  <2>2. Takes(a)
    BY <2>1, <1>11 DEF Takes, Receive
  <2> QED BY <2>2 DEF StepKind
<1>12. CASE WaitCancelled
  BY <1>12 DEF WaitCancelled, StepKind, Moves, GoesOn, OnlyManager, Ended, Unsubscribe
<1>13. CASE EverybodyGone
  BY <1>13 DEF EverybodyGone, StepKind, Moves, GoesOn, OnlyManager, Ended, Unsubscribe
<1>14. CASE AnnounceDone
  BY <1>14 DEF AnnounceDone, StepKind, Moves, GoesOn, OnlyManager, Ended, Unsubscribe
<1>15. CASE Subscribe
  BY <1>15 DEF Subscribe, StepKind, Moves, GoesOn, OnlyManager, Ended, Unsubscribe
<1>16. CASE DecisionCancelled
  BY <1>16 DEF DecisionCancelled, StepKind, Moves, GoesOn, OnlyManager, Ended, Unsubscribe
<1>17. CASE ManagerDone
  BY <1>17 DEF ManagerDone, StepKind, Loses, Unsubscribe
<1>18. CASE HearOther
  BY <1>18 DEF HearOther, StepKind, Rests
<1>19. CASE HearRequest
  BY <1>19 DEF HearRequest, StepKind, Moves, GoesOn, Unsubscribe, TypeOK
<1>20. CASE SkipUnknown
  BY <1>20 DEF SkipUnknown, StepKind, Rests
<1>21. CASE Respawn
  <2>1. Launch(Head(requests))
    BY <1>21 DEF Respawn
  <2>2. Spawns(NextWorker(Head(requests)))
    BY <2>1, <1>21, AgentFacts DEF Respawn, Launch, Spawn, Pool!Launch, Spawns
  <2> QED BY <2>1, <2>2, AgentFacts DEF StepKind, Launch
<1>22. CASE RespawnFails
  BY <1>22 DEF RespawnFails, StepKind, Rests
<1>23. CASE RespawnedAll
  BY <1>23 DEF RespawnedAll, StepKind, Moves, GoesOn, OnlyManager, Ended, Unsubscribe
<1>24. CASE WrapUp
  BY <1>24 DEF WrapUp, StepKind, Moves, GoesOn, OnlyManager, Ended, Unsubscribe
<1>25. ASSUME NEW s \in Subtasks, ~cancelled, Approve(s)
      PROVE  StepKind
  <2> DEFINE m == Says("WORKER_APPROVED", s)
  <2>1. m \in Messages /\ m.kind # "MANAGER_EXITED"
    BY <1>25 DEF Messages, Says
  <2>2. \A t \in Subtasks : m = Says("WORKER_APPROVED", t) => SaysDone(t)
    BY <1>25, SaysFacts DEF Approve, Says
  <2>3. Talks(m)
    BY <1>25, <2>1, <2>2 DEF Talks, Approve, Post
  <2> QED BY <2>1, <2>3 DEF StepKind
<1>26. ASSUME NEW s \in Subtasks, ~cancelled, Continue(s)
      PROVE  StepKind
  <2> DEFINE m == Says("CONTINUE_WORK", s)
  <2>1. m \in Messages /\ m.kind # "MANAGER_EXITED"
    BY <1>26 DEF Messages, Says
  <2>2. \A t \in Subtasks : m = Says("WORKER_APPROVED", t) => SaysDone(t)
    BY <1>26, SaysFacts DEF Continue, Says
  <2>3. Talks(m)
    BY <1>26, <2>1, <2>2 DEF Talks, Continue, Post
  <2> QED BY <2>1, <2>3 DEF StepKind
<1>27. ASSUME NEW asks \in Requests, ~cancelled, Broadcast(asks)
      PROVE  StepKind
  <2> DEFINE m == [Says("broadcast", Everybody) EXCEPT !.asks = asks]
  <2>1. m \in Messages /\ m.kind # "MANAGER_EXITED"
    BY <1>27 DEF Messages, Says
  <2>2. \A t \in Subtasks : m = Says("WORKER_APPROVED", t) => SaysDone(t)
    BY <1>27, SaysFacts DEF Broadcast, Says
  <2>3. Talks(m)
    BY <1>27, <2>1, <2>2 DEF Talks, Broadcast, Post
  <2> QED BY <2>1, <2>3 DEF StepKind
<1>28. ASSUME ~cancelled, ManagerExits
      PROVE  StepKind
  <2>1. Ends(Lead)
    BY <1>28, AgentFacts DEF ManagerExits, EndWork, Ends, Pool!Outcomes
  <2> QED BY <2>1, AgentFacts DEF StepKind
<1>29. CASE Publish
  BY <1>29 DEF Publish, StepKind, Rests
<1>30. CASE Cancel
  BY <1>30 DEF Cancel, StepKind, Rests
<1>31. ASSUME NEW a \in Agents, Die(a)
      PROVE  StepKind
  <2>1. Ends(a)
    BY <1>31, AgentFacts DEF Die, EndWork, Ends, Pool!Outcomes
  <2> QED BY <2>1, AgentFacts DEF StepKind
<1>32. ASSUME NEW a \in Workers, ~cancelled, FinishWork(a)
      PROVE  StepKind
  BY <1>32 DEF FinishWork, StepKind, Rests
<1>33. ASSUME NEW a \in Workers, ~cancelled, PollAndExit(a)
      PROVE  StepKind
  <2>1. Ends(a)
    BY <1>33, AgentFacts DEF PollAndExit, EndWork, Ends, Pool!Outcomes
  <2> QED BY <2>1, AgentFacts DEF StepKind
<1>34. ASSUME NEW a \in Workers, ~cancelled, PollAndContinue(a)
      PROVE  StepKind
  BY <1>34 DEF PollAndContinue, StepKind, Rests
<1>35. ASSUME NEW a \in Workers, ~cancelled, Poll(a)
      PROVE  StepKind
  BY <1>35 DEF Poll, StepKind, Rests
<1>36. CASE UNCHANGED vars
  BY <1>36 DEF StepKind, Rests
<1> QED BY <1>1, <1>2, <1>3, <1>4, <1>5, <1>6, <1>7, <1>8, <1>9, <1>10, <1>11, <1>12,
           <1>13, <1>14, <1>15, <1>16, <1>17, <1>18, <1>19, <1>20, <1>21, <1>22, <1>23, <1>24, <1>25,
           <1>26, <1>27, <1>28, <1>29, <1>30, <1>31, <1>32, <1>33, <1>34, <1>35, <1>36
        DEF Next, Orchestrate, Manage, WorkerLoop

\* Queues of messages.
LEMMA QueueFacts ==
  /\ <<>> \in Seq(Messages)
  /\ \A queue \in Seq(Messages), m \in Messages :
       /\ Append(queue, m) \in Seq(Messages) /\ Len(Append(queue, m)) = Len(queue) + 1
       /\ Append(queue, m)[Len(queue) + 1] = m
       /\ \A i \in 1 .. Len(queue) : Append(queue, m)[i] = queue[i]
OBVIOUS

\* What is typed after a completion is handled.
Settled ==
  /\ running' \in SUBSET Agents
  /\ memory' \in [Subtasks -> {"pending", "running", "completed", "failed"}]
  /\ stored' \in [Subtasks -> {"pending", "running", "completed", "failed"}]
  /\ messages' \in Seq(Messages) /\ posting' \in 0 .. Len(messages') /\ inbox' \in Seq(Messages)
  /\ subscribed' = subscribed

LEMMA CompletionIsTyped ==
  ASSUME TypeOK, NEW a \in Agents, HandleCompletion(a)
  PROVE  Settled
<1> USE DEF TypeOK, busVars
<1>1. running' \in SUBSET Agents
  BY DEF HandleCompletion
<1>2. CASE a = Lead
  <2>1. SendSystemMessage(ManagerExited) /\ UNCHANGED <<memory, stored>>
    BY <1>2 DEF HandleCompletion
  <2>2. messages' \in Seq(Messages) /\ Len(messages) <= Len(messages')
    BY <2>1, ExitFacts DEF SendSystemMessage
  <2>3. inbox' \in Seq(Messages)
    BY <2>1, ExitFacts DEF SendSystemMessage
  <2> QED BY <1>1, <2>1, <2>2, <2>3 DEF Settled, SendSystemMessage
<1>3. CASE a # Lead
  <2>1. a[1] \in Subtasks /\ UNCHANGED busVars /\ Note(a[1], IF Told(a) = "won" THEN "completed" ELSE "failed")
    BY <1>3, AgentFacts DEF HandleCompletion
  <2>2. /\ memory' \in [Subtasks -> {"pending", "running", "completed", "failed"}]
        /\ stored' \in [Subtasks -> {"pending", "running", "completed", "failed"}]
    BY <2>1 DEF Note
  <2> QED BY <1>1, <2>1, <2>2 DEF Settled
<1> QED BY <1>2, <1>3

\* A step keeps the types.
LEMMA TypeIsKept ==
  ASSUME TypeOK, [Next]_vars
  PROVE  TypeOK'
<1> USE DEF vars, runVars, busVars, workVars, TypeOK, Ended, Pool!HandlesTypeOK
<1>1. CASE SpawnManager
  BY <1>1, AgentFacts DEF SpawnManager, Spawn, Pool!Launch
<1>2. CASE SpawnManagerFails
  BY <1>2, CollaborativeAssumption DEF SpawnManagerFails, SpawnFails
<1>3. CASE SpawnedAll
  BY <1>3 DEF SpawnedAll
<1>4. CASE SpawnCancelled
  BY <1>4 DEF SpawnCancelled
<1>5. CASE SpawnWorker
  <2>1. Launch(Plan[next]) /\ NextWorker(Plan[next]) \in Workers /\ NextWorker(Plan[next]) \in Agents
    BY <1>5, AgentFacts DEF SpawnWorker, Launch
  <2> QED BY <2>1, <1>5 DEF SpawnWorker, Launch, Spawn, Pool!Launch
<1>6. CASE SpawnFull
  BY <1>6 DEF SpawnFull
<1>7. CASE GiveUp
  BY <1>7, CollaborativeAssumption DEF GiveUp, SpawnFails
<1>8. CASE NoteManager
  <2>1. running' \in SUBSET Agents /\ Pool!HandlesTypeOK'
    BY <1>8 DEF NoteManager, NoteAgent, Pool!Listen, Pool!Outcomes
  <2> QED BY <2>1, <1>8 DEF NoteManager, NoteAgent
<1>9. CASE NoteWorker
  <2>1. current \in Workers /\ current[1] \in Subtasks
    BY <1>9, AgentFacts DEF NoteWorker
  <2>2. running' \in SUBSET Agents /\ Pool!HandlesTypeOK'
    BY <1>9 DEF NoteWorker, NoteAgent, Pool!Listen, Pool!Outcomes
  <2>3. next' \in Nat \ {0} /\ pc' \in {"spawning", "respawning"}
    BY <1>9 DEF NoteWorker
  <2>4. /\ memory' \in [Subtasks -> {"pending", "running", "completed", "failed"}]
        /\ stored' \in [Subtasks -> {"pending", "running", "completed", "failed"}]
    BY <2>1, <1>9 DEF NoteWorker, Note
  <2> QED BY <2>2, <2>3, <2>4, <1>9 DEF NoteWorker, NoteAgent
<1>10. CASE ReceiveWhenFull
  <2>1. PICK a \in Agents : HandleCompletion(a)
    BY <1>10 DEF ReceiveWhenFull
  <2>2. Settled
    BY <2>1, CompletionIsTyped
  <2> QED BY <2>2, <1>10 DEF ReceiveWhenFull, Settled
<1>11. CASE Receive
  <2>1. PICK a \in Agents : HandleCompletion(a)
    BY <1>11 DEF Receive
  <2>2. Settled
    BY <2>1, CompletionIsTyped
  <2> QED BY <2>2, <1>11 DEF Receive, Settled
<1>12. CASE WaitCancelled
  BY <1>12 DEF WaitCancelled
<1>13. CASE EverybodyGone
  BY <1>13 DEF EverybodyGone
<1>14. CASE AnnounceDone
  BY <1>14 DEF AnnounceDone
<1>15. CASE Subscribe
  BY <1>15 DEF Subscribe
<1>16. CASE DecisionCancelled
  <2>1. inbox' = <<>> /\ subscribed' = FALSE
    BY <1>16 DEF DecisionCancelled, Unsubscribe
  <2>2. inbox' \in Seq(Messages) /\ subscribed' \in BOOLEAN
    BY <2>1, QueueFacts
  <2> QED BY <2>2, <1>16 DEF DecisionCancelled, Unsubscribe
<1>17. CASE ManagerDone
  <2>1. inbox' = <<>> /\ subscribed' = FALSE
    BY <1>17 DEF ManagerDone, Unsubscribe
  <2>2. inbox' \in Seq(Messages) /\ subscribed' \in BOOLEAN
    BY <2>1, QueueFacts
  <2> QED BY <2>2, <1>17 DEF ManagerDone, Unsubscribe
<1>18. CASE HearOther
  BY <1>18 DEF HearOther
<1>19. CASE HearRequest
  <2>1. inbox' = <<>> /\ subscribed' = FALSE
    BY <1>19 DEF HearRequest, Unsubscribe
  <2>2. inbox' \in Seq(Messages) /\ subscribed' \in BOOLEAN
    BY <2>1, QueueFacts
  <2> QED BY <2>2, <1>19 DEF HearRequest, Unsubscribe
<1>20. CASE SkipUnknown
  BY <1>20 DEF SkipUnknown
<1>21. CASE Respawn
  <2>1. Launch(Head(requests)) /\ NextWorker(Head(requests)) \in Workers /\ NextWorker(Head(requests)) \in Agents
    BY <1>21, AgentFacts DEF Respawn, Launch
  <2> QED BY <2>1, <1>21 DEF Respawn, Launch, Spawn, Pool!Launch
<1>22. CASE RespawnFails
  BY <1>22, CollaborativeAssumption DEF RespawnFails, SpawnFails
<1>23. CASE RespawnedAll
  BY <1>23 DEF RespawnedAll
<1>24. CASE WrapUp
  BY <1>24 DEF WrapUp
<1>25. ASSUME NEW s \in Subtasks, ~cancelled, Approve(s)
      PROVE  TypeOK'
  <2>1. Says("WORKER_APPROVED", s) \in Messages
    BY <1>25 DEF Messages
  <2> QED BY <2>1, <1>25 DEF Approve, Post
<1>26. ASSUME NEW s \in Subtasks, ~cancelled, Continue(s)
      PROVE  TypeOK'
  <2>1. Says("CONTINUE_WORK", s) \in Messages
    BY <1>26 DEF Messages
  <2> QED BY <2>1, <1>26 DEF Continue, Post
<1>27. ASSUME NEW asks \in Requests, ~cancelled, Broadcast(asks)
      PROVE  TypeOK'
  <2>1. [Says("broadcast", Everybody) EXCEPT !.asks = asks] \in Messages
    BY ONLY <1>27, BroadcastFacts
  <2> QED BY <2>1, <1>27 DEF Broadcast, Post
<1>28. ASSUME ~cancelled, ManagerExits
      PROVE  TypeOK'
  BY <1>28, AgentFacts DEF ManagerExits, Pool!Finish, Pool!Outcomes
<1>29. CASE Publish
  <2>1. messages[posting] \in Messages
    BY <1>29 DEF Publish
  <2>2. inbox' = inbox \/ inbox' = Append(inbox, messages[posting])
    BY <1>29 DEF Publish
  <2>3. inbox' \in Seq(Messages)
    <3>1. inbox \in Seq(Messages)
      OBVIOUS
    <3> QED BY ONLY <2>1, <2>2, <3>1, QueueFacts
  <2> QED BY <2>3, <1>29 DEF Publish
<1>30. CASE Cancel
  BY <1>30 DEF Cancel
<1>31. ASSUME NEW a \in Agents, Die(a)
      PROVE  TypeOK'
  BY <1>31 DEF Die, EndWork, Pool!Finish, Pool!Outcomes
<1>32. ASSUME NEW a \in Workers, ~cancelled, FinishWork(a)
      PROVE  TypeOK'
  BY <1>32 DEF FinishWork
<1>33. ASSUME NEW a \in Workers, ~cancelled, PollAndExit(a)
      PROVE  TypeOK'
  BY <1>33, AgentFacts DEF PollAndExit, EndWork, Pool!Finish, Pool!Outcomes
<1>34. ASSUME NEW a \in Workers, ~cancelled, PollAndContinue(a)
      PROVE  TypeOK'
  BY <1>34 DEF PollAndContinue
<1>35. ASSUME NEW a \in Workers, ~cancelled, Poll(a)
      PROVE  TypeOK'
  BY <1>35 DEF Poll
<1>36. CASE UNCHANGED vars
  BY <1>36
<1> QED BY <1>1, <1>2, <1>3, <1>4, <1>5, <1>6, <1>7, <1>8, <1>9, <1>10, <1>11, <1>12,
           <1>13, <1>14, <1>15, <1>16, <1>17, <1>18, <1>19, <1>20, <1>21, <1>22, <1>23, <1>24, <1>25,
           <1>26, <1>27, <1>28, <1>29, <1>30, <1>31, <1>32, <1>33, <1>34, <1>35, <1>36
        DEF Next, Orchestrate, Manage, WorkerLoop

-----------------------------------------------------------------------------
\* Whoever is live is still to be taken notice of.
LEMMA LiveIsOpen ==
  ASSUME AgentsAreHeld, NEW a \in Agents, handle[a] = "live"
  PROVE  IsOpen(a)
BY DEF AgentsAreHeld, Pool!Outcomes

\* A completion takes an agent whose end it has been told, and leaves the others.
LEMMA CompletionFacts ==
  ASSUME TypeOK, AgentsAreHeld, NEW a \in Agents, a \in Completed
  PROVE  a \in running /\ Told(a) \in Pool!Outcomes /\ handle[a] \in Pool!Outcomes
BY DEF Completed, Told, AgentsAreHeld

\* Agents stay in the hands of the orchestrator.
LEMMA HeldStep ==
  ASSUME TypeOK, AgentsAreHeld, StepKind
  PROVE  AgentsAreHeld'
<1> USE DEF AgentsAreHeld, IsOpen, Told, Pool!Outcomes
<1>1. ASSUME NEW a \in Agents, Spawns(a)
      PROVE  AgentsAreHeld'
  <2>1. /\ handle' = [handle EXCEPT ![a] = "live"] /\ handle[a] = "unborn"
        /\ UNCHANGED <<heard, running>> /\ current' = a /\ pc' = "noting" /\ pc # "noting"
    BY <1>1 DEF Spawns
  <2> QED BY <2>1 DEF TypeOK, Pool!HandlesTypeOK
<1>2. ASSUME NEW a \in Agents, Takes(a)
      PROVE  AgentsAreHeld'
  <2>1. /\ UNCHANGED <<handle, heard>> /\ running' = running \ {a} /\ a \in Completed
        /\ pc # "noting" /\ pc' # "noting"
    BY <1>2 DEF Takes, HandleCompletion
  <2>2. Told(a) \in Pool!Outcomes /\ handle[a] \in Pool!Outcomes
    BY <2>1, CompletionFacts
  <2> QED BY <2>1, <2>2
<1>3. ASSUME NEW a \in Agents, Ends(a)
      PROVE  AgentsAreHeld'
  <2>1. PICK outcome \in Pool!Outcomes : handle[a] = "live" /\ handle' = [handle EXCEPT ![a] = outcome]
    BY <1>3 DEF Ends, Pool!Finish
  <2>2. UNCHANGED <<heard, running, current, pc>>
    BY <1>3 DEF Ends, Pool!Finish
  <2> QED BY <2>1, <2>2 DEF TypeOK, Pool!HandlesTypeOK
<1>4. ASSUME NEW m \in Messages, Talks(m)
      PROVE  AgentsAreHeld'
  BY <1>4 DEF Talks
<1>5. CASE Notes
  <2>1. /\ pc = "noting" /\ pc' # "noting" /\ running' = running \cup {current} /\ handle' = handle
        /\ handle[current] # "unborn"
        /\ heard' = [heard EXCEPT ![current] = IF handle[current] = "live" THEN "attached" ELSE "lost"]
    BY <1>5 DEF Notes, Pool!Listen
  <2>2. current \in Agents /\ handle[current] \in {"live"} \cup Pool!Outcomes
    BY <2>1 DEF TypeOK, Pool!HandlesTypeOK
  <2> QED BY <2>1, <2>2 DEF TypeOK, Pool!HandlesTypeOK
<1>6. CASE Loses
  <2>1. /\ UNCHANGED <<handle, heard>> /\ running' = running \ {Lead} /\ Lead \in Completed
        /\ pc # "noting" /\ pc' # "noting"
    BY <1>6 DEF Loses
  <2>2. Told(Lead) \in Pool!Outcomes /\ handle[Lead] \in Pool!Outcomes
    BY <2>1, CompletionFacts, AgentFacts
  <2> QED BY <2>1, <2>2
<1>7. CASE Moves
  BY <1>7 DEF Moves, GoesOn
<1>8. CASE Rests
  BY <1>8 DEF Rests
<1> QED BY <1>1, <1>2, <1>3, <1>4, <1>5, <1>6, <1>7, <1>8 DEF StepKind

\* An agent that was spawned stays so, with the record of its birth, and keeps the end
\* that is known of it.
LEMMA AgentsStay ==
  ASSUME TypeOK, AgentsAreHeld, StepKind
  PROVE  /\ \A b \in Agents : handle[b] # "unborn" => handle'[b] # "unborn"
         /\ \A b \in Agents : handle[b] \in Pool!Outcomes => handle'[b] = handle[b]
         /\ \A b \in Workers : handle[b] # "unborn" => born'[b] = born[b]
         /\ \A s \in Subtasks : Spawned(s) \subseteq Spawned(s)'
<1> USE DEF Spawned, Pool!Outcomes
<1>1. ASSUME NEW a \in Agents, Spawns(a)
      PROVE  /\ \A b \in Agents : handle[b] # "unborn" => handle'[b] # "unborn"
             /\ \A b \in Agents : handle[b] \in Pool!Outcomes => handle'[b] = handle[b]
             /\ \A b \in Workers : handle[b] # "unborn" => born'[b] = born[b]
             /\ \A s \in Subtasks : Spawned(s) \subseteq Spawned(s)'
  <2>1. /\ handle' = [handle EXCEPT ![a] = "live"] /\ handle[a] = "unborn"
        /\ born' = born \/ \E r \in [messages : Nat, round : Nat] : born' = [born EXCEPT ![a] = r]
    BY <1>1 DEF Spawns, TypeOK
  <2>2. \A b \in Agents : b # a => handle'[b] = handle[b]
    BY <2>1 DEF TypeOK, Pool!HandlesTypeOK
  <2>3. \A b \in Workers : b # a => born'[b] = born[b]
    BY <2>1 DEF TypeOK
  <2> QED BY <2>1, <2>2, <2>3, AgentFacts
<1>2. ASSUME NEW a \in Agents, Takes(a)
      PROVE  /\ \A b \in Agents : handle[b] # "unborn" => handle'[b] # "unborn"
             /\ \A b \in Agents : handle[b] \in Pool!Outcomes => handle'[b] = handle[b]
             /\ \A b \in Workers : handle[b] # "unborn" => born'[b] = born[b]
             /\ \A s \in Subtasks : Spawned(s) \subseteq Spawned(s)'
  BY <1>2 DEF Takes
<1>3. ASSUME NEW a \in Agents, Ends(a)
      PROVE  /\ \A b \in Agents : handle[b] # "unborn" => handle'[b] # "unborn"
             /\ \A b \in Agents : handle[b] \in Pool!Outcomes => handle'[b] = handle[b]
             /\ \A b \in Workers : handle[b] # "unborn" => born'[b] = born[b]
             /\ \A s \in Subtasks : Spawned(s) \subseteq Spawned(s)'
  <2>1. PICK outcome \in Pool!Outcomes : handle[a] = "live" /\ handle' = [handle EXCEPT ![a] = outcome]
    BY <1>3 DEF Ends, Pool!Finish
  <2>2. UNCHANGED born
    BY <1>3 DEF Ends
  <2> QED BY <2>1, <2>2, AgentFacts DEF TypeOK, Pool!HandlesTypeOK
<1>4. ASSUME NEW m \in Messages, Talks(m)
      PROVE  /\ \A b \in Agents : handle[b] # "unborn" => handle'[b] # "unborn"
             /\ \A b \in Agents : handle[b] \in Pool!Outcomes => handle'[b] = handle[b]
             /\ \A b \in Workers : handle[b] # "unborn" => born'[b] = born[b]
             /\ \A s \in Subtasks : Spawned(s) \subseteq Spawned(s)'
  BY <1>4 DEF Talks
<1>5. CASE Notes
  BY <1>5 DEF Notes, Pool!Listen
<1>6. CASE Loses
  BY <1>6 DEF Loses
<1>7. CASE Moves
  BY <1>7 DEF Moves
<1>8. CASE Rests
  BY <1>8 DEF Rests
<1> QED BY <1>1, <1>2, <1>3, <1>4, <1>5, <1>6, <1>7, <1>8 DEF StepKind

\* Messages are only added, one at a time: an approval answers a worker that polls, and
\* the exit of the manager is told when it is known.
LEMMA MessagesStay ==
  ASSUME TypeOK, AgentsAreHeld, StepKind
  PROVE  \/ UNCHANGED messages
         \/ \E new \in Messages :
              /\ messages' = Append(messages, new)
              /\ \A s \in Subtasks : new = Says("WORKER_APPROVED", s) => SaysDone(s) /\ Talks(new)
              /\ new = ManagerExited => handle'[Lead] \in Pool!Outcomes
<1>1. ASSUME NEW a \in Agents, Spawns(a)
      PROVE  \/ UNCHANGED messages
             \/ \E new \in Messages :
                  /\ messages' = Append(messages, new)
                  /\ \A s \in Subtasks : new = Says("WORKER_APPROVED", s) => SaysDone(s) /\ Talks(new)
                  /\ new = ManagerExited => handle'[Lead] \in Pool!Outcomes
  BY <1>1 DEF Spawns
<1>2. ASSUME NEW a \in Agents, Takes(a)
      PROVE  \/ UNCHANGED messages
             \/ \E new \in Messages :
                  /\ messages' = Append(messages, new)
                  /\ \A s \in Subtasks : new = Says("WORKER_APPROVED", s) => SaysDone(s) /\ Talks(new)
                  /\ new = ManagerExited => handle'[Lead] \in Pool!Outcomes
  <2>1. CASE a = Lead
    <3>1. UNCHANGED messages \/ messages' = Append(messages, ManagerExited)
      BY <1>2, <2>1 DEF Takes, HandleCompletion, SendSystemMessage
    <3>2. handle[Lead] \in Pool!Outcomes /\ handle' = handle
      BY <1>2, <2>1, CompletionFacts DEF Takes, HandleCompletion
    <3>3. \A s \in Subtasks : ManagerExited # Says("WORKER_APPROVED", s)
      BY SaysFacts, ExitFacts
    <3> QED BY <3>1, <3>2, <3>3, ExitFacts
  <2>2. CASE a # Lead
    BY <1>2, <2>2 DEF Takes, HandleCompletion, busVars
  <2> QED BY <2>1, <2>2
<1>3. ASSUME NEW a \in Agents, Ends(a)
      PROVE  \/ UNCHANGED messages
             \/ \E new \in Messages :
                  /\ messages' = Append(messages, new)
                  /\ \A s \in Subtasks : new = Says("WORKER_APPROVED", s) => SaysDone(s) /\ Talks(new)
                  /\ new = ManagerExited => handle'[Lead] \in Pool!Outcomes
  BY <1>3 DEF Ends
<1>4. ASSUME NEW m \in Messages, Talks(m)
      PROVE  \/ UNCHANGED messages
             \/ \E new \in Messages :
                  /\ messages' = Append(messages, new)
                  /\ \A s \in Subtasks : new = Says("WORKER_APPROVED", s) => SaysDone(s) /\ Talks(new)
                  /\ new = ManagerExited => handle'[Lead] \in Pool!Outcomes
  <2>1. m # ManagerExited
    BY <1>4, ExitFacts DEF Talks
  <2> QED BY <2>1, <1>4 DEF Talks
<1>5. CASE Notes
  BY <1>5 DEF Notes
<1>6. CASE Loses
  BY <1>6 DEF Loses
<1>7. CASE Moves
  BY <1>7 DEF Moves
<1>8. CASE Rests
  BY <1>8 DEF Rests
<1> QED BY <1>1, <1>2, <1>3, <1>4, <1>5, <1>6, <1>7, <1>8 DEF StepKind

\* The manager stays the first.
LEMMA ManagerStaysFirst ==
  ASSUME TypeOK, AgentsAreHeld, ManagerIsFirst, StepKind
  PROVE  ManagerIsFirst'
<1> USE DEF ManagerIsFirst
<1>1. ASSUME NEW a \in Agents, Spawns(a)
      PROVE  ManagerIsFirst'
  <2>1. \A b \in Agents : b # a => handle'[b] = handle[b]
    BY <1>1 DEF Spawns, TypeOK, Pool!HandlesTypeOK
  <2>2. handle'[a] = "live" /\ pc' = "noting" /\ (a # Lead => handle[Lead] # "unborn")
    BY <1>1 DEF Spawns, TypeOK, Pool!HandlesTypeOK
  <2> QED BY <2>1, <2>2, AgentFacts
<1>2. ASSUME NEW a \in Agents, Takes(a)
      PROVE  ManagerIsFirst'
  BY <1>2 DEF Takes
<1>3. ASSUME NEW a \in Agents, Ends(a)
      PROVE  ManagerIsFirst'
  <2>1. pc' = pc /\ \A b \in Agents : handle[b] = "unborn" => handle'[b] = "unborn"
    BY <1>3 DEF Ends, Pool!Finish, TypeOK, Pool!HandlesTypeOK
  <2> QED BY <2>1, AgentsStay, AgentFacts
<1>4. ASSUME NEW m \in Messages, Talks(m)
      PROVE  ManagerIsFirst'
  BY <1>4 DEF Talks
<1>5. CASE Notes
  <2>1. handle' = handle /\ pc = "noting"
    BY <1>5 DEF Notes, Pool!Listen
  <2> QED BY <2>1
<1>6. CASE Loses
  BY <1>6 DEF Loses
<1>7. CASE Moves
  BY <1>7 DEF Moves, GoesOn
<1>8. CASE Rests
  BY <1>8 DEF Rests
<1> QED BY <1>1, <1>2, <1>3, <1>4, <1>5, <1>6, <1>7, <1>8 DEF StepKind

\* A round begins when nobody is left of the one before.
LEMMA RoundsGoOn ==
  ASSUME TypeOK, AgentsAreHeld, RoundsFollow, StepKind
  PROVE  RoundsFollow'
<1> USE DEF RoundsFollow, IsOpen
<1>1. ASSUME NEW a \in Agents, Spawns(a)
      PROVE  RoundsFollow'
  <2>1. /\ handle[a] = "unborn" /\ \A b \in Agents : b # a => handle'[b] = handle[b]
        /\ UNCHANGED <<round, running>> /\ pc' = "noting" /\ pc # "noting" /\ current' = a
    BY <1>1 DEF Spawns, TypeOK, Pool!HandlesTypeOK
  <2>2. \A b \in Workers : b # a => born'[b] = born[b]
    BY <1>1 DEF Spawns, TypeOK
  <2>3. a # Lead => born'[a].round = round
    BY <1>1, AgentFacts DEF Spawns, TypeOK
  <2>4. a = Lead => round = 0
    BY <1>1 DEF Spawns
  <2>5. round \in Nat
    BY DEF TypeOK
  <2> QED BY <2>1, <2>2, <2>3, <2>4, <2>5, AgentFacts
<1>2. ASSUME NEW a \in Agents, Takes(a)
      PROVE  RoundsFollow'
  <2>1. UNCHANGED <<handle, round, born>> /\ running' \subseteq running
    BY <1>2 DEF Takes, HandleCompletion
  <2>2. pc # "noting" /\ pc' # "noting" /\ (pc' = "waiting" \/ (pc = "full" /\ pc' = "retrying"))
    BY <1>2 DEF Takes
  <2> QED BY <2>1, <2>2
<1>3. ASSUME NEW a \in Agents, Ends(a)
      PROVE  RoundsFollow'
  <2>1. UNCHANGED <<pc, current, running, round, born>>
    BY <1>3 DEF Ends
  <2>2. \A b \in Agents : handle[b] = "unborn" => handle'[b] = "unborn"
    BY <1>3 DEF Ends, Pool!Finish, TypeOK, Pool!HandlesTypeOK
  <2> QED BY <2>1, <2>2, AgentFacts
<1>4. ASSUME NEW m \in Messages, Talks(m)
      PROVE  RoundsFollow'
  BY <1>4 DEF Talks
<1>5. CASE Notes
  <2>1. /\ UNCHANGED <<handle, round, born, current>> /\ pc = "noting" /\ running' = running \cup {current}
        /\ IF current = Lead \/ round = 0 THEN pc' = "spawning" ELSE pc' = "respawning"
    BY <1>5 DEF Notes, Pool!Listen
  <2> QED BY <2>1
<1>6. CASE Loses
  BY <1>6 DEF Loses
<1>7. CASE Moves
  <2>1. UNCHANGED <<running, current, born, handle>> /\ pc # "noting" /\ pc' # "noting"
    BY <1>7 DEF Moves, GoesOn
  <2>2. CASE pc' = "announced" /\ running = {Lead} /\ round' = round + 1
    <3>1. \A b \in Workers : b \notin running /\ born[b].round \in Nat
      BY <2>2, AgentFacts DEF TypeOK
    <3>2. round \in Nat
      BY DEF TypeOK
    <3> QED BY <2>1, <2>2, <3>1, <3>2
  <2>3. CASE /\ round' = round /\ (pc' = "deciding" => pc = "announced") /\ pc' # "announced"
             /\ pc' = "full" => pc = "spawning"
             /\ pc' \notin {"starting", "spawning", "retrying"}
    BY <2>1, <2>3
  <2> QED BY <1>7, <2>2, <2>3 DEF Moves, GoesOn
<1>8. CASE Rests
  BY <1>8 DEF Rests
<1> QED BY <1>1, <1>2, <1>3, <1>4, <1>5, <1>6, <1>7, <1>8 DEF StepKind

\* After a spawn there is somebody to wait for.
LEMMA SomebodyStillRuns ==
  ASSUME SomebodyRuns, StepKind
  PROVE  SomebodyRuns'
<1> USE DEF SomebodyRuns
<1>1. ASSUME NEW a \in Agents, Spawns(a)
      PROVE  SomebodyRuns'
  BY <1>1 DEF Spawns
<1>2. ASSUME NEW a \in Agents, Takes(a)
      PROVE  SomebodyRuns'
  BY <1>2 DEF Takes
<1>3. ASSUME NEW a \in Agents, Ends(a)
      PROVE  SomebodyRuns'
  BY <1>3 DEF Ends
<1>4. ASSUME NEW m \in Messages, Talks(m)
      PROVE  SomebodyRuns'
  BY <1>4 DEF Talks
<1>5. CASE Notes
  BY <1>5 DEF Notes
<1>6. CASE Loses
  BY <1>6 DEF Loses
<1>7. CASE Moves
  BY <1>7 DEF Moves, GoesOn
<1>8. CASE Rests
  BY <1>8 DEF Rests
<1> QED BY <1>1, <1>2, <1>3, <1>4, <1>5, <1>6, <1>7, <1>8 DEF StepKind

\* With nobody left of a subtask, its result is known.
KnownOf(s) ==
  Spawned(s) # {} /\ (\A b \in Spawned(s) : ~IsOpen(b)) => \E b \in Latest(s) : memory[s] = Result(b)

\* Results of a subtask are not touched by what happens to another.
LEMMA OthersKeepResults ==
  ASSUME NEW s \in Subtasks, KnownOf(s), memory'[s] = memory[s],
         \A b \in Workers : b[1] = s =>
           /\ (handle'[b] = "unborn" <=> handle[b] = "unborn") /\ (IsOpen(b)' <=> IsOpen(b))
           /\ born'[b] = born[b]
           /\ handle[b] # "unborn" /\ ~IsOpen(b) => handle'[b] = handle[b] /\ heard'[b] = heard[b]
  PROVE  KnownOf(s)'
<1>1. Spawned(s)' = Spawned(s)
  BY DEF Spawned
<1>2. \A b \in Spawned(s) : b \in Workers /\ b[1] = s /\ handle[b] # "unborn"
  BY DEF Spawned
<1>3. Latest(s)' = Latest(s)
  BY <1>1, <1>2 DEF Latest
<1>4. \A b \in Spawned(s) : ~IsOpen(b) => Result(b)' = Result(b)
  BY <1>2 DEF Result, Told
<1>5. Latest(s) \subseteq Spawned(s)
  BY DEF Latest
<1>6. SUFFICES ASSUME Spawned(s) # {}, \A b \in Spawned(s) : ~IsOpen(b)
               PROVE  \E b \in Latest(s) : memory[s]' = Result(b)'
  BY <1>1, <1>2, <1>3 DEF KnownOf
<1> QED BY <1>1, <1>4, <1>5, <1>6 DEF KnownOf

\* With nobody left of a subtask, the plan shows a result of the latest round, and the
\* stored plan too while the context allows.
LEMMA ResultsStayKnown ==
  ASSUME TypeOK, AgentsAreHeld, RoundsFollow, ResultsAreKnown, StepKind
  PROVE  ResultsAreKnown'
<1>a. \A s \in Subtasks : KnownOf(s)
  BY DEF ResultsAreKnown, KnownOf
<1>b. ASSUME \A s \in Subtasks : KnownOf(s)', ~cancelled' => stored' = memory'
      PROVE  ResultsAreKnown'
  BY <1>b DEF ResultsAreKnown, KnownOf
<1>c. /\ ~cancelled => stored = memory
      /\ memory \in [Subtasks -> {"pending", "running", "completed", "failed"}]
  BY DEF ResultsAreKnown, TypeOK
<1>1. ASSUME NEW a \in Agents, Spawns(a)
      PROVE  ResultsAreKnown'
  <2>1. /\ handle[a] = "unborn" /\ \A b \in Agents : b # a => handle'[b] = handle[b]
        /\ UNCHANGED <<running, heard, memory, stored, cancelled>>
        /\ pc' = "noting" /\ pc # "noting" /\ current' = a
        /\ \A b \in Workers : b # a => born'[b] = born[b]
    BY <1>1 DEF Spawns, TypeOK, Pool!HandlesTypeOK
  <2>2. ASSUME NEW s \in Subtasks
        PROVE  KnownOf(s)'
    <3>1. CASE a \in Workers /\ a[1] = s
      <4>1. a \in Spawned(s)' /\ IsOpen(a)'
        BY <1>1, <2>1, <3>1 DEF Spawned, IsOpen, Spawns, TypeOK, Pool!HandlesTypeOK
      <4> QED BY <4>1 DEF KnownOf
    <3>2. CASE ~(a \in Workers /\ a[1] = s)
      <4>1. \A b \in Workers : b[1] = s => b # a /\ (IsOpen(b)' <=> IsOpen(b))
        BY <2>1, <3>2 DEF IsOpen
      <4> QED BY <1>a, <2>1, <4>1, AgentFacts, OthersKeepResults
    <3> QED BY <3>1, <3>2
  <2> QED BY <1>b, <1>c, <2>1, <2>2
<1>2. ASSUME NEW a \in Agents, Takes(a)
      PROVE  ResultsAreKnown'
  <2>1. /\ UNCHANGED <<handle, heard, born, cancelled, current, round>> /\ running' = running \ {a}
        /\ a \in Completed /\ pc # "noting" /\ pc' # "noting"
    BY <1>2 DEF Takes, HandleCompletion
  <2>2. a \in running
    BY <2>1, CompletionFacts
  <2>3. CASE a = Lead
    <3>1. UNCHANGED <<memory, stored>> /\ \A b \in Workers : IsOpen(b)' <=> IsOpen(b)
      BY <1>2, <2>1, <2>3, AgentFacts DEF Takes, HandleCompletion, IsOpen
    <3>2. \A s \in Subtasks : KnownOf(s)'
      BY <1>a, <2>1, <3>1, OthersKeepResults
    <3> QED BY <1>b, <1>c, <2>1, <3>1, <3>2
  <2>4. CASE a # Lead
    <3>1. a \in Workers /\ a[1] \in Subtasks /\ Note(a[1], Result(a))
      BY <1>2, <2>4, AgentFacts DEF Takes, HandleCompletion, Result
    <3>2. memory' = [memory EXCEPT ![a[1]] = Result(a)] /\ (~cancelled' => stored' = memory')
      BY <2>1, <3>1 DEF Note
    <3>3. ASSUME NEW s \in Subtasks
          PROVE  KnownOf(s)'
      <4>1. CASE s = a[1]
        <5>1. a \in Spawned(s) /\ born[a].round = round /\ \A b \in Spawned(s) : born[b].round <= round
          BY <2>2, <3>1, <4>1, AgentFacts DEF RoundsFollow, Spawned, AgentsAreHeld, IsOpen
        <5>2. a \in Latest(s)'
          BY <2>1, <5>1 DEF Latest, Spawned
        <5>3. memory'[s] = Result(a)'
          BY <1>c, <2>1, <3>2, <4>1 DEF Result, Told
        <5> QED BY <5>2, <5>3 DEF KnownOf
      <4>2. CASE s # a[1]
        <5>1. memory'[s] = memory[s]
          BY <1>c, <3>2, <4>2
        <5>2. \A b \in Workers : b[1] = s => (IsOpen(b)' <=> IsOpen(b))
          BY <2>1, <4>2 DEF IsOpen
        <5> QED BY <1>a, <2>1, <5>1, <5>2, OthersKeepResults
      <4> QED BY <4>1, <4>2
    <3> QED BY <1>b, <3>2, <3>3
  <2> QED BY <2>3, <2>4
<1>3. ASSUME NEW a \in Agents, Ends(a)
      PROVE  ResultsAreKnown'
  <2>1. /\ UNCHANGED <<pc, current, running, memory, stored, cancelled, born, heard>>
        /\ handle[a] = "live" /\ \A b \in Agents : b # a => handle'[b] = handle[b]
    BY <1>3 DEF Ends, Pool!Finish, TypeOK, Pool!HandlesTypeOK
  <2>2. IsOpen(a) /\ handle'[a] # "unborn"
    BY <2>1, LiveIsOpen, AgentsStay
  <2>3. \A b \in Agents : IsOpen(b)' <=> IsOpen(b)
    BY <2>1 DEF IsOpen
  <2>4. \A s \in Subtasks : KnownOf(s)'
    BY <1>a, <2>1, <2>2, <2>3, AgentFacts, OthersKeepResults
  <2> QED BY <1>b, <1>c, <2>1, <2>4
<1>4. ASSUME NEW m \in Messages, Talks(m)
      PROVE  ResultsAreKnown'
  <2>1. UNCHANGED <<pc, current, running, memory, stored, cancelled, born, handle, heard>>
    BY <1>4 DEF Talks
  <2>2. \A s \in Subtasks : KnownOf(s)'
    BY <1>a, <2>1, OthersKeepResults DEF IsOpen
  <2> QED BY <1>b, <1>c, <2>1, <2>2
<1>5. CASE Notes
  <2>1. /\ UNCHANGED <<handle, born, cancelled, current>> /\ running' = running \cup {current}
        /\ pc = "noting" /\ pc' # "noting" /\ heard' \in [Agents -> {"nothing", "attached"} \cup Pool!Outcomes]
        /\ \A b \in Agents : b # current => heard'[b] = heard[b]
    BY <1>5 DEF Notes, Pool!Listen, TypeOK, Pool!HandlesTypeOK, Pool!Outcomes
  <2>2. current \in Agents /\ IsOpen(current)
    BY <2>1 DEF TypeOK, IsOpen
  <2>3. \A b \in Agents : IsOpen(b)' <=> IsOpen(b)
    BY <2>1 DEF IsOpen
  <2>4. \A s \in Subtasks : (current # Lead => s # current[1]) => memory'[s] = memory[s]
    BY <1>5, <1>c DEF Notes, Note
  <2>5. ASSUME NEW s \in Subtasks
        PROVE  KnownOf(s)'
    <3>1. CASE current # Lead /\ s = current[1]
      <4>1. \E b \in Spawned(s)' : IsOpen(b)'
        BY <1>5, <2>1, <2>2, <2>3, <3>1, AgentFacts DEF Spawned, Notes, Pool!Listen
      <4> QED BY <4>1 DEF KnownOf
    <3>2. CASE current # Lead => s # current[1]
      <4>1. \A b \in Workers : b[1] = s => b # current
        BY <3>2, AgentFacts
      <4> QED BY <1>a, <2>1, <2>3, <2>4, <3>2, <4>1, AgentFacts, OthersKeepResults
    <3> QED BY <3>1, <3>2
  <2>6. ~cancelled' => stored' = memory'
    BY <1>5, <1>c, <2>1 DEF Notes, Note
  <2> QED BY <1>b, <2>5, <2>6
<1>6. CASE Loses
  <2>1. /\ UNCHANGED <<memory, stored, cancelled, born, handle, heard, current>>
        /\ pc # "noting" /\ pc' # "noting" /\ running' = running \ {Lead}
    BY <1>6 DEF Loses
  <2>2. \A s \in Subtasks : KnownOf(s)'
    BY <1>a, <2>1, AgentFacts, OthersKeepResults DEF IsOpen
  <2> QED BY <1>b, <1>c, <2>1, <2>2
<1>7. CASE Moves
  <2>1. /\ UNCHANGED <<memory, stored, cancelled, born, handle, heard, current, running>>
        /\ pc # "noting" /\ pc' # "noting"
    BY <1>7 DEF Moves, GoesOn
  <2>2. \A s \in Subtasks : KnownOf(s)'
    BY <1>a, <2>1, OthersKeepResults DEF IsOpen
  <2> QED BY <1>b, <1>c, <2>1, <2>2
<1>8. CASE Rests
  <2>1. UNCHANGED <<pc, current, running, memory, stored, born, handle, heard>>
    BY <1>8 DEF Rests
  <2>2. cancelled => cancelled'
    BY <1>8, Zenon DEF Rests
  <2>3. \A s \in Subtasks : KnownOf(s)'
    BY <1>a, <2>1, OthersKeepResults DEF IsOpen
  <2> QED BY <1>b, <1>c, <2>1, <2>2, <2>3
<1> QED BY <1>1, <1>2, <1>3, <1>4, <1>5, <1>6, <1>7, <1>8 DEF StepKind

\* Whoever says that it is done is spawned, there, and of this round.
LEMMA AskersAreThere ==
  ASSUME TypeOK, AgentsAreHeld, RoundsFollow, NEW s \in Subtasks, SaysDone(s)
  PROVE  /\ \E b \in OfRound(s, round) : b \in Spawned(s) /\ born[b].round = round
         /\ pc \notin {"announced", "deciding"}
<1>1. PICK b \in LiveWorkers : b[1] = s
  BY DEF SaysDone
<1>2. b \in Workers /\ handle[b] = "live" /\ IsOpen(b)
  BY <1>1, AgentFacts, LiveIsOpen DEF LiveWorkers, Live
<1>3. b \in Spawned(s) /\ born[b].round = round
  BY <1>1, <1>2 DEF Spawned, RoundsFollow
<1>4. pc \notin {"announced", "deciding"}
  BY <1>2, AgentFacts DEF RoundsFollow, IsOpen
<1> QED BY <1>3, <1>4 DEF OfRound

\* What may be said of a message that is new.
IsNew(i) ==
  /\ i = Len(messages) + 1 /\ messages'[i] \in Messages
  /\ \A s \in Subtasks : messages'[i] = Says("WORKER_APPROVED", s) => SaysDone(s) /\ Talks(messages'[i])
  /\ messages'[i] = ManagerExited => handle'[Lead] \in Pool!Outcomes

\* What was said of a message that is there stays true of it.
LEMMA OldMessages ==
  ASSUME TypeOK, AgentsAreHeld, StepKind
  PROVE  /\ Len(messages) <= Len(messages') /\ 1 .. Len(messages) \subseteq 1 .. Len(messages')
         /\ \A i \in 1 .. Len(messages) : messages'[i] = messages[i]
         /\ \A i \in 1 .. Len(messages) : BroadcastAfter(i) => BroadcastAfter(i)'
         /\ \A i \in 1 .. Len(messages') : i \in 1 .. Len(messages) \/ IsNew(i)
<1>1. messages \in Seq(Messages) /\ Len(messages) \in Nat
  BY DEF TypeOK
<1>2. CASE UNCHANGED messages
  BY <1>1, <1>2 DEF BroadcastAfter
<1>3. ASSUME NEW new \in Messages, messages' = Append(messages, new),
             \A s \in Subtasks : new = Says("WORKER_APPROVED", s) => SaysDone(s) /\ Talks(new),
             new = ManagerExited => handle'[Lead] \in Pool!Outcomes
      PROVE  /\ Len(messages) <= Len(messages') /\ 1 .. Len(messages) \subseteq 1 .. Len(messages')
             /\ \A i \in 1 .. Len(messages) : messages'[i] = messages[i]
             /\ \A i \in 1 .. Len(messages) : BroadcastAfter(i) => BroadcastAfter(i)'
             /\ \A i \in 1 .. Len(messages') : i \in 1 .. Len(messages) \/ IsNew(i)
  <2>1. /\ Len(messages') = Len(messages) + 1 /\ messages'[Len(messages) + 1] = new
        /\ \A i \in 1 .. Len(messages) : messages'[i] = messages[i]
    BY <1>1, <1>3
  <2>2. \A i \in 1 .. Len(messages) : BroadcastAfter(i) => BroadcastAfter(i)'
    BY <1>1, <2>1 DEF BroadcastAfter
  <2>3. \A i \in 1 .. Len(messages') : i \in 1 .. Len(messages) \/ i = Len(messages) + 1
    BY <1>1, <2>1
  <2>4. IsNew(Len(messages) + 1)
    BY <1>3, <2>1 DEF IsNew
  <2> QED BY <1>1, <2>1, <2>2, <2>3, <2>4
<1> QED BY <1>2, <1>3, MessagesStay

\* The exit of the manager is told when it is known.
LEMMA ExitStaysTrue ==
  ASSUME TypeOK, AgentsAreHeld, ExitIsTrue, StepKind
  PROVE  ExitIsTrue'
<1> SUFFICES ASSUME NEW i \in 1 .. Len(messages'), messages'[i] = ManagerExited
             PROVE  handle'[Lead] \in Pool!Outcomes
  BY DEF ExitIsTrue
<1>1. CASE i \in 1 .. Len(messages)
  BY <1>1, OldMessages, AgentsStay, AgentFacts DEF ExitIsTrue
<1>2. CASE i \notin 1 .. Len(messages)
  BY <1>2, OldMessages DEF IsNew
<1> QED BY <1>1, <1>2

\* What is being posted is the latest message, or is posted.
LEMMA PostingStays ==
  ASSUME TypeOK, StepKind
  PROVE  \/ posting' \in {0, posting}
         \/ posting' = Len(messages') /\ \E m \in Messages : Talks(m)
<1>1. ASSUME NEW a \in Agents, Takes(a)
      PROVE  posting' = posting
  BY <1>1 DEF Takes, HandleCompletion, SendSystemMessage, busVars
<1>2. ASSUME NEW a \in Agents, Spawns(a) \/ Ends(a)
      PROVE  posting' = posting
  BY <1>2 DEF Spawns, Ends
<1>3. CASE Notes \/ Loses \/ Moves
  BY <1>3 DEF Notes, Loses, Moves
<1>4. CASE Rests
  BY <1>4 DEF Rests
<1>5. ASSUME NEW m \in Messages, Talks(m)
      PROVE  posting' = Len(messages')
  BY <1>5 DEF Talks
<1> QED BY <1>1, <1>2, <1>3, <1>4, <1>5 DEF StepKind

\* Only a worker that is there is approved.
LEMMA ApprovalsStayAnswers ==
  ASSUME TypeOK, TypeOK', AgentsAreHeld, RoundsFollow, ApprovalsAreAnswers, StepKind
  PROVE  ApprovalsAreAnswers'
<1>1. /\ Len(messages) \in Nat /\ Len(messages') \in Nat /\ posting \in 0 .. Len(messages)
      /\ \A b \in Workers : born[b].messages \in Nat
  BY DEF TypeOK
<1>2. \A b \in Workers : born'[b].messages <= Len(messages')
  <2>1. \A b \in Workers : born'[b] = born[b] \/ born'[b].messages = Len(messages)
    <3>1. ASSUME NEW a \in Agents, Spawns(a)
          PROVE  \A b \in Workers : born'[b] = born[b] \/ born'[b].messages = Len(messages)
      BY <3>1 DEF Spawns, TypeOK
    <3>2. (\E a \in Agents : Spawns(a)) \/ UNCHANGED born
      BY DEF StepKind, Takes, Ends, Talks, Notes, Loses, Moves, Rests
    <3> QED BY <3>1, <3>2
  <2> QED BY <1>1, <2>1, OldMessages DEF ApprovalsAreAnswers
<1>3. ASSUME NEW i \in 1 .. Len(messages'), NEW s \in Subtasks, messages'[i] = Says("WORKER_APPROVED", s)
      PROVE  /\ \E b \in Spawned(s)' : i > born'[b].messages
             /\ posting' # 0 => i <= posting'
  <2>1. CASE i \in 1 .. Len(messages)
    <3>1. IsApproval(i, s)
      BY <1>3, <2>1, OldMessages DEF IsApproval
    <3>2. PICK b \in Spawned(s) : i > born[b].messages
      BY <2>1, <3>1 DEF ApprovalsAreAnswers
    <3>3. b \in Spawned(s)' /\ born'[b] = born[b]
      BY <3>2, AgentsStay, AgentFacts DEF Spawned
    <3>4. posting # 0 => i <= posting
      BY <2>1, <3>1 DEF ApprovalsAreAnswers
    <3>5. posting' # 0 => i <= posting'
      BY <1>1, <1>3, <3>4, PostingStays
    <3> QED BY <3>2, <3>3, <3>5
  <2>2. CASE i \notin 1 .. Len(messages)
    <3>1. i = Len(messages) + 1 /\ SaysDone(s) /\ Talks(messages'[i])
      BY <1>3, <2>2, OldMessages DEF IsNew
    <3>2. PICK b \in Spawned(s) : TRUE
      BY <3>1, AskersAreThere
    <3>3. b \in Spawned(s)' /\ born'[b] = born[b] /\ b \in Workers
      BY <3>2, AgentsStay, AgentFacts DEF Spawned
    <3>4. born[b].messages <= Len(messages)
      BY <3>3 DEF ApprovalsAreAnswers
    <3>5. posting' = Len(messages') /\ i <= Len(messages')
      BY <1>3, <3>1 DEF Talks
    <3> QED BY <1>1, <3>1, <3>3, <3>4, <3>5
  <2> QED BY <2>1, <2>2
<1> QED BY <1>2, <1>3 DEF ApprovalsAreAnswers, IsApproval

\* A message of the inbox that asks for something is stored, and nobody was approved after it.
LateRequest(message) ==
  message.asks # <<>> =>
    \E j \in 1 .. Len(messages) :
      /\ messages[j] = message
      /\ \A i \in 1 .. Len(messages), s \in Subtasks : IsApproval(i, s) => i < j

LEMMA LateRequestsStay ==
  ASSUME TypeOK, AgentsAreHeld, RoundsFollow, StepKind, pc = "deciding",
         NEW message \in Messages, LateRequest(message)
  PROVE  message.asks # <<>> =>
           \E j \in 1 .. Len(messages') :
             /\ messages'[j] = message
             /\ \A i \in 1 .. Len(messages'), s \in Subtasks : messages'[i] = Says("WORKER_APPROVED", s) => i < j
<1> SUFFICES ASSUME message.asks # <<>>
             PROVE  \E j \in 1 .. Len(messages') :
                      /\ messages'[j] = message
                      /\ \A i \in 1 .. Len(messages'), s \in Subtasks :
                           messages'[i] = Says("WORKER_APPROVED", s) => i < j
  OBVIOUS
<1>1. PICK j \in 1 .. Len(messages) :
        /\ messages[j] = message
        /\ \A i \in 1 .. Len(messages), s \in Subtasks : IsApproval(i, s) => i < j
  BY DEF LateRequest
<1>2. j \in 1 .. Len(messages') /\ messages'[j] = message
  BY <1>1, OldMessages
<1>3. ASSUME NEW i \in 1 .. Len(messages'), NEW s \in Subtasks, messages'[i] = Says("WORKER_APPROVED", s)
      PROVE  i < j
  <2>1. ~SaysDone(s)
    BY AskersAreThere
  <2>2. i \in 1 .. Len(messages) /\ messages[i] = Says("WORKER_APPROVED", s)
    BY <1>3, <2>1, OldMessages DEF IsNew
  <2> QED BY <1>1, <2>2 DEF IsApproval
<1> QED BY <1>2, <1>3

\* What comes through the bus has been stored, and nobody has been approved since.
LEMMA InboxStaysStored ==
  ASSUME TypeOK, TypeOK', AgentsAreHeld, RoundsFollow, ApprovalsAreAnswers, InboxIsStored,
         StepKind
  PROVE  InboxIsStored'
<1> DEFINE Kept(message) ==
             message.asks # <<>> =>
               \E j \in 1 .. Len(messages') :
                 /\ messages'[j] = message
                 /\ \A i \in 1 .. Len(messages'), s \in Subtasks :
                      messages'[i] = Says("WORKER_APPROVED", s) => i < j
<1> USE DEF InboxIsStored
<1>a. /\ inbox \in Seq(Messages) /\ messages \in Seq(Messages)
      /\ \A k \in 1 .. Len(inbox) : inbox[k] \in Messages /\ pc = "deciding"
  BY DEF TypeOK
<1>b. ASSUME subscribed' <=> pc' = "deciding", ~subscribed' => inbox' = <<>>,
             \A k \in 1 .. Len(inbox') : Kept(inbox'[k])
      PROVE  InboxIsStored'
  BY <1>b DEF IsApproval
<1>c. \A m \in Messages : pc = "deciding" /\ LateRequest(m) => Kept(m)
  BY LateRequestsStay
<1>d. \A k \in 1 .. Len(inbox) : LateRequest(inbox[k])
  BY DEF LateRequest
<1>e. \A k \in 1 .. Len(inbox) : Kept(inbox[k])
  BY <1>a, <1>c, <1>d
<1> HIDE DEF Kept
<1>1. ASSUME NEW a \in Agents, Spawns(a)
      PROVE  InboxIsStored'
  BY <1>b, <1>e, <1>1 DEF Spawns
<1>2. ASSUME NEW a \in Agents, Takes(a)
      PROVE  InboxIsStored'
  <2>1. ~subscribed /\ inbox = <<>> /\ pc' # "deciding"
    BY <1>2 DEF Takes
  <2>2. subscribed' = subscribed /\ inbox' = inbox
    BY <1>2, <2>1, Zenon DEF Takes, HandleCompletion, SendSystemMessage, busVars
  <2> QED BY <1>b, <1>e, <2>1, <2>2
<1>3. ASSUME NEW a \in Agents, Ends(a)
      PROVE  InboxIsStored'
  <2>1. UNCHANGED <<pc, subscribed, inbox>>
    BY <1>3 DEF Ends
  <2> QED BY <1>b, <1>e, <2>1
<1>4. ASSUME NEW m \in Messages, Talks(m)
      PROVE  InboxIsStored'
  <2>1. UNCHANGED <<pc, subscribed, inbox>>
    BY <1>4 DEF Talks
  <2> QED BY <1>b, <1>e, <2>1
<1>5. CASE Notes
  BY <1>b, <1>e, <1>5 DEF Notes
<1>6. CASE Loses
  <2>1. pc' # "deciding" /\ subscribed' = FALSE /\ inbox' = <<>>
    BY <1>6 DEF Loses
  <2> QED BY <1>b, <2>1
<1>7. CASE Moves
  <2>1. /\ inbox' = inbox \/ inbox' = <<>>
        /\ subscribed' <=> pc' = "deciding"
        /\ ~subscribed' => inbox' = <<>>
    BY <1>7 DEF Moves, GoesOn
  <2> QED BY <1>b, <1>e, <2>1
<1>8. CASE Rests
  <2>1. UNCHANGED <<pc, subscribed, messages>>
    BY <1>8 DEF Rests
  <2>2. CASE inbox' = inbox
    BY <1>b, <1>e, <2>1, <2>2
  <2>3. CASE inbox # <<>> /\ inbox' = Tail(inbox)
    <3>1. \A k \in 1 .. Len(inbox') : k + 1 \in 1 .. Len(inbox) /\ inbox'[k] = inbox[k + 1]
      BY <1>a, <2>3
    <3>2. subscribed'
      BY <2>1, <2>3
    <3> QED BY <1>b, <1>e, <2>1, <3>1, <3>2
  <2>4. CASE posting # 0 /\ subscribed /\ inbox' = Append(inbox, messages[posting])
    <3>1. posting \in 1 .. Len(messages) /\ messages[posting] \in Messages
      BY <2>4 DEF TypeOK
    <3>2. LateRequest(messages[posting])
      <4> SUFFICES ASSUME messages[posting].asks # <<>>
                   PROVE  \A i \in 1 .. Len(messages), s \in Subtasks : IsApproval(i, s) => i < posting
        BY <3>1 DEF LateRequest
      <4> SUFFICES ASSUME NEW i \in 1 .. Len(messages), NEW s \in Subtasks, IsApproval(i, s)
                   PROVE  i < posting
        OBVIOUS
      <4>1. i <= posting
        BY <2>4 DEF ApprovalsAreAnswers
      <4>2. messages[i].asks = <<>>
        BY SaysFacts DEF IsApproval
      <4> QED BY <3>1, <4>1, <4>2
    <3>3. Kept(messages[posting])
      BY <1>c, <2>4, <3>1, <3>2
    <3>4. \A k \in 1 .. Len(inbox') :
            (k \in 1 .. Len(inbox) /\ inbox'[k] = inbox[k]) \/ inbox'[k] = messages[posting]
      BY <1>a, <2>4, <3>1
    <3>5. \A k \in 1 .. Len(inbox') : Kept(inbox'[k])
      BY <1>e, <3>3, <3>4
    <3> QED BY <1>b, <2>1, <2>4, <3>5
  <2> QED BY <1>8, <2>2, <2>3, <2>4 DEF Rests
<1> QED BY <1>1, <1>2, <1>3, <1>4, <1>5, <1>6, <1>7, <1>8 DEF StepKind

\* In the list of requests an approval of an earlier round is followed by the request that
\* began this one.
LEMMA RequestsStayBetween ==
  ASSUME TypeOK, AgentsAreHeld, RoundsFollow, InboxIsStored, RequestsComeBetween, StepKind
  PROVE  RequestsComeBetween'
<1> SUFFICES ASSUME round' > 0, pc' \in {"respawning", "noting"}, NEW s \in Subtasks,
                    OfRound(s, round)' = {}, NEW i \in 1 .. Len(messages'), IsApproval(i, s)'
             PROVE  BroadcastAfter(i)'
  BY DEF RequestsComeBetween
<1>1. CASE pc = "deciding" /\ pc' = "respawning"
  <2>1. Moves
    BY <1>1 DEF StepKind, Spawns, Takes, Ends, Talks, Notes, Loses, Rests
  <2>2. inbox # <<>> /\ inbox[1].asks # <<>> /\ messages' = messages
    BY <1>1, <2>1 DEF Moves, GoesOn
  <2>3. 1 \in 1 .. Len(inbox) /\ inbox[1] \in Messages
    BY <2>2 DEF TypeOK
  <2>4. PICK j \in 1 .. Len(messages) :
          /\ messages[j] = inbox[1]
          /\ \A k \in 1 .. Len(messages), t \in Subtasks : IsApproval(k, t) => k < j
    BY <2>2, <2>3 DEF InboxIsStored
  <2>5. messages[j].from = Manager /\ messages[j].to = Everybody
    BY <2>2, <2>3, <2>4, MessageFacts
  <2>6. i < j /\ i \in 1 .. Len(messages)
    BY <2>2, <2>4 DEF IsApproval
  <2> QED BY <2>2, <2>4, <2>5, <2>6 DEF BroadcastAfter, TypeOK
<1>2. CASE ~(pc = "deciding" /\ pc' = "respawning")
  <2>1. round' = round /\ pc \in {"respawning", "noting"}
    <3>1. ASSUME NEW a \in Agents, Spawns(a)
          PROVE  round' = round /\ pc \in {"respawning", "noting"}
      BY <3>1 DEF Spawns, RoundsFollow, TypeOK
    <3>2. CASE Notes
      BY <3>2 DEF Notes
    <3>3. CASE \E a \in Agents : Takes(a) \/ Ends(a)
      BY <3>3 DEF Takes, Ends
    <3>4. CASE (\E m \in Messages : Talks(m)) \/ Rests
      BY <3>4 DEF Talks, Rests
    <3>5. CASE Loses \/ Moves
      BY <1>2, <3>5 DEF Loses, Moves, GoesOn
    <3> QED BY <3>1, <3>2, <3>3, <3>4, <3>5 DEF StepKind
  <2>2. OfRound(s, round) = {}
    <3>1. \A b \in Spawned(s) : b \in Spawned(s)' /\ born'[b] = born[b]
      BY AgentsStay, AgentFacts DEF Spawned
    <3> QED BY <2>1, <3>1 DEF OfRound
  <2>3. ~SaysDone(s)
    BY <2>2, AskersAreThere
  <2>4. i \in 1 .. Len(messages) /\ IsApproval(i, s)
    BY <2>3, OldMessages DEF IsApproval, IsNew
  <2>5. BroadcastAfter(i)
    BY <2>1, <2>2, <2>4 DEF RequestsComeBetween
  <2> QED BY <2>4, <2>5, OldMessages
<1> QED BY <1>1, <1>2

\* What a worker reads that was not meant for its round is outdated when it reads it.
LEMMA ApprovalsStayOfRound ==
  ASSUME TypeOK, AgentsAreHeld, RoundsFollow, ApprovalsAreAnswers, RequestsComeBetween,
         ApprovalsAreOfRound, StepKind
  PROVE  ApprovalsAreOfRound'
<1> SUFFICES ASSUME NEW c \in Workers, handle'[c] # "unborn",
                    NEW i \in 1 .. Len(messages'), IsApproval(i, c[1])'
             PROVE  BroadcastAfter(i)' \/ \E b \in OfRound(c[1], born[c].round)' : i > born'[b].messages
  BY DEF ApprovalsAreOfRound
<1>1. c[1] \in Subtasks /\ c \in Agents
  BY AgentFacts
<1>2. \A b \in Spawned(c[1]) : b \in Workers /\ b \in Spawned(c[1])' /\ born'[b] = born[b]
  BY <1>1, AgentsStay, AgentFacts DEF Spawned
<1>3. ASSUME NEW n, NEW b \in OfRound(c[1], n)
      PROVE  b \in OfRound(c[1], n)' /\ born'[b] = born[b]
  BY <1>2, <1>3 DEF OfRound
<1>4. CASE i \notin 1 .. Len(messages)
  <2>1. i = Len(messages) + 1 /\ Talks(messages'[i])
    BY <1>1, <1>4, OldMessages DEF IsApproval, IsNew
  <2>2. UNCHANGED <<handle, born>>
    BY <2>1 DEF Talks
  <2>3. c \in Spawned(c[1]) /\ born[c].messages <= Len(messages) /\ born[c].messages \in Nat
    BY <2>2 DEF Spawned, ApprovalsAreAnswers, TypeOK
  <2>4. c \in OfRound(c[1], born[c].round)'
    BY <2>2, <2>3 DEF OfRound, Spawned
  <2>5. i > born'[c].messages
    BY <2>1, <2>2, <2>3 DEF TypeOK
  <2> QED BY <2>4, <2>5
<1>5. CASE i \in 1 .. Len(messages) /\ handle[c] # "unborn"
  <2>1. IsApproval(i, c[1]) /\ born'[c] = born[c]
    BY <1>1, <1>5, OldMessages, AgentsStay DEF IsApproval
  <2>2. CASE BroadcastAfter(i)
    BY <1>5, <2>2, OldMessages
  <2>3. CASE \E b \in OfRound(c[1], born[c].round) : i > born[b].messages
    BY <1>3, <2>1, <2>3
  <2> QED BY <1>5, <2>1, <2>2, <2>3 DEF ApprovalsAreOfRound
<1>6. CASE i \in 1 .. Len(messages) /\ handle[c] = "unborn"
  <2>1. Spawns(c)
    <3>1. \A a \in Agents : Ends(a) => handle'[c] = handle[c]
      BY <1>1, <1>6 DEF Ends, Pool!Finish, TypeOK, Pool!HandlesTypeOK
    <3>2. \A a \in Agents : Spawns(a) => a = c
      BY <1>1, <1>6 DEF Spawns, TypeOK, Pool!HandlesTypeOK
    <3>3. (\E a \in Agents : Takes(a)) \/ (\E m \in Messages : Talks(m)) \/ Notes \/ Loses \/ Moves \/ Rests
             => handle' = handle
      BY DEF Takes, Talks, Notes, Pool!Listen, Loses, Moves, Rests
    <3> QED BY <1>6, <3>1, <3>2, <3>3 DEF StepKind
  <2>2. /\ born'[c].round = round /\ pc \in {"spawning", "retrying", "respawning"}
        /\ IsApproval(i, c[1]) /\ messages' = messages
    BY <1>6, <2>1, AgentFacts DEF Spawns, TypeOK, IsApproval
  <2>3. CASE round = 0
    <3>1. PICK b \in Spawned(c[1]) : i > born[b].messages
      BY <1>1, <1>6, <2>2 DEF ApprovalsAreAnswers
    <3>2. b \in Workers /\ born[b].round <= 0 /\ born[b].round \in Nat
      BY <2>3 DEF RoundsFollow, Spawned, TypeOK
    <3>3. b \in OfRound(c[1], 0)
      BY <3>2 DEF OfRound
    <3> QED BY <1>3, <2>2, <2>3, <3>1, <3>3
  <2>4. CASE round # 0 /\ OfRound(c[1], round) = {}
    <3>1. round > 0 /\ pc = "respawning"
      BY <2>2, <2>4 DEF RoundsFollow, TypeOK
    <3>2. BroadcastAfter(i)
      BY <1>1, <1>6, <2>2, <2>4, <3>1 DEF RequestsComeBetween
    <3> QED BY <1>6, <3>2, OldMessages
  <2>5. CASE OfRound(c[1], round) # {}
    <3>1. PICK d \in OfRound(c[1], round) : TRUE
      BY <2>5
    <3>2. d \in Workers /\ d[1] = c[1] /\ handle[d] # "unborn" /\ born[d].round = round
      BY <3>1 DEF OfRound, Spawned
    <3>3. BroadcastAfter(i) \/ \E b \in OfRound(c[1], round) : i > born[b].messages
      BY <1>6, <2>2, <3>2 DEF ApprovalsAreOfRound
    <3>4. CASE BroadcastAfter(i)
      BY <1>6, <3>4, OldMessages
    <3>5. CASE \E b \in OfRound(c[1], round) : i > born[b].messages
      BY <1>3, <2>2, <3>5
    <3> QED BY <3>3, <3>4, <3>5
  <2> QED BY <2>3, <2>4, <2>5
<1> QED BY <1>4, <1>5, <1>6

\* A worker that ends well was approved in its round, or the manager is gone.
LEMMA ApprovedStaysApproved ==
  ASSUME TypeOK, AgentsAreHeld, ManagerIsFirst, ApprovalsAreOfRound, ExitIsTrue,
         ApprovedOrOrphaned, StepKind
  PROVE  ApprovedOrOrphaned'
<1> DEFINE Witness(c) == \E b \in Spawned(c[1]) : \E i \in born[b].messages + 1 .. Len(messages) :
                           born[b].round = born[c].round /\ messages[i] = Says("WORKER_APPROVED", c[1])
<1>1. ASSUME NEW c \in Workers, handle[c] # "unborn", Witness(c)
      PROVE  Witness(c)'
  <2>1. PICK b \in Spawned(c[1]) : \E i \in born[b].messages + 1 .. Len(messages) :
               born[b].round = born[c].round /\ messages[i] = Says("WORKER_APPROVED", c[1])
    BY <1>1
  <2>2. PICK i \in born[b].messages + 1 .. Len(messages) :
               born[b].round = born[c].round /\ messages[i] = Says("WORKER_APPROVED", c[1])
    BY <2>1
  <2>3. b \in Workers /\ b \in Spawned(c[1])' /\ born'[b] = born[b] /\ born'[c] = born[c]
    BY <1>1, AgentsStay, AgentFacts DEF Spawned
  <2>4. i \in 1 .. Len(messages) /\ Len(messages) \in Nat /\ Len(messages') \in Int /\ born[b].messages \in Nat
    BY <2>2, <2>3, OldMessages DEF TypeOK
  <2>5. i \in born'[b].messages + 1 .. Len(messages') /\ messages'[i] = Says("WORKER_APPROVED", c[1])
    BY <2>2, <2>3, <2>4, OldMessages
  <2> QED BY <2>2, <2>3, <2>5
<1>2. ASSUME NEW c \in Workers, handle[c] # "unborn", handle[Lead] # "live"
      PROVE  handle'[Lead] # "live"
  <2>1. handle[Lead] \in Pool!Outcomes
    BY <1>2, AgentFacts DEF ManagerIsFirst, TypeOK, Pool!HandlesTypeOK
  <2> QED BY <2>1, AgentsStay, AgentFacts DEF Pool!Outcomes
<1>3. ASSUME NEW c \in Workers, handle[c] # "won", handle'[c] = "won"
      PROVE  handle[c] # "unborn" /\ (Witness(c) \/ handle[Lead] # "live")
  <2>1. PICK a \in Agents : Ends(a)
    <3>1. \A a \in Agents : Spawns(a) => handle'[c] = handle[c] \/ handle'[c] = "live"
      BY <1>3, AgentFacts DEF Spawns, TypeOK, Pool!HandlesTypeOK
    <3>2. (\E a \in Agents : Takes(a)) \/ (\E m \in Messages : Talks(m)) \/ Notes \/ Loses \/ Moves \/ Rests
             => handle' = handle
      BY DEF Takes, Talks, Notes, Pool!Listen, Loses, Moves, Rests
    <3> QED BY <1>3, <3>1, <3>2 DEF StepKind
  <2>2. PICK outcome \in Pool!Outcomes :
          Pool!Finish(a, outcome) /\ (outcome = "won" => a = Lead \/ Approved(a) \/ TellsExit(a))
    BY <2>1 DEF Ends
  <2>3. a = c /\ outcome = "won" /\ handle[c] = "live" /\ (Approved(c) \/ TellsExit(c))
    BY <1>3, <2>2, AgentFacts DEF Pool!Finish, TypeOK, Pool!HandlesTypeOK
  <2>4. seen[c] \in Nat /\ Len(messages) \in Nat /\ c[1] \in Subtasks
    BY AgentFacts DEF TypeOK
  <2>5. CASE TellsExit(c)
    <3>1. PICK i \in seen[c] + 1 .. Len(messages) : messages[i] = ManagerExited
      BY <2>5 DEF TellsExit
    <3>2. i \in 1 .. Len(messages)
      BY <2>4
    <3> QED BY <2>3, <3>1, <3>2 DEF ExitIsTrue, Pool!Outcomes
  <2>6. CASE Approved(c)
    <3>1. PICK i \in NewFor(c) : messages[i].kind = "WORKER_APPROVED" /\ \A j \in NewFor(c) : j <= i
      BY <2>6 DEF Approved, ToldTo
    <3>2. i \in 1 .. Len(messages) /\ messages[i].to \in {c[1], Everybody} /\ i >= seen[c] + 1
      BY <2>4, <3>1 DEF NewFor
    <3>3. PICK s \in Subtasks : messages[i] = Says("WORKER_APPROVED", s)
      BY <3>1, <3>2, MessageFacts DEF TypeOK
    <3>4. IsApproval(i, c[1])
      BY <3>2, <3>3, SaysFacts, AgentFacts DEF IsApproval
    <3>5. ~BroadcastAfter(i)
      <4> SUFFICES ASSUME NEW j \in i + 1 .. Len(messages), messages[j].from = Manager, messages[j].to = Everybody
                   PROVE  FALSE
        BY DEF BroadcastAfter
      <4>1. j \in NewFor(c)
        BY <2>4, <3>2 DEF NewFor
      <4> QED BY <3>1, <3>2, <4>1
    <3>6. PICK b \in OfRound(c[1], born[c].round) : i > born[b].messages
      BY <2>3, <3>2, <3>4, <3>5 DEF ApprovalsAreOfRound
    <3>7. b \in Spawned(c[1]) /\ b \in Workers /\ born[b].round = born[c].round /\ born[b].messages \in Nat
      BY <3>6 DEF OfRound, Spawned, TypeOK
    <3>8. i \in born[b].messages + 1 .. Len(messages)
      BY <2>4, <3>2, <3>6, <3>7
    <3> QED BY <2>3, <3>4, <3>7, <3>8 DEF IsApproval
  <2> QED BY <2>3, <2>5, <2>6
<1>4. ASSUME NEW c \in Workers, handle'[c] = "won"
      PROVE  Witness(c)' \/ handle'[Lead] # "live"
  <2>1. CASE handle[c] = "won"
    BY <1>1, <1>2, <2>1 DEF ApprovedOrOrphaned
  <2>2. CASE handle[c] # "won"
    BY <1>1, <1>2, <1>3, <1>4, <2>2
  <2> QED BY <2>1, <2>2
<1> QED BY <1>4 DEF ApprovedOrOrphaned

-----------------------------------------------------------------------------
LEMMA InitialState == Init => CollaborativeInv
<1> SUFFICES ASSUME Init
             PROVE  CollaborativeInv
  OBVIOUS
<1>1. TypeOK
  <2>1. messages \in Seq(Messages) /\ inbox \in Seq(Messages) /\ Len(messages) = 0 /\ posting = 0
    BY QueueFacts DEF Init
  <2>2. Pool!HandlesTypeOK
    BY DEF Init, Pool!HandlesInit, Pool!HandlesTypeOK
  <2>3. current \in Agents /\ running \in SUBSET Agents /\ faults \in 0 .. MaxFaults
    BY AgentFacts, CollaborativeAssumption DEF Init
  <2>4. next \in Nat \ {0} /\ round \in Nat
    BY DEF Init
  <2>7. cancelled \in BOOLEAN /\ subscribed \in BOOLEAN
    BY Zenon DEF Init
  <2>6. posting \in 0 .. Len(messages)
    BY <2>1
  <2>5. /\ work \in [Workers -> {"working", "polling"}] /\ seen \in [Workers -> Nat]
        /\ born \in [Workers -> [messages : Nat, round : Nat]]
        /\ memory \in [Subtasks -> {"pending", "running", "completed", "failed"}] /\ stored = memory
    BY DEF Init
  <2> QED BY <2>1, <2>2, <2>3, <2>4, <2>5, <2>6, <2>7 DEF Init, TypeOK
<1>2. \A a \in Agents : handle[a] = "unborn" /\ heard[a] = "nothing"
  BY DEF Init, Pool!HandlesInit
<1>3. \A s \in Subtasks : Spawned(s) = {}
  BY <1>2, AgentFacts DEF Spawned
<1>4. AgentsAreHeld
  BY <1>2 DEF Init, AgentsAreHeld, IsOpen, Pool!Outcomes
<1>5. ManagerIsFirst /\ RoundsFollow /\ SomebodyRuns
  BY <1>2, AgentFacts DEF Init, ManagerIsFirst, RoundsFollow, SomebodyRuns
<1>6. ResultsAreKnown
  BY <1>3 DEF Init, ResultsAreKnown
<1>7. ApprovalsAreAnswers /\ InboxIsStored /\ RequestsComeBetween /\ ApprovalsAreOfRound /\ ExitIsTrue
  BY <1>2, AgentFacts
     DEF Init, ApprovalsAreAnswers, InboxIsStored, RequestsComeBetween, ApprovalsAreOfRound, ExitIsTrue
<1>8. ApprovedOrOrphaned
  BY <1>2, AgentFacts DEF ApprovedOrOrphaned
<1> QED BY <1>1, <1>4, <1>5, <1>6, <1>7, <1>8 DEF CollaborativeInv

\* What the orchestrator knows of its agents, and what the messages say, stays consistent
\* (collaborative.go:36-296).
THEOREM Invariance == Spec => []CollaborativeInv
<1>1. CollaborativeInv /\ [Next]_vars => CollaborativeInv'
  <2> SUFFICES ASSUME CollaborativeInv, [Next]_vars
               PROVE  CollaborativeInv'
    OBVIOUS
  <2>1. StepKind /\ TypeOK /\ TypeOK'
    BY StepIsOfAKind, TypeIsKept DEF CollaborativeInv
  <2> QED BY <2>1, HeldStep, ManagerStaysFirst, RoundsGoOn, SomebodyStillRuns, ResultsStayKnown,
             ApprovalsStayAnswers, InboxStaysStored, RequestsStayBetween, ApprovalsStayOfRound,
             ExitStaysTrue, ApprovedStaysApproved
             DEF CollaborativeInv
<1> QED BY InitialState, <1>1, PTL DEF Spec

\* Whoever waits for a slot to open has an agent in the map that is still to be taken from
\* completionCh: the receive that the context does not end is always for somebody
\* (collaborative.go:137-151).
THEOREM FullWaits == Spec => []FullWaitsForSomebody
<1>1. CollaborativeInv => FullWaitsForSomebody
  BY DEF CollaborativeInv, SomebodyRuns, FullWaitsForSomebody
<1> QED BY Invariance, <1>1, PTL

\* When ALL_WORKERS_DONE goes out no worker is at work, in whatever round
\* (collaborative.go:189-221).
THEOREM DoneIsDone == Spec => []DoneMeansDone
<1>1. CollaborativeInv => DoneMeansDone
  <2> SUFFICES ASSUME CollaborativeInv, pc \in {"announced", "deciding"}, NEW a \in LiveWorkers
               PROVE  FALSE
    BY DEF DoneMeansDone
  <2>1. a \in Agents /\ a # Lead /\ handle[a] = "live"
    BY DEF LiveWorkers, Live
  <2>2. IsOpen(a)
    BY <2>1, LiveIsOpen DEF CollaborativeInv
  <2> QED BY <2>1, <2>2 DEF CollaborativeInv, RoundsFollow, IsOpen
<1> QED BY Invariance, <1>1, PTL

\* The manager decides on a result of the latest round that had a worker for the subtask, and
\* the stored plan shows it, whoever died meanwhile (collaborative.go:444-544, 285-293).
THEOREM DecidesLatest == Spec => []DecidesOnTheLatest
<1>1. CollaborativeInv => DecidesOnTheLatest
  <2> SUFFICES ASSUME CollaborativeInv, pc \in {"announced", "deciding"}, ~cancelled,
                      NEW s \in Subtasks, Spawned(s) # {}
               PROVE  memory[s] = stored[s] /\ \E a \in Latest(s) : stored[s] = Result(a)
    BY DEF DecidesOnTheLatest
  <2>1. running = {Lead} /\ stored = memory
    BY DEF CollaborativeInv, RoundsFollow, ResultsAreKnown
  <2>2. \A a \in Spawned(s) : ~IsOpen(a)
    BY <2>1, AgentFacts DEF Spawned, IsOpen
  <2> QED BY <2>1, <2>2 DEF CollaborativeInv, ResultsAreKnown
<1> QED BY Invariance, <1>1, PTL

\* A worker that ends well was approved in its round, or the manager is gone: an approval of
\* an earlier round is not taken for its own, although the loop reads the messages from the
\* first (collaborative.go:967-1012).
THEOREM Approvals == Spec => []ApprovedOrOrphaned
<1>1. CollaborativeInv => ApprovedOrOrphaned
  BY DEF CollaborativeInv
<1> QED BY Invariance, <1>1, PTL
===============================================================================
