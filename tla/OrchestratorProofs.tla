------------------------- MODULE OrchestratorProofs -------------------------
(***************************************************************************)
(* Proofs about Orchestrator, for every set of subtasks and files, every   *)
(* set of plans and every bound.  They rest on one inductive invariant,    *)
(* OrchestratorInv, which the runs check too.  The last part is about the  *)
(* dependency graph it schedules by: that the recursions of the code, as   *)
(* DependencyGraphCode has them, compute what Orchestrator takes them to.  *)
(***************************************************************************)
EXTENDS Orchestrator, DependencyGraphCode, FiniteSetTheorems, TLAPS

-----------------------------------------------------------------------------
(***************************************************************************)
(* Facts about the dependency graph.                                       *)
(***************************************************************************)

\* Only unfinished subtasks are skipped (dependency.go:105).
LEMMA DependentsUnfinished ==
  ASSUME NEW st, NEW deps, NEW failed, NEW s \in Dependents(st, deps, failed)
  PROVE  s \in DOMAIN st /\ st[s] \in Unfinished
<1> DEFINE U == {u \in DOMAIN st : st[u] \in Unfinished}
<1>1. ClosedUnderDependents(st, deps, failed, U)
  BY DEF ClosedUnderDependents
<1>2. U \in SUBSET DOMAIN st
  OBVIOUS
<1> QED
  BY <1>1, <1>2 DEF Dependents

\* A subtask whose dependencies are all completed is not skipped when another
\* one fails.
LEMMA Unreached ==
  ASSUME NEW st, NEW deps, NEW failed, NEW s \in DOMAIN st,
         AllDepsCompleted(st, deps, s), st[failed] # "completed"
  PROVE  s \notin Dependents(st, deps, failed)
<1> DEFINE S == {u \in DOMAIN st : st[u] \in Unfinished /\ u # s}
<1>1. deps[s] \cap (S \cup {failed}) = {}
  BY DEF AllDepsCompleted, Unfinished
<1>2. ClosedUnderDependents(st, deps, failed, S)
  BY <1>1 DEF ClosedUnderDependents
<1>3. S \in SUBSET DOMAIN st /\ s \notin S
  OBVIOUS
<1> QED
  BY <1>2, <1>3 DEF Dependents

\* Every unfinished subtask that depends on the failed one, or on one that is
\* skipped, is skipped.
LEMMA DependentsClosed ==
  ASSUME NEW st, NEW deps, NEW failed
  PROVE  ClosedUnderDependents(st, deps, failed, Dependents(st, deps, failed))
<1> DEFINE D == Dependents(st, deps, failed)
<1> SUFFICES ASSUME NEW s \in DOMAIN st, st[s] \in Unfinished,
                    NEW d \in deps[s], d \in D \cup {failed},
                    NEW S \in SUBSET DOMAIN st, ClosedUnderDependents(st, deps, failed, S)
             PROVE  s \in S
  BY DEF ClosedUnderDependents, Dependents
<1>1. d \in S \cup {failed}
  BY DEF Dependents
<1> QED
  BY <1>1 DEF ClosedUnderDependents

\* Every skipped subtask depends on the failed one or on one that is skipped.
LEMMA DependentsGrounded ==
  ASSUME NEW st, NEW deps, NEW failed, NEW s \in Dependents(st, deps, failed)
  PROVE  deps[s] \cap (Dependents(st, deps, failed) \cup {failed}) # {}
<1> DEFINE D == Dependents(st, deps, failed)
           S == D \ {s}
<1> SUFFICES ASSUME deps[s] \cap (D \cup {failed}) = {} PROVE FALSE
  OBVIOUS
<1>1. ClosedUnderDependents(st, deps, failed, S)
  BY DependentsClosed DEF ClosedUnderDependents
<1>2. S \in SUBSET DOMAIN st /\ s \notin S
  BY DependentsUnfinished
<1> QED
  BY <1>1, <1>2 DEF Dependents

\* What Fail does to the status of each subtask.
LEMMA FailEffect ==
  ASSUME NEW st \in [Subtasks -> Statuses],
         NEW deps \in [Subtasks -> SUBSET Subtasks],
         NEW t \in Subtasks, st[t] = "running"
  PROVE  LET after == Fail(st, deps, t)
         IN  /\ after \in [Subtasks -> Statuses]
             /\ after[t] = "failed"
             /\ \A s \in Subtasks :
                  /\ after[s] = "completed" <=> st[s] = "completed"
                  /\ after[s] \in Unfinished => after[s] = st[s]
                  /\ st[s] \in {"failed", "skipped"} => after[s] = st[s]
                  /\ s # t /\ AllDepsCompleted(st, deps, s) => after[s] = st[s]
                  /\ AllDepsCompleted(st, deps, s) => AllDepsCompleted(after, deps, s)
<1> DEFINE mid == [st EXCEPT ![t] = "failed"]
           D == Dependents(mid, deps, t)
           after == Fail(st, deps, t)
<1>1. mid \in [Subtasks -> Statuses] /\ mid[t] = "failed" /\ DOMAIN st = Subtasks
  BY DEF Statuses
<1>2. after = [s \in Subtasks |-> IF s \in D THEN "skipped" ELSE mid[s]]
  BY <1>1 DEF Fail
<1>3. \A s \in D : s \in Subtasks /\ mid[s] \in Unfinished
  BY <1>1, DependentsUnfinished
<1>4. t \notin D
  BY <1>1, <1>3 DEF Unfinished
<1>5. \A s \in Subtasks : AllDepsCompleted(st, deps, s) => AllDepsCompleted(mid, deps, s)
  <2> SUFFICES ASSUME NEW s \in Subtasks, NEW d \in deps[s], st[d] = "completed"
               PROVE  mid[d] = "completed"
    BY DEF AllDepsCompleted
  <2> QED
    OBVIOUS
<1>6. \A s \in Subtasks : AllDepsCompleted(st, deps, s) => s \notin D
  BY <1>1, <1>5, Unreached
<1>7. after \in [Subtasks -> Statuses] /\ after[t] = "failed"
  BY <1>1, <1>2, <1>4 DEF Statuses
<1>8. \A s \in Subtasks :
        /\ after[s] = "completed" <=> st[s] = "completed"
        /\ after[s] \in Unfinished => after[s] = st[s]
        /\ st[s] \in {"failed", "skipped"} => after[s] = st[s]
        /\ s # t /\ AllDepsCompleted(st, deps, s) => after[s] = st[s]
  BY <1>1, <1>2, <1>3, <1>4, <1>6 DEF Unfinished
<1>9. \A s \in Subtasks : AllDepsCompleted(st, deps, s) => AllDepsCompleted(after, deps, s)
  BY <1>8, <1>2 DEF AllDepsCompleted
<1> QED
  BY <1>7, <1>8, <1>9

-----------------------------------------------------------------------------
(***************************************************************************)
(* The invariant holds at first and is kept by every step.                 *)
(***************************************************************************)

LEMMA PlanTypes ==
  ASSUME plan \in Plans
  PROVE  /\ plan.deps \in [Subtasks -> SUBSET Subtasks]
         /\ plan.files \in [Subtasks -> SUBSET Files]
BY OrchestratorAssumption

LEMMA InitEstablishes ==
  ASSUME Init
  PROVE  OrchestratorInv
<1> USE OrchestratorAssumption DEF Init, Pool!HandlesInit
<1>1. TypeOK
  <2>1. Pool!HandlesTypeOK /\ locks \in [Files -> Subtasks \cup {Nobody}]
    BY DEF Pool!HandlesTypeOK, Lock!NoLocks
  <2>2. run \in 1 .. MaxRuns
    OBVIOUS
  <2>3. status \in [Subtasks -> Statuses] /\ memory = status /\ stored = status
    BY DEF Statuses
  <2> QED
    BY <2>1, <2>2, <2>3 DEF TypeOK
<1>0. RunsAreFresh /\ AnswersAreTrue
  BY DEF RunsAreFresh, AnswersAreTrue, Pool!Outcomes
<1>2. CompletedIsEarned /\ TodoIsReady /\ NothingYet /\ RunningIsMarked /\ RunningHoldLocks
  BY DEF CompletedIsEarned, TodoIsReady, NothingYet, RunningIsMarked, RunningHoldLocks
<1>3. LiveAreRunning
  BY DEF LiveAreRunning, LiveAgents
<1>4. StoredIsRemembered /\ FirstRunIsExact /\ SkipsExact /\ NothingLeftBehind
  BY DEF StoredIsRemembered, FirstRunIsExact, SkipsExact, NothingLeftBehind
<1>5. DependenciesFirst /\ LocksAreUsed
  BY DEF DependenciesFirst, LocksAreUsed, Agents, Lock!NoLocks
<1> QED
  BY <1>0, <1>1, <1>2, <1>3, <1>4, <1>5 DEF OrchestratorInv

\* A part of the invariant is kept by whatever leaves its variables alone.
LEMMA Untouched ==
  /\ RunsAreFresh /\ UNCHANGED <<run, pc, handle>> => RunsAreFresh'
  /\ AnswersAreTrue /\ UNCHANGED <<handle, heard>> => AnswersAreTrue'
  /\ CompletedIsEarned /\ UNCHANGED <<run, graphVars, handle>> => CompletedIsEarned'
  /\ TodoIsReady /\ UNCHANGED <<plan, pc, status, todo, current>> => TodoIsReady'
  /\ NothingYet /\ UNCHANGED <<pc, running, locks>> => NothingYet'
  /\ RunningIsMarked /\ UNCHANGED <<plan, status, running>> => RunningIsMarked'
  /\ LiveAreRunning /\ UNCHANGED <<run, running, current, handle>> => LiveAreRunning'
  /\ RunningHoldLocks /\ UNCHANGED <<plan, locks, running, current>> => RunningHoldLocks'
  /\ StoredIsRemembered /\ UNCHANGED <<pc, graphVars>> => StoredIsRemembered'
  /\ FirstRunIsExact /\ UNCHANGED <<plan, run, pc, status, stored, running>> => FirstRunIsExact'
  /\ DependenciesFirst /\ UNCHANGED <<plan, handle>> => DependenciesFirst'
  /\ LocksAreUsed /\ UNCHANGED <<plan, status, locks, running, current>> => LocksAreUsed'
  /\ SkipsExact /\ UNCHANGED <<plan, run, status>> => SkipsExact'
  /\ NothingLeftBehind /\ UNCHANGED <<run, pc, status>> => NothingLeftBehind'
<1> USE DEF graphVars
<1>1. RunsAreFresh /\ UNCHANGED <<run, pc, handle>> => RunsAreFresh'
  BY DEF RunsAreFresh
<1>2. AnswersAreTrue /\ UNCHANGED <<handle, heard>> => AnswersAreTrue'
  BY DEF AnswersAreTrue
<1>3. CompletedIsEarned /\ UNCHANGED <<run, graphVars, handle>> => CompletedIsEarned'
  BY DEF CompletedIsEarned
<1>4. TodoIsReady /\ UNCHANGED <<plan, pc, status, todo, current>> => TodoIsReady'
  BY DEF TodoIsReady, Ready
<1>5. NothingYet /\ UNCHANGED <<pc, running, locks>> => NothingYet'
  BY DEF NothingYet
<1>6. RunningIsMarked /\ UNCHANGED <<plan, status, running>> => RunningIsMarked'
  BY DEF RunningIsMarked
<1>7. LiveAreRunning /\ UNCHANGED <<run, running, current, handle>> => LiveAreRunning'
  BY DEF LiveAreRunning, LiveAgents, Agent
<1>8. RunningHoldLocks /\ UNCHANGED <<plan, locks, running, current>> => RunningHoldLocks'
  BY DEF RunningHoldLocks
<1>9. StoredIsRemembered /\ UNCHANGED <<pc, graphVars>> => StoredIsRemembered'
  BY DEF StoredIsRemembered
<1>10. FirstRunIsExact /\ UNCHANGED <<plan, run, pc, status, stored, running>> => FirstRunIsExact'
  BY DEF FirstRunIsExact
<1>11. DependenciesFirst /\ UNCHANGED <<plan, handle>> => DependenciesFirst'
  BY Zenon DEF DependenciesFirst
<1>12. LocksAreUsed /\ UNCHANGED <<plan, status, locks, running, current>> => LocksAreUsed'
  BY DEF LocksAreUsed, Ready
<1>13. SkipsExact /\ UNCHANGED <<plan, run, status>> => SkipsExact'
  BY DEF SkipsExact
<1>14. NothingLeftBehind /\ UNCHANGED <<run, pc, status>> => NothingLeftBehind'
  BY DEF NothingLeftBehind
<1> QED
  BY <1>1, <1>2, <1>3, <1>4, <1>5, <1>6, <1>7, <1>8, <1>9, <1>10, <1>11, <1>12, <1>13, <1>14

LEMMA BeginKeeps ==
  ASSUME OrchestratorInv, Begin
  PROVE  OrchestratorInv'
<1> USE DEF OrchestratorInv, Begin, BuildGraph, ctxVars
<1>1. TypeOK'
  BY PlanTypes DEF TypeOK, GetReady, Ended, Pool!HandlesTypeOK
<1>2. RunsAreFresh' /\ NothingYet' /\ StoredIsRemembered'
  BY DEF RunsAreFresh, NothingYet, StoredIsRemembered
<1>3. CompletedIsEarned'
  BY DEF CompletedIsEarned
<1>4. TodoIsReady' /\ RunningIsMarked'
  BY DEF TodoIsReady, NothingYet, RunningIsMarked, Ready
<1>5. FirstRunIsExact' /\ SkipsExact' /\ NothingLeftBehind'
  BY PlanTypes DEF TypeOK, FirstRunIsExact, SkipsExact, NothingLeftBehind
<1>6. LocksAreUsed'
  BY DEF LocksAreUsed, NothingYet, Lock!NoLocks
<1> QED
  BY <1>1, <1>2, <1>3, <1>4, <1>5, <1>6, Untouched

LEMMA DeferKeeps ==
  ASSUME OrchestratorInv, NEW s \in Subtasks, Defer(s)
  PROVE  OrchestratorInv'
<1> USE DEF OrchestratorInv, Defer, graphVars, ctxVars
<1>1. TypeOK'
  BY DEF TypeOK, Pool!HandlesTypeOK
<1>2. TodoIsReady'
  BY DEF TodoIsReady, Ready
<1> QED
  BY <1>1, <1>2, Untouched

\* What taking the locks of a ready subtask leaves in order: its files were free,
\* or its own already.
LEMMA TakingLocks ==
  ASSUME OrchestratorInv, NEW s \in Subtasks, TakeLocks(s)
  PROVE  /\ locks' \in [Files -> Subtasks \cup {Nobody}]
         /\ s \in Ready
         /\ \A f \in plan.files[s] : locks'[f] = s
         /\ \A f \in Files : locks'[f] \in {locks[f], s}
         /\ \A t \in Subtasks \cap (running \cup {current}) : \A f \in plan.files[t] : locks'[f] = t
<1> USE DEF OrchestratorInv, TakeLocks, Lock!CanLock, Lock!Lock
<1>1. plan.files \in [Subtasks -> SUBSET Files] /\ locks \in [Files -> Subtasks \cup {Nobody}]
  BY PlanTypes DEF TypeOK
<1>2. s \in Ready
  BY DEF TodoIsReady
<1>3. ASSUME NEW t \in Subtasks \cap (running \cup {current}), NEW f \in plan.files[t]
      PROVE  locks'[f] = t
  BY <1>1, <1>3, OrchestratorAssumption DEF RunningHoldLocks
<1> QED
  BY <1>1, <1>2, <1>3

LEMMA SpawnAgentKeeps ==
  ASSUME OrchestratorInv, NEW s \in Subtasks, SpawnAgent(s)
  PROVE  OrchestratorInv'
<1> USE DEF OrchestratorInv, SpawnAgent, TakeLocks, Pool!Launch, graphVars, ctxVars
<1>a. TakeLocks(s) /\ s \in Ready /\ pc = "spawning" /\ current = Nobody
  BY TakingLocks DEF TodoIsReady
<1>b. Agent(s) \in Agents /\ run \in 1 .. MaxRuns
  BY DEF Agent, Agents, TypeOK
<1>c. \A b \in Agents : b # Agent(s) => handle'[b] = handle[b]
  BY DEF TypeOK, Pool!HandlesTypeOK
<1>d. handle'[Agent(s)] = "live" /\ handle[Agent(s)] = "unborn"
  BY <1>b DEF TypeOK, Pool!HandlesTypeOK
<1>1. TypeOK'
  BY TakingLocks DEF TypeOK, Pool!HandlesTypeOK
<1>2. RunsAreFresh'
  BY <1>b, <1>c DEF RunsAreFresh, Agent, TypeOK
<1>3. AnswersAreTrue'
  BY <1>c, <1>d DEF AnswersAreTrue, Pool!Outcomes
<1>4. \A b \in Agents : handle[b] = "won" => handle'[b] = "won"
  BY <1>c, <1>d
<1>5. CompletedIsEarned'
  BY <1>4, <1>b DEF CompletedIsEarned, Agents
<1>6. TodoIsReady' /\ NothingYet'
  BY <1>a DEF TodoIsReady, NothingYet, Ready
<1>7. LiveAreRunning'
  BY <1>a, <1>b, <1>c, OrchestratorAssumption DEF LiveAreRunning, LiveAgents, Agent, Agents
<1>8. RunningHoldLocks'
  BY <1>a, TakingLocks DEF RunningHoldLocks
<1>9. StoredIsRemembered' /\ FirstRunIsExact' /\ NothingLeftBehind'
  BY <1>a DEF StoredIsRemembered, FirstRunIsExact, NothingLeftBehind
<1>10. DependenciesFirst'
  <2> SUFFICES ASSUME NEW t \in Subtasks, NEW r \in 1 .. MaxRuns, handle'[<<t, r>>] # "unborn",
                      NEW d \in plan.deps[t]
               PROVE  \E q \in 1 .. r : handle'[<<d, q>>] = "won"
    BY DEF DependenciesFirst
  <2>0. d \in Subtasks /\ \A q \in 1 .. r : <<d, q>> \in Agents
    BY PlanTypes, OrchestratorAssumption DEF TypeOK, Agents
  <2>1. CASE handle[<<t, r>>] # "unborn"
    BY <2>0, <2>1, <1>4 DEF DependenciesFirst
  <2>2. CASE handle[<<t, r>>] = "unborn"
    <3>1. <<t, r>> = Agent(s)
      BY <2>2, <1>c DEF Agents
    <3>2. t = s /\ r = run
      BY <3>1 DEF Agent
    <3>3. status[d] = "completed"
      BY <3>2, <1>a DEF Ready, GetReady, AllDepsCompleted
    <3> QED
      BY <3>2, <3>3, <2>0, <1>4 DEF CompletedIsEarned
  <2> QED
    BY <2>1, <2>2
<1>11. LocksAreUsed'
  BY <1>a, TakingLocks DEF LocksAreUsed, Ready
<1> QED
  BY <1>1, <1>2, <1>3, <1>5, <1>6, <1>7, <1>8, <1>9, <1>10, <1>11, Untouched

LEMMA NoteRunningKeeps ==
  ASSUME OrchestratorInv, NoteRunning
  PROVE  OrchestratorInv'
<1> USE DEF OrchestratorInv, NoteRunning, MarkRunning, ctxVars
<1>a. /\ current \in Subtasks /\ current \in Ready /\ current \in todo
      /\ todo \subseteq Ready
  BY DEF TodoIsReady, TypeOK
<1>b. status[current] = "pending" /\ AllDepsCompleted(status, plan.deps, current)
  BY <1>a DEF Ready, GetReady
<1>c. /\ status' \in [Subtasks -> Statuses] /\ memory' \in [Subtasks -> Statuses]
      /\ stored' \in {stored, memory'}
      /\ status'[current] = "running" /\ memory'[current] = "running"
      /\ \A t \in Subtasks : t # current => status'[t] = status[t] /\ memory'[t] = memory[t]
  BY <1>a DEF TypeOK, Statuses, Store
<1>d. \A t \in Subtasks :
        AllDepsCompleted(status, plan.deps, t) => AllDepsCompleted(status', plan.deps, t)
  BY <1>b, <1>c, PlanTypes DEF AllDepsCompleted, TypeOK
<1>e. Ready' = Ready \ {current}
  <2>1. \A t \in Subtasks :
          AllDepsCompleted(status', plan.deps, t) => AllDepsCompleted(status, plan.deps, t)
    BY <1>a, <1>c, PlanTypes DEF AllDepsCompleted, TypeOK
  <2> QED
    BY <2>1, <1>c, <1>d DEF Ready, GetReady, TypeOK
<1>1. TypeOK'
  BY <1>a, <1>c DEF TypeOK, Pool!HandlesTypeOK
<1>2. RunsAreFresh' /\ NothingYet'
  BY DEF RunsAreFresh, NothingYet
<1>3. CompletedIsEarned'
  BY <1>a, <1>c DEF CompletedIsEarned
<1>4. TodoIsReady'
  BY <1>a, <1>e DEF TodoIsReady
<1>5. RunningIsMarked'
  BY <1>a, <1>b, <1>c, <1>d DEF RunningIsMarked, TypeOK
<1>6. LiveAreRunning' /\ RunningHoldLocks'
  BY OrchestratorAssumption DEF LiveAreRunning, LiveAgents, Agent, RunningHoldLocks
<1>7. StoredIsRemembered'
  BY <1>a, <1>b, <1>c DEF StoredIsRemembered
<1>8. FirstRunIsExact' /\ NothingLeftBehind'
  BY <1>a, <1>c DEF FirstRunIsExact, NothingLeftBehind
<1>9. LocksAreUsed'
  BY <1>e DEF LocksAreUsed
<1>10. SkipsExact'
  BY <1>b, <1>c, PlanTypes DEF SkipsExact, AllDepsCompleted, TypeOK
<1> QED
  BY <1>1, <1>2, <1>3, <1>4, <1>5, <1>6, <1>7, <1>8, <1>9, <1>10, Untouched

LEMMA SpawnRefusedKeeps ==
  ASSUME OrchestratorInv, NEW s \in Subtasks, SpawnRefused(s)
  PROVE  OrchestratorInv'
<1> USE DEF OrchestratorInv, SpawnRefused, TakeLocks, graphVars, ctxVars
<1>1. TypeOK'
  BY TakingLocks DEF TypeOK, Pool!HandlesTypeOK
<1>2. TodoIsReady' /\ NothingYet'
  BY DEF TodoIsReady, NothingYet
<1>3. RunningHoldLocks'
  BY TakingLocks DEF RunningHoldLocks
<1>4. LocksAreUsed'
  BY TakingLocks DEF LocksAreUsed, Ready
<1> QED
  BY <1>1, <1>2, <1>3, <1>4, Untouched

LEMMA SpawnFailsKeeps ==
  ASSUME OrchestratorInv, NEW s \in Subtasks, SpawnFails(s)
  PROVE  OrchestratorInv'
<1> USE DEF OrchestratorInv, SpawnFails, TakeLocks, graphVars, ctxVars
<1>1. TypeOK'
  BY TakingLocks DEF TypeOK, Ended, Pool!HandlesTypeOK
<1>2. RunsAreFresh' /\ TodoIsReady' /\ NothingYet' /\ StoredIsRemembered'
  BY DEF RunsAreFresh, TodoIsReady, NothingYet, StoredIsRemembered
<1>3. RunningHoldLocks'
  BY TakingLocks DEF RunningHoldLocks
<1>4. LocksAreUsed'
  BY TakingLocks DEF LocksAreUsed, Ready
<1>5. FirstRunIsExact' /\ NothingLeftBehind'
  BY DEF FirstRunIsExact, NothingLeftBehind
<1> QED
  BY <1>1, <1>2, <1>3, <1>4, <1>5, Untouched

\* A loop that leaves with nothing running and nothing ready leaves no subtask
\* pending: each pending one would wait for another, round a circle.
LEMMA CheckLoopKeeps ==
  ASSUME OrchestratorInv, CheckLoop
  PROVE  OrchestratorInv'
<1> USE DEF OrchestratorInv, CheckLoop, graphVars, loopVars, ctxVars
<1>1. TypeOK'
  BY DEF TypeOK, Ended, Pool!HandlesTypeOK
<1>2. RunsAreFresh' /\ TodoIsReady' /\ NothingYet' /\ StoredIsRemembered' /\ FirstRunIsExact'
  BY DEF RunsAreFresh, TodoIsReady, NothingYet, StoredIsRemembered, FirstRunIsExact
<1>3. ASSUME run = 1, NothingToDo
      PROVE  AllCompleted(status)
  <2> SUFFICES ASSUME running = {}, Ready = {}, ~ AllCompleted(status) PROVE FALSE
    BY <1>3 DEF NothingToDo
  <2> DEFINE P == {s \in Subtasks : status[s] = "pending"}
  <2>0. /\ plan.deps \in [Subtasks -> SUBSET Subtasks]
        /\ status \in [Subtasks -> Statuses]
    BY PlanTypes DEF TypeOK
  <2>1. \A s \in Subtasks : status[s] # "running"
    BY <1>3 DEF FirstRunIsExact
  <2>2. P # {}
    BY <2>0, <2>1 DEF AllCompleted, Unfinished
  <2>3. ASSUME NEW s \in P PROVE plan.deps[s] \cap P # {}
    <3>1. PICK d \in plan.deps[s] : status[d] # "completed"
      BY <2>0 DEF Ready, GetReady, AllDepsCompleted
    <3>2. status[d] \notin {"failed", "skipped"}
      BY <1>3 DEF SkipsExact
    <3>3. d \in Subtasks /\ status[d] = "pending"
      BY <3>1, <3>2, <2>0, <2>1 DEF Statuses
    <3> QED
      BY <3>3
  <2>4. HasCycles(plan.deps)
    BY <2>0, <2>2, <2>3 DEF HasCycles
  <2> QED
    BY <1>3, <2>4 DEF FirstRunIsExact
<1>4. NothingLeftBehind'
  BY <1>3 DEF NothingLeftBehind
<1> QED
  BY <1>1, <1>2, <1>4, Untouched

\* The two steps that only end the run.
LEMMA EndKeeps ==
  ASSUME OrchestratorInv, Review \/ SelectCancelled
  PROVE  OrchestratorInv'
<1> USE DEF OrchestratorInv, Review, SelectCancelled, graphVars, loopVars, ctxVars
<1>1. TypeOK'
  BY DEF TypeOK, Ended, Pool!HandlesTypeOK
<1>2. RunsAreFresh' /\ TodoIsReady' /\ NothingYet' /\ StoredIsRemembered' /\ FirstRunIsExact'
  BY DEF RunsAreFresh, TodoIsReady, NothingYet, StoredIsRemembered, FirstRunIsExact
<1>3. NothingLeftBehind'
  BY DEF NothingLeftBehind
<1> QED
  BY <1>1, <1>2, <1>3, Untouched

\* What the end of an agent leaves in order, whatever becomes of the graph: the
\* agent is not live, its locks are free and the locks of the others are kept.
LEMMA Releasing ==
  ASSUME OrchestratorInv, NEW s \in Subtasks, NEW outcome \in Pool!Outcomes,
         SelectCompletion(s, outcome), UNCHANGED <<plan, run, current, handle>>
  PROVE  /\ locks' \in [Files -> Subtasks \cup {Nobody}]
         /\ \A f \in Files : locks'[f] # s /\ locks'[f] \in {locks[f], Nobody}
         /\ handle[Agent(s)] \in Pool!Outcomes
         /\ LiveAreRunning' /\ RunningHoldLocks'
<1> USE DEF OrchestratorInv, SelectCompletion, Lock!Release
<1>1. /\ locks \in [Files -> Subtasks \cup {Nobody}] /\ Agent(s) \in Agents
      /\ plan.files \in [Subtasks -> SUBSET Files] /\ current = Nobody
  BY PlanTypes DEF TypeOK, TodoIsReady, Agent, Agents
<1>2. handle[Agent(s)] \in Pool!Outcomes
  BY <1>1 DEF AnswersAreTrue
<1>3. LiveAreRunning'
  BY <1>2 DEF LiveAreRunning, LiveAgents, Agent, Pool!Outcomes
<1>4. RunningHoldLocks'
  BY <1>1, OrchestratorAssumption DEF RunningHoldLocks
<1> QED
  BY <1>1, <1>2, <1>3, <1>4, OrchestratorAssumption

LEMMA CompleteSubtaskKeeps ==
  ASSUME OrchestratorInv, NEW s \in Subtasks, CompleteSubtask(s)
  PROVE  OrchestratorInv'
<1> USE DEF OrchestratorInv, CompleteSubtask, Complete, ctxVars
<1>a. SelectCompletion(s, "won") /\ "won" \in Pool!Outcomes /\ s \in running
  BY DEF SelectCompletion, Pool!Outcomes
<1>b. /\ locks' \in [Files -> Subtasks \cup {Nobody}]
      /\ \A f \in Files : locks'[f] # s /\ locks'[f] \in {locks[f], Nobody}
      /\ LiveAreRunning' /\ RunningHoldLocks'
  BY <1>a, Releasing
<1>c. /\ status' \in [Subtasks -> Statuses] /\ memory' \in [Subtasks -> Statuses]
      /\ stored' \in {stored, memory'}
      /\ status'[s] = "completed" /\ memory'[s] = "completed"
      /\ \A t \in Subtasks : t # s => status'[t] = status[t] /\ memory'[t] = memory[t]
  BY DEF TypeOK, Statuses, Store
<1>d. status[s] = "running"
  BY <1>a DEF RunningIsMarked
<1>e. \A t \in Subtasks :
        AllDepsCompleted(status, plan.deps, t) => AllDepsCompleted(status', plan.deps, t)
  BY <1>c, PlanTypes DEF AllDepsCompleted, TypeOK
<1>f. Ready \subseteq Ready' /\ todo' = Ready' /\ Ready' \subseteq Subtasks
  BY <1>c, <1>d, <1>e, <1>a DEF Ready, GetReady, SelectCompletion, TypeOK
<1>1. TypeOK'
  BY <1>b, <1>c, <1>f, <1>a DEF TypeOK, Pool!HandlesTypeOK, SelectCompletion
<1>2. RunsAreFresh' /\ NothingYet'
  BY <1>a DEF RunsAreFresh, NothingYet, SelectCompletion
<1>3. CompletedIsEarned'
  <2>1. Agent(s) \in Agents /\ run \in 1 .. MaxRuns
    BY DEF Agent, Agents, TypeOK
  <2>2. handle[<<s, run>>] = "won"
    BY <2>1, <1>a DEF AnswersAreTrue, SelectCompletion, Agent
  <2>3. run \in 1 .. run
    BY <2>1
  <2> QED
    BY <2>2, <2>3, <1>c DEF CompletedIsEarned
<1>4. TodoIsReady'
  BY <1>a, <1>f DEF TodoIsReady, SelectCompletion
<1>5. RunningIsMarked'
  BY <1>a, <1>c, <1>e DEF RunningIsMarked, SelectCompletion, TypeOK
<1>6. StoredIsRemembered'
  BY <1>a, <1>c DEF StoredIsRemembered, SelectCompletion
<1>7. FirstRunIsExact' /\ NothingLeftBehind'
  BY <1>a, <1>c DEF FirstRunIsExact, NothingLeftBehind, SelectCompletion
<1>8. LocksAreUsed'
  BY <1>a, <1>b, <1>f DEF LocksAreUsed, SelectCompletion
<1>9. SkipsExact'
  BY <1>c, <1>d, PlanTypes DEF SkipsExact, TypeOK
<1> QED
  BY <1>b, <1>1, <1>2, <1>3, <1>4, <1>5, <1>6, <1>7, <1>8, <1>9, Untouched

LEMMA FailSubtaskKeeps ==
  ASSUME OrchestratorInv, NEW s \in Subtasks, FailSubtask(s)
  PROVE  OrchestratorInv'
<1> USE DEF OrchestratorInv, FailSubtask, ctxVars
<1> DEFINE mid == [status EXCEPT ![s] = "failed"]
           D == Dependents(mid, plan.deps, s)
<1>a. SelectCompletion(s, "lost") /\ "lost" \in Pool!Outcomes /\ s \in running
  BY DEF SelectCompletion, Pool!Outcomes
<1>b. /\ locks' \in [Files -> Subtasks \cup {Nobody}]
      /\ \A f \in Files : locks'[f] # s /\ locks'[f] \in {locks[f], Nobody}
      /\ LiveAreRunning' /\ RunningHoldLocks'
  BY <1>a, Releasing
<1>c. /\ memory' \in [Subtasks -> Statuses] /\ stored' \in {stored, memory'}
      /\ memory'[s] = "failed"
      /\ \A t \in Subtasks : t # s => memory'[t] = memory[t]
  BY DEF TypeOK, Statuses, Store
<1>d. /\ status[s] = "running" /\ status \in [Subtasks -> Statuses]
      /\ plan.deps \in [Subtasks -> SUBSET Subtasks]
  BY <1>a, PlanTypes DEF RunningIsMarked, TypeOK
<1>e. /\ status' \in [Subtasks -> Statuses]
      /\ status'[s] = "failed"
      /\ \A t \in Subtasks :
           /\ status'[t] = "completed" <=> status[t] = "completed"
           /\ status'[t] \in Unfinished => status'[t] = status[t]
           /\ status[t] \in {"failed", "skipped"} => status'[t] = status[t]
           /\ t # s /\ AllDepsCompleted(status, plan.deps, t) => status'[t] = status[t]
           /\ AllDepsCompleted(status, plan.deps, t) => AllDepsCompleted(status', plan.deps, t)
  BY <1>d, FailEffect
<1>f. Ready \subseteq Ready' /\ todo' = Ready' /\ Ready' \subseteq Subtasks
  BY <1>a, <1>d, <1>e DEF Ready, GetReady, SelectCompletion
<1>1. TypeOK'
  BY <1>a, <1>b, <1>c, <1>e, <1>f DEF TypeOK, Pool!HandlesTypeOK, SelectCompletion
<1>2. RunsAreFresh' /\ NothingYet'
  BY <1>a DEF RunsAreFresh, NothingYet, SelectCompletion
<1>3. CompletedIsEarned'
  BY <1>c, <1>e DEF CompletedIsEarned
<1>4. TodoIsReady'
  BY <1>a, <1>f DEF TodoIsReady, SelectCompletion
<1>5. RunningIsMarked'
  BY <1>a, <1>e DEF RunningIsMarked, SelectCompletion, TypeOK
<1>6. StoredIsRemembered'
  BY <1>a, <1>c, <1>d, <1>e DEF StoredIsRemembered, SelectCompletion
<1>7. FirstRunIsExact' /\ NothingLeftBehind'
  BY <1>a, <1>e DEF FirstRunIsExact, NothingLeftBehind, SelectCompletion, Unfinished
<1>8. LocksAreUsed'
  BY <1>a, <1>b, <1>f DEF LocksAreUsed, SelectCompletion
<1>9. SkipsExact'
  <2> SUFFICES ASSUME run = 1, NEW t \in Subtasks
               PROVE  LET hopeless == \E d \in plan.deps[t] : status'[d] \in {"failed", "skipped"}
                      IN  /\ status'[t] = "pending" => ~ hopeless
                          /\ status'[t] = "skipped" => hopeless
    BY DEF SkipsExact
  <2>1. /\ mid \in [Subtasks -> Statuses] /\ DOMAIN mid = Subtasks
        /\ \A u \in Subtasks : status'[u] = IF u \in D THEN "skipped" ELSE mid[u]
    BY <1>d DEF Fail, Statuses
  <2>2. \A u \in Subtasks : (status'[u] \in {"failed", "skipped"})
                             <=> (u \in D \cup {s} \/ status[u] \in {"failed", "skipped"})
    BY <2>1, <1>d, <1>e
  <2>3. ASSUME status'[t] = "pending", NEW d \in plan.deps[t],
               status'[d] \in {"failed", "skipped"}
        PROVE  FALSE
    <3>1. t \notin D /\ t # s /\ status[t] = "pending" /\ mid[t] = "pending"
      BY <2>1, <2>3, <1>d, <1>e DEF Unfinished
    <3>2. d \in Subtasks /\ status[d] \notin {"failed", "skipped"}
      BY <3>1, <1>d DEF SkipsExact
    <3>3. d \in D \cup {s}
      BY <3>2, <2>2, <2>3
    <3> QED
      BY <3>1, <3>3, <2>1, DependentsClosed DEF ClosedUnderDependents, Unfinished
  <2>4. ASSUME status'[t] = "skipped"
        PROVE  \E d \in plan.deps[t] : status'[d] \in {"failed", "skipped"}
    <3>1. CASE t \in D
      <4>1. PICK d \in plan.deps[t] : d \in D \cup {s}
        BY <3>1, DependentsGrounded
      <4>2. d \in Subtasks
        BY <4>1, <1>d
      <4> QED
        BY <4>1, <4>2, <2>2
    <3>2. CASE t \notin D
      <4>1. status[t] = "skipped"
        BY <3>2, <2>1, <2>4, <1>d
      <4>2. PICK d \in plan.deps[t] : status[d] \in {"failed", "skipped"}
        BY <4>1 DEF SkipsExact
      <4>3. d \in Subtasks
        BY <4>2, <1>d
      <4> QED
        BY <4>2, <4>3, <1>e
    <3> QED
      BY <3>1, <3>2
  <2> QED
    BY <2>3, <2>4
<1> QED
  BY <1>b, <1>1, <1>2, <1>3, <1>4, <1>5, <1>6, <1>7, <1>8, <1>9, Untouched

\* Listeners only repeat how an agent ended.
LEMMA ListenerKeeps ==
  ASSUME OrchestratorInv, NEW a \in Agents, Listen(a) \/ Deliver(a)
  PROVE  OrchestratorInv'
<1> USE DEF OrchestratorInv, Listen, Deliver, Pool!Listen, Pool!Deliver,
            graphVars, loopVars, ctxVars
<1>1. TypeOK'
  BY DEF TypeOK, Pool!HandlesTypeOK, Pool!Outcomes
<1>2. AnswersAreTrue'
  BY DEF AnswersAreTrue, TypeOK, Pool!HandlesTypeOK, Pool!Outcomes
<1> QED
  BY <1>1, <1>2, Untouched

LEMMA FinishKeeps ==
  ASSUME OrchestratorInv, NEW a \in Agents, Finish(a)
  PROVE  OrchestratorInv'
<1> USE DEF OrchestratorInv, graphVars, loopVars, ctxVars
<1>1. PICK outcome \in Pool!Outcomes : Pool!Finish(a, outcome)
  BY DEF Finish, Pool!Outcomes
<1>2. /\ handle[a] = "live" /\ handle'[a] = outcome
      /\ \A b \in Agents : b # a => handle'[b] = handle[b]
      /\ handle' \in [Agents -> {"unborn", "live"} \cup Pool!Outcomes]
      /\ UNCHANGED <<plan, pc, run, graphVars, loopVars, ctxVars, others, heard>>
  BY <1>1 DEF Finish, Pool!Finish, TypeOK, Pool!HandlesTypeOK
<1>3. \A b \in Agents : /\ handle[b] = "won" => handle'[b] = "won"
                        /\ handle'[b] = "unborn" <=> handle[b] = "unborn"
                        /\ handle'[b] = "live" => handle[b] = "live"
                        /\ handle[b] \in Pool!Outcomes => handle'[b] \in Pool!Outcomes
  BY <1>2 DEF Pool!Outcomes
<1>4. TypeOK'
  BY <1>2 DEF TypeOK, Pool!HandlesTypeOK
<1>5. RunsAreFresh' /\ AnswersAreTrue'
  BY <1>2, <1>3 DEF RunsAreFresh, AnswersAreTrue
<1>6. CompletedIsEarned'
  <2> SUFFICES ASSUME NEW s \in Subtasks, "completed" \in {status[s], memory[s], stored[s]}
               PROVE  \E q \in 1 .. run : handle'[<<s, q>>] = "won"
    BY <1>2 DEF CompletedIsEarned
  <2>1. PICK q \in 1 .. run : handle[<<s, q>>] = "won"
    BY DEF CompletedIsEarned
  <2>2. <<s, q>> \in Agents
    BY OrchestratorAssumption DEF Agents, TypeOK
  <2> QED
    BY <2>1, <2>2, <1>3
<1>7. LiveAreRunning'
  BY <1>2, <1>3 DEF LiveAreRunning, LiveAgents, Agent
<1>8. DependenciesFirst'
  <2> SUFFICES ASSUME NEW t \in Subtasks, NEW r \in 1 .. MaxRuns, handle'[<<t, r>>] # "unborn",
                      NEW d \in plan.deps[t]
               PROVE  \E q \in 1 .. r : handle'[<<d, q>>] = "won"
    BY <1>2 DEF DependenciesFirst
  <2>1. d \in Subtasks /\ <<t, r>> \in Agents /\ \A q \in 1 .. r : <<d, q>> \in Agents
    BY PlanTypes, OrchestratorAssumption DEF TypeOK, Agents
  <2>2. PICK q \in 1 .. r : handle[<<d, q>>] = "won"
    BY <2>1, <1>3 DEF DependenciesFirst
  <2> QED
    BY <2>1, <2>2, <1>3
<1> QED
  BY <1>2, <1>4, <1>5, <1>6, <1>7, <1>8, Untouched

\* What other tasks and the user do beside the run.
LEMMA AsideKeeps ==
  ASSUME OrchestratorInv, OthersChange \/ Stop \/ Cancel \/ UNCHANGED vars
  PROVE  OrchestratorInv'
<1> USE DEF OrchestratorInv, OthersChange, Stop, Cancel, vars, graphVars, loopVars, ctxVars
<1>1. TypeOK'
  BY DEF TypeOK, Pool!HandlesTypeOK, LiveAgents
<1> QED
  BY <1>1, Untouched

LEMMA ResumeKeeps ==
  ASSUME OrchestratorInv, Resume
  PROVE  OrchestratorInv'
<1> USE DEF OrchestratorInv, Resume, graphVars
<1>a. /\ run \in Nat /\ run \in 1 .. MaxRuns /\ run < MaxRuns /\ run' = run + 1
      /\ pc \in Ended /\ pc # "starting" /\ pc # "noting" /\ current = Nobody
  BY OrchestratorAssumption DEF TypeOK, Ended, TodoIsReady
<1>1. TypeOK'
  <2>1. run' \in 1 .. MaxRuns
    BY <1>a, OrchestratorAssumption
  <2>2. locks' \in [Files -> Subtasks \cup {Nobody}]
    BY DEF Lock!NoLocks
  <2> QED
    BY <2>1, <2>2 DEF TypeOK, Pool!HandlesTypeOK
<1>2. RunsAreFresh'
  BY <1>a DEF RunsAreFresh, Agents
<1>3. CompletedIsEarned'
  <2> SUFFICES ASSUME NEW s \in Subtasks, "completed" \in {status[s], memory[s], stored[s]}
               PROVE  \E q \in 1 .. run' : handle[<<s, q>>] = "won"
    BY DEF CompletedIsEarned
  <2>1. PICK q \in 1 .. run : handle[<<s, q>>] = "won"
    BY DEF CompletedIsEarned
  <2>2. q \in 1 .. run'
    BY <1>a
  <2> QED
    BY <2>1, <2>2
<1>4. TodoIsReady' /\ NothingYet' /\ RunningIsMarked' /\ StoredIsRemembered'
  BY <1>a DEF TodoIsReady, NothingYet, RunningIsMarked, StoredIsRemembered
<1>5. LiveAreRunning'
  BY <1>a, <1>2 DEF RunsAreFresh, LiveAreRunning, LiveAgents, Agent, Agents, TypeOK
<1>6. RunningHoldLocks' /\ LocksAreUsed'
  BY <1>a, OrchestratorAssumption DEF RunningHoldLocks, LocksAreUsed, Lock!NoLocks
<1>7. FirstRunIsExact' /\ SkipsExact' /\ NothingLeftBehind'
  BY <1>a DEF FirstRunIsExact, SkipsExact, NothingLeftBehind
<1> QED
  BY <1>1, <1>2, <1>3, <1>4, <1>5, <1>6, <1>7, Untouched

LEMMA StepKeeps ==
  ASSUME OrchestratorInv, [Next]_vars
  PROVE  OrchestratorInv'
<1>1. CASE RunStep
  BY <1>1, BeginKeeps, NoteRunningKeeps, CheckLoopKeeps, EndKeeps, DeferKeeps, SpawnAgentKeeps,
     SpawnRefusedKeeps, SpawnFailsKeeps, CompleteSubtaskKeeps, FailSubtaskKeeps DEF RunStep
<1>2. ASSUME NEW a \in Agents, AgentStep(a)
      PROVE  OrchestratorInv'
  BY <1>2, ListenerKeeps, FinishKeeps DEF AgentStep
<1>3. CASE OthersChange \/ Stop \/ Cancel \/ UNCHANGED vars
  BY <1>3, AsideKeeps
<1>4. CASE Resume
  BY <1>4, ResumeKeeps
<1> QED
  BY <1>1, <1>2, <1>3, <1>4 DEF Next

-----------------------------------------------------------------------------
(***************************************************************************)
(* Theorems                                                                *)
(***************************************************************************)

\* The inductive invariant of the orchestration loop, its crashes, stops and
\* resumptions: type correctness and every safety property below are parts of it.
THEOREM Invariance == Spec => []OrchestratorInv
<1>1. Init => OrchestratorInv
  BY InitEstablishes
<1>2. OrchestratorInv /\ [Next]_vars => OrchestratorInv'
  BY StepKeeps
<1> QED
  BY <1>1, <1>2, PTL DEF Spec

\* The variables have the types the code gives them; that `current' and the ready
\* list are subtasks rests on the rest of the invariant (orchestrator.go:78-90).
THEOREM TypeCorrect == Spec => []TypeOK
<1>1. OrchestratorInv => TypeOK
  BY DEF OrchestratorInv
<1> QED
  BY <1>1, Invariance, PTL

\* No agent of any run is launched before an agent of each dependency has really
\* ended well (orchestrator.go:92-172, dependency.go:48-62).
THEOREM DependenciesComeFirst == Spec => []DependenciesFirst
<1>1. OrchestratorInv => DependenciesFirst
  BY DEF OrchestratorInv
<1> QED
  BY <1>1, Invariance, PTL

\* Two agents of one run never work on the same file (filelock.go:20-55).
THEOREM FilesAreExclusive == Spec => []FileExclusion
<1>1. OrchestratorInv => FileExclusion
  <2> SUFFICES ASSUME OrchestratorInv, NEW s \in Subtasks, NEW t \in Subtasks,
                      s # t, Agent(s) \in LiveAgents, Agent(t) \in LiveAgents
               PROVE  ~ Conflict(s, t)
    BY DEF FileExclusion
  <2>1. s \in running \cup {current} /\ t \in running \cup {current}
    BY DEF OrchestratorInv, LiveAreRunning
  <2>2. /\ \A f \in plan.files[s] : locks[f] = s
        /\ \A f \in plan.files[t] : locks[f] = t
    BY <2>1 DEF OrchestratorInv, RunningHoldLocks
  <2> QED
    BY <2>2 DEF Conflict
<1> QED
  BY <1>1, Invariance, PTL

\* A locked file is held by a subtask that runs or is about to (orchestrator.go:96-133).
THEOREM LocksStayUseful == Spec => []LocksAreUsed
<1>1. OrchestratorInv => LocksAreUsed
  BY DEF OrchestratorInv
<1> QED
  BY <1>1, Invariance, PTL

\* In a first run exactly the dependents of failed subtasks are skipped
\* (dependency.go:92-115).
THEOREM SkipsAreExact == Spec => []SkipsExact
<1>1. OrchestratorInv => SkipsExact
  BY DEF OrchestratorInv
<1> QED
  BY <1>1, Invariance, PTL

\* A first run that returns without an error has completed every subtask
\* (orchestrator.go:181-194).
THEOREM NothingIsLeft == Spec => []NothingLeftBehind
<1>1. OrchestratorInv => NothingLeftBehind
  BY DEF OrchestratorInv
<1> QED
  BY <1>1, Invariance, PTL

\* What the stored plan calls completed stays so, and no agent is ever launched
\* for it again, in this run or in a resumed one (manager.go:337).
THEOREM CompletedStays == Spec => CompletedForGood
<1>1. ASSUME OrchestratorInv, [Next]_vars, NEW s \in Subtasks, stored[s] = "completed"
      PROVE  /\ stored'[s] = "completed"
             /\ \A r \in 1 .. MaxRuns :
                  handle[<<s, r>>] = "unborn" => handle'[<<s, r>>] = "unborn"
  <2> USE <1>1 DEF OrchestratorInv, graphVars, loopVars, ctxVars
  <2>1. pc # "starting" => memory[s] = "completed" /\ status[s] = "completed"
    BY DEF StoredIsRemembered
  <2>2. stored'[s] = "completed"
    <3>1. CASE UNCHANGED stored
      BY <3>1
    <3>2. CASE NoteRunning
      <4>1. status[current] = "pending" /\ pc # "starting"
        BY <3>2 DEF NoteRunning, TodoIsReady, Ready, GetReady
      <4> QED
        BY <3>2, <4>1, <2>1 DEF NoteRunning, Store, TypeOK
    <3>3. CASE \E t \in Subtasks : CompleteSubtask(t) \/ FailSubtask(t)
      <4>1. PICK t \in Subtasks : CompleteSubtask(t) \/ FailSubtask(t)
        BY <3>3
      <4>2. t \in running /\ pc # "starting"
        BY <4>1 DEF CompleteSubtask, FailSubtask, SelectCompletion
      <4>3. status[t] = "running"
        BY <4>2 DEF RunningIsMarked
      <4> QED
        BY <4>1, <4>2, <4>3, <2>1 DEF CompleteSubtask, FailSubtask, Store, TypeOK
    <3> QED
      BY <3>1, <3>2, <3>3 DEF Next, RunStep, AgentStep, Begin, Defer, SpawnAgent, SpawnRefused,
         SpawnFails, CheckLoop, Review, SelectCancelled, Listen, Deliver, Finish, OthersChange,
         Stop, Cancel, Resume, vars
  <2>3. ASSUME NEW r \in 1 .. MaxRuns, handle[<<s, r>>] = "unborn"
        PROVE  handle'[<<s, r>>] = "unborn"
    <3>0. <<s, r>> \in Agents
      BY <2>3 DEF Agents
    <3>1. CASE UNCHANGED handle
      BY <3>1, <2>3
    <3>2. CASE \E t \in Subtasks : SpawnAgent(t)
      <4>1. PICK t \in Subtasks : SpawnAgent(t)
        BY <3>2
      <4>2. status[t] = "pending" /\ pc # "starting"
        BY <4>1 DEF SpawnAgent, TakeLocks, TodoIsReady, Ready, GetReady
      <4>3. <<s, r>> # Agent(t)
        BY <4>2, <2>1 DEF Agent
      <4> QED
        BY <4>1, <4>3, <3>0, <2>3 DEF SpawnAgent, Pool!Launch, TypeOK, Pool!HandlesTypeOK
    <3>3. CASE \E a \in Agents : Finish(a)
      <4>1. PICK a \in Agents : Pool!Finish(a, "won") \/ Pool!Finish(a, "lost")
        BY <3>3 DEF Finish
      <4> QED
        BY <4>1, <3>0, <2>3 DEF Pool!Finish, TypeOK, Pool!HandlesTypeOK
    <3> QED
      BY <3>1, <3>2, <3>3 DEF Next, RunStep, AgentStep, Begin, Defer, NoteRunning, SpawnRefused,
         SpawnFails, CheckLoop, Review, SelectCancelled, CompleteSubtask, FailSubtask, Listen,
         Deliver, Pool!Listen, Pool!Deliver, OthersChange, Stop, Cancel, Resume, vars
  <2> QED
    BY <2>2, <2>3
<1>2. OrchestratorInv /\ [Next]_vars =>
        [\A s \in Subtasks :
           stored[s] = "completed" =>
             /\ stored'[s] = "completed"
             /\ \A r \in 1 .. MaxRuns :
                  handle[<<s, r>>] = "unborn" => handle'[<<s, r>>] = "unborn"]_vars
  BY <1>1
<1> QED
  BY <1>2, Invariance, PTL DEF Spec, CompletedForGood

-----------------------------------------------------------------------------
(***************************************************************************)
(* That the loop never waits in vain: what RunReturns needs besides        *)
(* fairness.                                                               *)
(***************************************************************************)

\* A subtask that holds files holds all it needs.
HoldersHoldAll ==
  \A f \in Files : locks[f] # Nobody =>
    f \in plan.files[locks[f]] /\ \A g \in plan.files[locks[f]] : locks[g] = locks[f]

\* A pass that has nothing running has deferred only what a subtask still to come holds
\* the files of.
DeferredForOthers ==
  run = 1 /\ pc = "spawning" /\ running = {} =>
    /\ \A f \in Files : locks[f] # Nobody => locks[f] \in todo
    /\ \A s \in Ready \ todo : \E f \in plan.files[s] : locks[f] \notin {Nobody, s}

\* What a first run waits for can come: some subtask is running, and the agent of every
\* running subtask has been launched.
SomebodyIsAwaited ==
  /\ run = 1 /\ pc = "selecting" => running # {}
  /\ \A s \in Subtasks \cap (running \cup {current}) : handle[Agent(s)] # "unborn"

LEMMA HoldersKept ==
  ASSUME OrchestratorInv, HoldersHoldAll, [Next]_vars
  PROVE  HoldersHoldAll'
<1>0. /\ plan.files \in [Subtasks -> SUBSET Files] /\ locks \in [Files -> Subtasks \cup {Nobody}]
      /\ Nobody \notin Subtasks
  BY PlanTypes, OrchestratorAssumption DEF OrchestratorInv, TypeOK
<1>1. plan' = plan
  BY DEF Next, RunStep, AgentStep, Begin, NoteRunning, CheckLoop, Review, SelectCancelled,
         Defer, SpawnAgent, SpawnRefused, SpawnFails, CompleteSubtask, FailSubtask, Listen,
         Deliver, Finish, OthersChange, Stop, Cancel, Resume, vars
<1>2. ASSUME NEW s \in Subtasks, TakeLocks(s)
      PROVE  HoldersHoldAll'
  BY <1>0, <1>1, <1>2 DEF HoldersHoldAll, TakeLocks, Lock!CanLock, Lock!Lock
<1>3. ASSUME NEW s \in Subtasks, locks' = Lock!Release(locks, s)
      PROVE  HoldersHoldAll'
  BY <1>0, <1>1, <1>3 DEF HoldersHoldAll, Lock!Release
<1>4. CASE UNCHANGED locks
  BY <1>1, <1>4 DEF HoldersHoldAll
<1>5. CASE Resume
  BY <1>5 DEF Resume, HoldersHoldAll, Lock!NoLocks
<1> QED
  BY <1>2, <1>3, <1>4, <1>5 DEF Next, RunStep, AgentStep, Begin, NoteRunning, CheckLoop, Review,
     SelectCancelled, Defer, SpawnAgent, SpawnRefused, SpawnFails, CompleteSubtask, FailSubtask,
     SelectCompletion, Listen, Deliver, Finish, OthersChange, Stop, Cancel, vars, loopVars

\* If the others leave a slot, the pool refuses a first run only when that run has an agent
\* at work.
LEMMA RefusedBySelf ==
  ASSUME OrchestratorInv, MaxOthers < MaxAgents, run = 1, pc = "spawning", ~PoolHasRoom
  PROVE  running # {}
<1>1. LiveAgents # {}
  <2> SUFFICES ASSUME LiveAgents = {} PROVE FALSE
    OBVIOUS
  <2>1. Cardinality(LiveAgents) = 0
    BY FS_EmptySet
  <2>2. others \in 0 .. MaxOthers
    BY DEF OrchestratorInv, TypeOK
  <2> QED
    BY <2>1, <2>2, OrchestratorAssumption DEF PoolHasRoom
<1>2. PICK a \in Agents : handle[a] = "live"
  BY <1>1 DEF LiveAgents
<1>3. PICK s \in Subtasks, r \in 1 .. MaxRuns : a = <<s, r>>
  BY DEF Agents
<1>4. r = 1
  <2>1. ~(r > 1)
    BY <1>2, <1>3 DEF OrchestratorInv, RunsAreFresh
  <2> QED
    BY <2>1, OrchestratorAssumption
<1>5. Agent(s) \in LiveAgents
  BY <1>2, <1>3, <1>4 DEF Agent, LiveAgents
<1>6. s \in running \cup {current}
  BY <1>5 DEF OrchestratorInv, LiveAreRunning
<1>7. current = Nobody /\ Nobody \notin Subtasks
  BY OrchestratorAssumption DEF OrchestratorInv, TodoIsReady
<1> QED
  BY <1>6, <1>7

LEMMA DeferredKept ==
  ASSUME OrchestratorInv, OrchestratorInv', HoldersHoldAll, DeferredForOthers, [Next]_vars,
         MaxOthers < MaxAgents
  PROVE  DeferredForOthers'
<1> SUFFICES ASSUME run' = 1, pc' = "spawning", running' = {}
             PROVE  /\ \A f \in Files : locks'[f] # Nobody => locks'[f] \in todo'
                    /\ \A s \in Ready' \ todo' : \E f \in plan'.files[s] : locks'[f] \notin {Nobody, s}
  BY DEF DeferredForOthers
<1>0. plan.files \in [Subtasks -> SUBSET Files] /\ Ready \subseteq Subtasks /\ todo \subseteq Subtasks
  BY PlanTypes DEF OrchestratorInv, TypeOK, Ready, GetReady
<1>1. CASE Begin
  <2>1. todo' = Ready' /\ locks' = locks /\ locks = Lock!NoLocks
    BY <1>1 DEF Begin, Ready, OrchestratorInv, NothingYet
  <2> QED
    BY <2>1 DEF Lock!NoLocks
<1>2. ASSUME NEW s \in Subtasks, Defer(s)
      PROVE  /\ \A f \in Files : locks'[f] # Nobody => locks'[f] \in todo'
             /\ \A t \in Ready' \ todo' : \E f \in plan'.files[t] : locks'[f] \notin {Nobody, t}
  <2>1. /\ run = 1 /\ pc = "spawning" /\ running = {} /\ locks' = locks /\ plan' = plan
        /\ Ready' = Ready /\ todo' = todo \ {s} /\ s \in todo
    BY <1>2 DEF Defer, graphVars, Ready
  <2>2. PICK g \in plan.files[s] : locks[g] \notin {Nobody, s}
    BY <1>2 DEF Defer, Lock!CanLock
  <2>3. \A f \in Files : locks[f] # s
    <3> SUFFICES ASSUME NEW f \in Files, locks[f] = s PROVE FALSE
      OBVIOUS
    <3>1. s # Nobody
      BY OrchestratorAssumption
    <3>2. locks[g] = s
      BY <3>1 DEF HoldersHoldAll
    <3> QED
      BY <2>2, <3>2
  <2> QED
    BY <2>1, <2>2, <2>3 DEF DeferredForOthers
<1>3. ASSUME NEW s \in Subtasks, SpawnRefused(s)
      PROVE  FALSE
  <2>1. run = 1 /\ pc = "spawning" /\ ~PoolHasRoom /\ running = {}
    BY <1>3 DEF SpawnRefused, TakeLocks
  <2> QED
    BY <2>1, RefusedBySelf
<1>4. CASE NoteRunning
  BY <1>4 DEF NoteRunning
<1>5. ASSUME NEW s \in Subtasks, CompleteSubtask(s) \/ FailSubtask(s)
      PROVE  /\ \A f \in Files : locks'[f] # Nobody => locks'[f] \in todo'
             /\ \A t \in Ready' \ todo' : \E f \in plan'.files[t] : locks'[f] \notin {Nobody, t}
  <2>1. todo' = Ready'
    BY <1>5 DEF CompleteSubtask, FailSubtask, SelectCompletion, Ready
  <2>2. current' = Nobody
    BY DEF OrchestratorInv, TodoIsReady
  <2>3. \A f \in Files : locks'[f] # Nobody => locks'[f] \in Ready'
    BY <2>2 DEF OrchestratorInv, LocksAreUsed
  <2> QED
    BY <2>1, <2>3
<1>6. CASE UNCHANGED <<plan, run, pc, status, locks, running, todo>>
  <2>1. Ready' = Ready
    BY <1>6 DEF Ready
  <2> QED
    BY <1>6, <2>1 DEF DeferredForOthers
<1>7. CASE Resume
  <2>1. run \in Nat \ {0} /\ run' = run + 1
    BY <1>7, OrchestratorAssumption DEF Resume, OrchestratorInv, TypeOK
  <2> QED
    BY <2>1
<1>8. ASSUME NEW s \in Subtasks, SpawnAgent(s) \/ SpawnFails(s)
      PROVE  FALSE
  BY <1>8 DEF SpawnAgent, SpawnFails
<1>9. CASE CheckLoop \/ Review \/ SelectCancelled
  BY <1>9 DEF CheckLoop, Review, SelectCancelled
<1>10. ASSUME NEW a \in Agents, AgentStep(a)
       PROVE  UNCHANGED <<plan, run, pc, status, locks, running, todo>>
  BY <1>10 DEF AgentStep, Listen, Deliver, Finish, graphVars, loopVars
<1>11. CASE OthersChange \/ Stop \/ Cancel \/ UNCHANGED vars
  <2>1. UNCHANGED <<plan, run, pc, status, locks, running, todo>>
    BY <1>11 DEF OthersChange, Stop, Cancel, vars, graphVars, loopVars
  <2> QED
    BY <1>6, <2>1
<1> QED
  BY <1>1, <1>2, <1>3, <1>4, <1>5, <1>6, <1>7, <1>8, <1>9, <1>10, <1>11 DEF Next, RunStep

LEMMA AwaitedKept ==
  ASSUME OrchestratorInv, OrchestratorInv', DeferredForOthers, SomebodyIsAwaited, [Next]_vars
  PROVE  SomebodyIsAwaited'
<1>1. ASSUME run' = 1, pc' = "selecting"
      PROVE  running' # {}
  <2>1. CASE CheckLoop
    <3> SUFFICES ASSUME running = {} PROVE FALSE
      BY <2>1 DEF CheckLoop, loopVars
    <3>1. run = 1 /\ pc = "spawning" /\ todo = {} /\ Ready # {}
      BY <1>1, <2>1 DEF CheckLoop, NothingToDo
    <3>2. PICK s \in Ready : \E f \in plan.files[s] : locks[f] \notin {Nobody, s}
      BY <3>1 DEF DeferredForOthers
    <3>3. s \in Subtasks /\ plan.files[s] \subseteq Files
      BY PlanTypes DEF OrchestratorInv, TypeOK, Ready, GetReady
    <3> QED
      BY <3>1, <3>2, <3>3 DEF DeferredForOthers
  <2>2. CASE UNCHANGED <<run, pc, running>>
    BY <1>1, <2>2 DEF SomebodyIsAwaited
  <2>3. ASSUME NEW s \in Subtasks,
               Defer(s) \/ SpawnAgent(s) \/ SpawnRefused(s) \/ SpawnFails(s) \/ CompleteSubtask(s)
                 \/ FailSubtask(s)
        PROVE  pc' # "selecting"
    BY <2>3 DEF Defer, SpawnAgent, SpawnRefused, SpawnFails, TakeLocks, CompleteSubtask, FailSubtask,
                SelectCompletion
  <2>4. CASE Begin \/ NoteRunning \/ Review \/ SelectCancelled \/ Resume
    BY <1>1, <2>4 DEF Begin, NoteRunning, Review, SelectCancelled, Resume
  <2>5. ASSUME NEW a \in Agents, AgentStep(a)
        PROVE  UNCHANGED <<run, pc, running>>
    BY <2>5 DEF AgentStep, Listen, Deliver, Finish, loopVars
  <2>6. CASE OthersChange \/ Stop \/ Cancel \/ UNCHANGED vars
    <3>1. UNCHANGED <<run, pc, running>>
      BY <2>6 DEF OthersChange, Stop, Cancel, vars, loopVars
    <3> QED
      BY <2>2, <3>1
  <2> QED
    BY <1>1, <2>1, <2>2, <2>3, <2>4, <2>5, <2>6 DEF Next, RunStep
<1>2. \A a \in Agents : handle[a] # "unborn" => handle'[a] # "unborn"
  BY DEF Next, RunStep, AgentStep, Begin, NoteRunning, CheckLoop, Review, SelectCancelled,
         Defer, SpawnAgent, SpawnRefused, SpawnFails, CompleteSubtask, FailSubtask, Listen,
         Deliver, Finish, OthersChange, Stop, Cancel, Resume, vars, OrchestratorInv, TypeOK,
         Pool!HandlesTypeOK, Pool!Launch, Pool!Finish, Pool!Listen, Pool!Deliver, Pool!Outcomes
<1>3. ASSUME NEW s \in Subtasks \cap (running' \cup {current'})
      PROVE  handle'[Agent(s)'] # "unborn"
  <2>1. Nobody \notin Subtasks /\ \A t \in Subtasks : Agent(t) \in Agents
    BY OrchestratorAssumption DEF OrchestratorInv, TypeOK, Agent, Agents
  <2>2. CASE run' = run /\ s \in running \cup {current}
    BY <1>2, <1>3, <2>1, <2>2 DEF SomebodyIsAwaited, Agent
  <2>3. ASSUME NEW t \in Subtasks, SpawnAgent(t)
        PROVE  handle'[Agent(s)'] # "unborn"
    <3>1. run' = run /\ running' = running /\ current' = t
      BY <2>3 DEF SpawnAgent
    <3>2. CASE s = t
      <4>1. handle' = [handle EXCEPT ![Agent(t)] = "live"]
        BY <2>3 DEF SpawnAgent, Pool!Launch
      <4>2. handle'[Agent(t)] = "live"
        BY <2>1, <4>1 DEF OrchestratorInv, TypeOK, Pool!HandlesTypeOK
      <4> QED
        BY <3>1, <3>2, <4>2 DEF Agent
    <3>3. CASE s # t
      BY <1>3, <2>2, <3>1, <3>3
    <3> QED
      BY <3>2, <3>3
  <2>4. CASE NoteRunning
    <3>1. run' = run /\ s \in running \cup {current}
      BY <1>3, <2>1, <2>4 DEF NoteRunning
    <3> QED
      BY <2>2, <3>1
  <2>5. CASE Resume
    <3>1. pc # "noting" /\ running' = {} /\ current' = current
      BY <2>5 DEF Resume, Ended
    <3> QED
      BY <1>3, <2>1, <3>1 DEF OrchestratorInv, TodoIsReady
  <2>6. ASSUME NEW t \in Subtasks, CompleteSubtask(t) \/ FailSubtask(t)
        PROVE  handle'[Agent(s)'] # "unborn"
    <3>1. run' = run /\ s \in running \cup {current}
      BY <1>3, <2>6 DEF CompleteSubtask, FailSubtask, SelectCompletion
    <3> QED
      BY <2>2, <3>1
  <2>7. CASE UNCHANGED <<run, running, current>>
    BY <1>3, <2>2, <2>7
  <2> QED
    BY <2>3, <2>4, <2>5, <2>6, <2>7 DEF Next, RunStep, AgentStep, Begin, CheckLoop, Review,
       SelectCancelled, Defer, SpawnRefused, SpawnFails, Listen, Deliver, Finish, OthersChange,
       Stop, Cancel, vars, loopVars
<1> QED
  BY <1>1, <1>3 DEF SomebodyIsAwaited

\* If the other tasks leave the pool a slot, a first run never waits in its select for a
\* completion that cannot come: a subtask of its own is running, the agent of every running
\* subtask has been launched, and a deferred subtask waits for files only of one that has its
\* turn (orchestrator.go:92-137, 185-206).  Without that slot it may (README, section 5).
THEOREM NeverWaitsInVain ==
  ASSUME MaxOthers < MaxAgents
  PROVE  Spec => []SomebodyIsAwaited
<1>1. Init => HoldersHoldAll /\ DeferredForOthers /\ SomebodyIsAwaited
  BY OrchestratorAssumption DEF Init, HoldersHoldAll, DeferredForOthers, SomebodyIsAwaited, Lock!NoLocks
<1>2. OrchestratorInv /\ OrchestratorInv' /\ HoldersHoldAll /\ DeferredForOthers /\ SomebodyIsAwaited
        /\ [Next]_vars => (HoldersHoldAll /\ DeferredForOthers /\ SomebodyIsAwaited)'
  BY HoldersKept, DeferredKept, AwaitedKept
<1> QED
  BY <1>1, <1>2, Invariance, PTL DEF Spec

-----------------------------------------------------------------------------
(***************************************************************************)
(* The recursions of DependencyGraphCode, for a plan of any size and shape *)
(***************************************************************************)
SkipCall == [failed : Nodes, left : SUBSET Nodes]
VisitCall == [node : Nodes, left : SUBSET Nodes]

GraphTypes ==
  /\ edges \in [Nodes -> SUBSET Nodes]
  /\ nodeStatus \in [Nodes -> Statuses] /\ settled \in [Nodes -> Statuses]
  /\ skips \in Seq(SkipCall)
  /\ verdict \in {"unasked", "searching", "cyclic", "acyclic"}
  /\ color \in [Nodes -> {"white", "gray", "black"}]
  /\ visits \in Seq(VisitCall)
  /\ roots \in SUBSET Nodes

\* The status Fail began its recursion with, and the nodes skipped since.
Begun == [settled EXCEPT ![skips[1].failed] = "failed"]
Marked == {s \in Nodes : Begun[s] \in Unfinished /\ nodeStatus[s] = "skipped"}
Gone == Marked \cup {skips[1].failed}

\* The recursion marks nothing but dependents, no two of its calls are for the same node,
\* and a dependent that is not marked is still to come in the range of the call for it.
SkipInv ==
  /\ skips = <<>> => settled = nodeStatus
  /\ skips # <<>> =>
       /\ \A s \in Nodes : nodeStatus[s] = Begun[s] \/ s \in Marked
       /\ Marked \subseteq Dependents(Begun, edges, skips[1].failed)
       /\ \A i \in 1 .. Len(skips) : skips[i].failed \in Gone
       /\ \A i, j \in 1 .. Len(skips) : skips[i].failed = skips[j].failed => i = j
       /\ \A s \in Nodes : \A x \in Gone : nodeStatus[s] \in Unfinished /\ x \in edges[s] =>
            \E i \in 1 .. Len(skips) : skips[i].failed = x /\ s \in skips[i].left

\* Each waits for another of them.
Circular(S) == \A s \in S : edges[s] \cap S # {}

\* The calls are a path of gray nodes; what a call has passed is black, but for the node of
\* the next call.
PathInv ==
  /\ \A s \in Nodes : color[s] = "gray" <=> \E i \in 1 .. Len(visits) : visits[i].node = s
  /\ \A i, j \in 1 .. Len(visits) : visits[i].node = visits[j].node => i = j
  /\ \A i \in 1 .. Len(visits) : \A d \in edges[visits[i].node] :
       d \in visits[i].left \/ color[d] = "black" \/ (i < Len(visits) /\ d = visits[i + 1].node)
  /\ \A i \in 1 .. Len(visits) : visits[i].left \subseteq edges[visits[i].node]
  /\ \A i \in 1 .. Len(visits) - 1 : visits[i + 1].node \in edges[visits[i].node]

\* No black node is in a circle, and what the search has passed is black or on the path.
ColorsInv ==
  /\ \A S \in SUBSET Nodes : Circular(S) => \A s \in S : color[s] # "black"
  /\ verdict = "searching" =>
       \A s \in Nodes \ roots : color[s] = "black" \/ (visits # <<>> /\ s = visits[1].node)
  /\ verdict # "searching" => color = White /\ visits = <<>>

GraphInv == GraphTypes /\ SkipInv /\ PathInv /\ ColorsInv /\ CyclesMatch
-----------------------------------------------------------------------------
\* A stack of calls, whatever a call is.
LEMMA Calls ==
  ASSUME NEW R, NEW calls \in Seq(R), NEW r \in R
  PROVE  /\ Len(calls) \in Nat /\ \A i \in 1 .. Len(calls) : calls[i] \in R
         /\ Append(calls, r) \in Seq(R) /\ Len(Append(calls, r)) = Len(calls) + 1
         /\ \A i \in 1 .. Len(calls) : Append(calls, r)[i] = calls[i]
         /\ Append(calls, r)[Len(calls) + 1] = r
         /\ calls # <<>> =>
              /\ Len(calls) \in 1 .. Len(calls) /\ Len(calls) - 1 \in Nat
              /\ [calls EXCEPT ![Len(calls)] = r] \in Seq(R)
              /\ Len([calls EXCEPT ![Len(calls)] = r]) = Len(calls)
              /\ \A i \in 1 .. Len(calls) :
                   [calls EXCEPT ![Len(calls)] = r][i] = IF i = Len(calls) THEN r ELSE calls[i]
              /\ SubSeq(calls, 1, Len(calls) - 1) \in Seq(R)
              /\ Len(SubSeq(calls, 1, Len(calls) - 1)) = Len(calls) - 1
              /\ \A i \in 1 .. Len(calls) - 1 : SubSeq(calls, 1, Len(calls) - 1)[i] = calls[i]
<1>1. /\ Len(calls) \in Nat /\ \A i \in 1 .. Len(calls) : calls[i] \in R
      /\ Append(calls, r) \in Seq(R) /\ Len(Append(calls, r)) = Len(calls) + 1
      /\ \A i \in 1 .. Len(calls) : Append(calls, r)[i] = calls[i]
      /\ Append(calls, r)[Len(calls) + 1] = r
  OBVIOUS
<1>2. ASSUME calls # <<>>
      PROVE  /\ Len(calls) \in 1 .. Len(calls) /\ Len(calls) - 1 \in Nat
             /\ [calls EXCEPT ![Len(calls)] = r] \in Seq(R)
             /\ Len([calls EXCEPT ![Len(calls)] = r]) = Len(calls)
             /\ \A i \in 1 .. Len(calls) :
                  [calls EXCEPT ![Len(calls)] = r][i] = IF i = Len(calls) THEN r ELSE calls[i]
  BY <1>2
<1>3. ASSUME calls # <<>>
      PROVE  /\ SubSeq(calls, 1, Len(calls) - 1) \in Seq(R)
             /\ Len(SubSeq(calls, 1, Len(calls) - 1)) = Len(calls) - 1
             /\ \A i \in 1 .. Len(calls) - 1 : SubSeq(calls, 1, Len(calls) - 1)[i] = calls[i]
  <2> DEFINE n == Len(calls) - 1
  <2>1. n \in Nat /\ n + 1 - 1 = n /\ \A i \in 1 .. n : i \in 1 .. Len(calls) /\ 1 + i - 1 = i
    BY <1>3
  <2> HIDE DEF n
  <2>2. SubSeq(calls, 1, n) = [i \in 1 .. n |-> calls[i]]
    BY <2>1
  <2>3. SubSeq(calls, 1, n) \in Seq(R) /\ Len(SubSeq(calls, 1, n)) = n
    BY <1>1, <2>1, <2>2
  <2> QED
    BY <2>2, <2>3 DEF n
<1> QED
  BY <1>1, <1>2, <1>3

LEMMA SkipCalls ==
  ASSUME NEW calls \in Seq(SkipCall), calls # <<>>, NEW x \in Nodes
  PROVE  /\ Len(calls) \in Nat /\ Len(calls) \in 1 .. Len(calls) /\ Len(calls) - 1 \in Nat
         /\ \A i \in 1 .. Len(calls) : calls[i].failed \in Nodes /\ calls[i].left \in SUBSET Nodes
         /\ Passed(calls, x) \in Seq(SkipCall)
         /\ Len(Passed(calls, x)) = Len(calls)
         /\ \A i \in 1 .. Len(calls) :
              /\ Passed(calls, x)[i].failed = calls[i].failed
              /\ Passed(calls, x)[i].left = IF i = Len(calls) THEN calls[i].left \ {x} ELSE calls[i].left
         /\ Returned(calls) \in Seq(SkipCall)
         /\ Len(Returned(calls)) = Len(calls) - 1
         /\ \A i \in 1 .. Len(calls) - 1 : Returned(calls)[i] = calls[i]
<1> DEFINE last == calls[Len(calls)]
           r == [last EXCEPT !.left = last.left \ {x}]
<1>1. /\ Len(calls) \in Nat /\ Len(calls) \in 1 .. Len(calls) /\ Len(calls) - 1 \in Nat
      /\ \A i \in 1 .. Len(calls) : calls[i] \in SkipCall
  BY Calls
<1>2. r \in SkipCall /\ r.failed = last.failed /\ r.left = last.left \ {x}
  BY <1>1 DEF SkipCall
<1>3. Passed(calls, x) = [calls EXCEPT ![Len(calls)] = r]
  BY DEF Passed
<1> HIDE DEF r
<1>4. /\ Passed(calls, x) \in Seq(SkipCall)
      /\ Len(Passed(calls, x)) = Len(calls)
      /\ \A i \in 1 .. Len(calls) : Passed(calls, x)[i] = IF i = Len(calls) THEN r ELSE calls[i]
  BY <1>2, <1>3, Calls
<1>5. \A i \in 1 .. Len(calls) :
        /\ Passed(calls, x)[i].failed = calls[i].failed
        /\ Passed(calls, x)[i].left = IF i = Len(calls) THEN calls[i].left \ {x} ELSE calls[i].left
  BY <1>2, <1>4
<1>6. /\ Returned(calls) \in Seq(SkipCall)
      /\ Len(Returned(calls)) = Len(calls) - 1
      /\ \A i \in 1 .. Len(calls) - 1 : Returned(calls)[i] = calls[i]
  BY <1>2, Calls DEF Returned
<1>7. \A i \in 1 .. Len(calls) : calls[i].failed \in Nodes /\ calls[i].left \in SUBSET Nodes
  BY <1>1 DEF SkipCall
<1> QED
  BY <1>1, <1>4, <1>5, <1>6, <1>7

LEMMA VisitCalls ==
  ASSUME NEW calls \in Seq(VisitCall), calls # <<>>, NEW x \in Nodes
  PROVE  /\ Len(calls) \in Nat /\ Len(calls) \in 1 .. Len(calls) /\ Len(calls) - 1 \in Nat
         /\ \A i \in 1 .. Len(calls) : calls[i].node \in Nodes /\ calls[i].left \in SUBSET Nodes
         /\ Passed(calls, x) \in Seq(VisitCall)
         /\ Len(Passed(calls, x)) = Len(calls)
         /\ \A i \in 1 .. Len(calls) :
              /\ Passed(calls, x)[i].node = calls[i].node
              /\ Passed(calls, x)[i].left = IF i = Len(calls) THEN calls[i].left \ {x} ELSE calls[i].left
         /\ Returned(calls) \in Seq(VisitCall)
         /\ Len(Returned(calls)) = Len(calls) - 1
         /\ \A i \in 1 .. Len(calls) - 1 : Returned(calls)[i] = calls[i]
<1> DEFINE last == calls[Len(calls)]
           r == [last EXCEPT !.left = last.left \ {x}]
<1>1. /\ Len(calls) \in Nat /\ Len(calls) \in 1 .. Len(calls) /\ Len(calls) - 1 \in Nat
      /\ \A i \in 1 .. Len(calls) : calls[i] \in VisitCall
  BY Calls
<1>2. r \in VisitCall /\ r.node = last.node /\ r.left = last.left \ {x}
  BY <1>1 DEF VisitCall
<1>3. Passed(calls, x) = [calls EXCEPT ![Len(calls)] = r]
  BY DEF Passed
<1> HIDE DEF r
<1>4. /\ Passed(calls, x) \in Seq(VisitCall)
      /\ Len(Passed(calls, x)) = Len(calls)
      /\ \A i \in 1 .. Len(calls) : Passed(calls, x)[i] = IF i = Len(calls) THEN r ELSE calls[i]
  BY <1>2, <1>3, Calls
<1>5. \A i \in 1 .. Len(calls) :
        /\ Passed(calls, x)[i].node = calls[i].node
        /\ Passed(calls, x)[i].left = IF i = Len(calls) THEN calls[i].left \ {x} ELSE calls[i].left
  BY <1>2, <1>4
<1>6. /\ Returned(calls) \in Seq(VisitCall)
      /\ Len(Returned(calls)) = Len(calls) - 1
      /\ \A i \in 1 .. Len(calls) - 1 : Returned(calls)[i] = calls[i]
  BY <1>2, Calls DEF Returned
<1>7. \A i \in 1 .. Len(calls) : calls[i].node \in Nodes /\ calls[i].left \in SUBSET Nodes
  BY <1>1 DEF VisitCall
<1> QED
  BY <1>1, <1>4, <1>5, <1>6, <1>7

LEMMA GraphBegins == NewGraph => GraphInv
<1> SUFFICES ASSUME NewGraph PROVE GraphInv
  OBVIOUS
<1> USE DEF NewGraph
<1>1. GraphTypes
  BY DEF GraphTypes, BuildGraph, Statuses, White
<1>2. SkipInv
  BY DEF SkipInv
<1>3. PathInv
  BY DEF PathInv, White
<1>4. ColorsInv /\ CyclesMatch
  BY DEF ColorsInv, White, CyclesMatch
<1> QED
  BY <1>1, <1>2, <1>3, <1>4 DEF GraphInv

\* The search and the recursion of Fail leave each other's variables alone.
LEMMA GraphSteps ==
  ASSUME DependencyNext
  PROVE  /\ edges' = edges
         /\ \/ \E s \in Nodes : MarkNode(s) \/ CompleteNode(s) \/ FailNode(s) \/ SkipNext(s)
            \/ SkipReturns
            \/ \E s \in Nodes : VisitRoot(s) \/ VisitNext(s)
            \/ AskForCycles \/ VisitReturns \/ SearchEnds
<1>1. edges' = edges
  BY DEF DependencyNext, MarkNode, CompleteNode, FailNode, SkipNext, SkipReturns,
         VisitRoot, VisitNext, AskForCycles, VisitReturns, SearchEnds
<1> QED
  BY <1>1 DEF DependencyNext

LEMMA GraphTypesKept == GraphTypes /\ DependencyNext => GraphTypes'
<1> SUFFICES ASSUME GraphTypes, DependencyNext PROVE GraphTypes'
  OBVIOUS
<1> USE DEF GraphTypes
<1>1. ASSUME NEW s \in Nodes, MarkNode(s) \/ CompleteNode(s) \/ FailNode(s)
      PROVE  GraphTypes'
  <2>1. [failed |-> s, left |-> Nodes] \in SkipCall
    BY DEF SkipCall
  <2>2. skips' \in Seq(SkipCall)
    <3>1. skips' = skips \/ skips' = Append(skips, [failed |-> s, left |-> Nodes])
      BY <1>1 DEF MarkNode, CompleteNode, FailNode, SkipDependents
    <3> QED
      BY <2>1, <3>1, Calls
  <2>3. nodeStatus' \in [Nodes -> Statuses] /\ settled' \in [Nodes -> Statuses]
    BY <1>1 DEF MarkNode, CompleteNode, FailNode, MarkRunning, Complete, Statuses
  <2> QED
    BY <1>1, <2>2, <2>3 DEF MarkNode, CompleteNode, FailNode, searchVars
<1>2. ASSUME NEW s \in Nodes, SkipNext(s)
      PROVE  GraphTypes'
  <2>1. /\ Passed(skips, s) \in Seq(SkipCall)
        /\ [failed |-> s, left |-> Nodes] \in SkipCall
    BY <1>2, SkipCalls DEF SkipNext, SkipCall
  <2>2. SkipDependents(Passed(skips, s), s) \in Seq(SkipCall)
    BY <2>1, Calls DEF SkipDependents
  <2>3. skips' \in Seq(SkipCall)
    BY <1>2, <2>1, <2>2 DEF SkipNext
  <2>4. nodeStatus' \in [Nodes -> Statuses]
    BY <1>2 DEF SkipNext, Statuses
  <2> QED
    BY <1>2, <2>3, <2>4 DEF SkipNext, searchVars
<1>3. CASE SkipReturns
  <2>1. skips' \in Seq(SkipCall)
    <3>1. skips # <<>> /\ skips' = Returned(skips)
      BY <1>3 DEF SkipReturns
    <3>2. Last(skips).failed \in Nodes
      <4>1. skips[Len(skips)] \in SkipCall
        BY <3>1
      <4> QED
        BY <4>1 DEF Last, SkipCall
    <3> QED
      BY <3>1, <3>2, SkipCalls
  <2> QED
    BY <1>3, <2>1 DEF SkipReturns, searchVars
<1>4. ASSUME NEW s \in Nodes, VisitRoot(s) \/ VisitNext(s)
      PROVE  GraphTypes'
  <2>1. visits # <<>> => Passed(visits, s) \in Seq(VisitCall)
    BY VisitCalls
  <2>2. [node |-> s, left |-> edges[s]] \in VisitCall
    BY DEF VisitCall
  <2>3. visits' \in Seq(VisitCall)
    <3>1. \/ visits' = visits \/ visits' = <<>>
          \/ visits' = Append(visits, [node |-> s, left |-> edges[s]])
          \/ visits # <<>> /\ visits' = Passed(visits, s)
          \/ visits # <<>> /\ visits' = Append(Passed(visits, s), [node |-> s, left |-> edges[s]])
      BY <1>4 DEF VisitRoot, VisitNext, Visit, Answer
    <3>2. <<>> \in Seq(VisitCall) /\ visits \in Seq(VisitCall)
      OBVIOUS
    <3>3. \A calls \in Seq(VisitCall) : Append(calls, [node |-> s, left |-> edges[s]]) \in Seq(VisitCall)
      BY <2>2, Calls
    <3> QED
      BY <2>1, <3>1, <3>2, <3>3
  <2>4. color' \in [Nodes -> {"white", "gray", "black"}]
    BY <1>4 DEF VisitRoot, VisitNext, Visit, Answer, White
  <2> QED
    BY <1>4, <2>3, <2>4 DEF VisitRoot, VisitNext, Answer
<1>5. CASE VisitReturns
  <2>1. visits' \in Seq(VisitCall)
    <3>1. visits # <<>> /\ visits' = Returned(visits)
      BY <1>5 DEF VisitReturns
    <3>2. Last(visits).node \in Nodes
      <4>1. visits[Len(visits)] \in VisitCall
        BY <3>1
      <4> QED
        BY <4>1 DEF Last, VisitCall
    <3> QED
      BY <3>1, <3>2, VisitCalls
  <2>2. color' \in [Nodes -> {"white", "gray", "black"}]
    BY <1>5 DEF VisitReturns
  <2> QED
    BY <1>5, <2>1, <2>2 DEF VisitReturns
<1>6. CASE AskForCycles \/ SearchEnds
  BY <1>6 DEF AskForCycles, SearchEnds, Answer, White
<1> QED
  BY <1>1, <1>2, <1>3, <1>4, <1>5, <1>6, GraphSteps

\* The call of Fail is the first on the stack until it returns.
LEMMA BegunStays ==
  ASSUME GraphTypes, skips # <<>>, settled' = settled, skips'[1].failed = skips[1].failed
  PROVE  /\ Begun' = Begun /\ Begun \in [Nodes -> Statuses] /\ skips[1].failed \in Nodes
         /\ Begun[skips[1].failed] = "failed"
<1>1. 1 \in 1 .. Len(skips)
  BY DEF GraphTypes
<1>2. skips[1] \in SkipCall
  BY <1>1 DEF GraphTypes
<1>3. skips[1].failed \in Nodes
  BY <1>2 DEF SkipCall
<1>4. /\ Begun \in [Nodes -> Statuses] /\ Begun[skips[1].failed] = "failed"
  BY <1>3 DEF GraphTypes, Begun, Statuses
<1>5. Begun' = Begun
  BY DEF Begun
<1> QED
  BY <1>3, <1>4, <1>5

LEMMA SkipNextKeeps ==
  ASSUME GraphTypes, SkipInv, NEW id \in Nodes, SkipNext(id)
  PROVE  SkipInv'
<1> DEFINE n == Len(skips)
           root == skips[1].failed
           f == skips[n].failed
           rest == Passed(skips, id)
<1>0. /\ skips # <<>> /\ id \in skips[n].left
      /\ settled' = settled /\ edges' = edges
  BY DEF SkipNext, Last
<1>1. /\ n \in Nat /\ n \in 1 .. n /\ 1 \in 1 .. n
      /\ rest \in Seq(SkipCall) /\ Len(rest) = n
      /\ \A i \in 1 .. n :
           /\ rest[i].failed = skips[i].failed
           /\ rest[i].left = IF i = n THEN skips[i].left \ {id} ELSE skips[i].left
  <2>1. skips \in Seq(SkipCall)
    BY DEF GraphTypes
  <2>2. /\ n \in Nat /\ n \in 1 .. n
        /\ rest \in Seq(SkipCall) /\ Len(rest) = n
        /\ \A i \in 1 .. n :
             /\ rest[i].failed = skips[i].failed
             /\ rest[i].left = IF i = n THEN skips[i].left \ {id} ELSE skips[i].left
    BY <1>0, <2>1, SkipCalls
  <2> HIDE DEF rest, n
  <2>3. 1 \in 1 .. n
    BY <2>2
  <2> QED
    BY <2>2, <2>3
<1>2. /\ \A s \in Nodes : nodeStatus[s] = Begun[s] \/ s \in Marked
      /\ Marked \subseteq Dependents(Begun, edges, root)
      /\ \A i \in 1 .. n : skips[i].failed \in Gone
      /\ \A i, j \in 1 .. n : skips[i].failed = skips[j].failed => i = j
      /\ \A s \in Nodes : \A x \in Gone : nodeStatus[s] \in Unfinished /\ x \in edges[s] =>
           \E i \in 1 .. n : skips[i].failed = x /\ s \in skips[i].left
  BY <1>0 DEF SkipInv
<1> HIDE DEF rest
<1>3. CASE nodeStatus[id] \in Unfinished /\ f \in edges[id]
  <2> DEFINE call == [failed |-> id, left |-> Nodes]
  <2>1. /\ nodeStatus' = [nodeStatus EXCEPT ![id] = "skipped"]
        /\ skips' = Append(rest, call)
    BY <1>3 DEF SkipNext, SkipDependents, Last, rest
  <2>2. call \in SkipCall /\ call.failed = id /\ call.left = Nodes
    BY DEF SkipCall
  <2> HIDE DEF call
  <2>3. /\ Len(skips') = n + 1 /\ skips' # <<>>
        /\ \A i \in 1 .. n : skips'[i] = rest[i]
        /\ skips'[n + 1] = call
    BY <1>1, <2>1, <2>2, Calls
  <2>4. skips'[1].failed = root
    BY <1>1, <2>3
  <2>5. /\ Begun' = Begun /\ Begun \in [Nodes -> Statuses] /\ root \in Nodes /\ Begun[root] = "failed"
    BY <1>0, <2>4, BegunStays
  <2>6. Begun[id] \in Unfinished /\ id \notin Marked /\ id # root
    BY <1>2, <1>3, <2>5 DEF Marked, Unfinished
  <2>7. Marked' = Marked \cup {id}
    BY <2>1, <2>5, <2>6 DEF Marked, GraphTypes
  <2>8. Gone' = Gone \cup {id} /\ id \notin Gone
    BY <2>4, <2>6, <2>7 DEF Gone
  <2>9. id \in Dependents(Begun, edges, root)
    <3>1. ClosedUnderDependents(Begun, edges, root, Dependents(Begun, edges, root))
      BY DependentsClosed
    <3>2. f \in Dependents(Begun, edges, root) \cup {root}
      BY <1>1, <1>2 DEF Gone
    <3>3. id \in DOMAIN Begun
      BY <2>5
    <3> QED
      BY <1>3, <2>6, <3>1, <3>2, <3>3 DEF ClosedUnderDependents
  <2>10. \A s \in Nodes : nodeStatus'[s] = Begun[s] \/ s \in Marked'
    BY <1>2, <2>1, <2>7 DEF GraphTypes
  <2>11. \A i \in 1 .. n + 1 : i = n + 1 \/ i \in 1 .. n
    BY <1>1
  <2>12. \A i \in 1 .. n + 1 : skips'[i].failed = IF i = n + 1 THEN id ELSE skips[i].failed
    BY <1>1, <2>2, <2>3, <2>11
  <2>13. \A i \in 1 .. n + 1 : skips'[i].failed \in Gone'
    BY <1>2, <2>8, <2>11, <2>12
  <2>14. \A i, j \in 1 .. n + 1 : skips'[i].failed = skips'[j].failed => i = j
    BY <1>2, <2>8, <2>11, <2>12
  <2>15. ASSUME NEW s \in Nodes, NEW x \in Gone', nodeStatus'[s] \in Unfinished, x \in edges[s]
         PROVE  \E i \in 1 .. n + 1 : skips'[i].failed = x /\ s \in skips'[i].left
    <3>1. s # id /\ nodeStatus[s] \in Unfinished
      BY <2>1, <2>15 DEF GraphTypes, Unfinished
    <3>2. CASE x = id
      <4>1. n + 1 \in 1 .. n + 1
        BY <1>1
      <4> QED
        BY <2>2, <2>3, <3>2, <4>1
    <3>3. CASE x # id
      <4>1. PICK i \in 1 .. n : skips[i].failed = x /\ s \in skips[i].left
        BY <1>2, <2>8, <2>15, <3>1, <3>3
      <4>2. i \in 1 .. n + 1
        BY <1>1
      <4> QED
        BY <1>1, <2>3, <3>1, <4>1, <4>2
    <3> QED
      BY <3>2, <3>3
  <2> QED
    BY <1>0, <2>3, <2>4, <2>5, <1>2, <2>7, <2>9, <2>10, <2>13, <2>14, <2>15 DEF SkipInv
<1>4. CASE ~(nodeStatus[id] \in Unfinished /\ f \in edges[id])
  <2>1. nodeStatus' = nodeStatus /\ skips' = rest
    BY <1>4 DEF SkipNext, Last, rest
  <2>2. skips'[1].failed = root /\ skips' # <<>> /\ Len(skips') = n
    <3>1. rest[1].failed = root
      BY <1>1
    <3>2. Len(rest) # 0
      <4> HIDE DEF n
      <4> QED
        BY <1>1
    <3> QED
      BY <1>1, <2>1, <3>1, <3>2
  <2>3. Begun' = Begun
    BY <1>0, <2>2, BegunStays
  <2>4. Marked' = Marked /\ Gone' = Gone
    BY <2>1, <2>2, <2>3 DEF Marked, Gone
  <2>5. ASSUME NEW s \in Nodes, NEW x \in Gone', nodeStatus'[s] \in Unfinished, x \in edges[s]
         PROVE  \E i \in 1 .. n : skips'[i].failed = x /\ s \in skips'[i].left
    <3>1. PICK i \in 1 .. n : skips[i].failed = x /\ s \in skips[i].left
      BY <1>2, <2>1, <2>4, <2>5
    <3>2. i = n => s # id
      BY <1>4, <2>1, <2>5, <3>1
    <3> QED
      BY <1>1, <2>1, <3>1, <3>2
  <2>6. \A i \in 1 .. n : skips'[i].failed = skips[i].failed
    BY <1>1, <2>1
  <2> QED
    BY <1>0, <1>2, <2>1, <2>2, <2>3, <2>4, <2>5, <2>6 DEF SkipInv
<1> QED
  BY <1>3, <1>4

LEMMA SkipReturnsKeeps ==
  ASSUME GraphTypes, SkipInv, SkipReturns
  PROVE  SkipInv'
<1> DEFINE n == Len(skips)
<1>0. /\ skips # <<>> /\ skips[n].left = {}
      /\ skips' = Returned(skips) /\ edges' = edges /\ nodeStatus' = nodeStatus
  BY DEF SkipReturns, Last
<1>1. PICK y : y \in Nodes
  <2>1. skips[n] \in SkipCall
    BY <1>0 DEF GraphTypes
  <2> QED
    BY <2>1 DEF SkipCall
<1>2. /\ n \in Nat /\ n \in 1 .. n /\ n - 1 \in Nat /\ Len(skips') = n - 1
      /\ \A i \in 1 .. n - 1 : skips'[i] = skips[i]
  BY <1>0, <1>1, SkipCalls DEF GraphTypes
<1>3. CASE skips' = <<>>
  BY <1>0, <1>3 DEF SkipReturns, SkipInv
<1>4. CASE skips' # <<>>
  <2>1. settled' = settled /\ 1 \in 1 .. n - 1 /\ Len(skips') # 0
    <3>1. Len(skips') # 0
      BY <1>0, <1>1, <1>4, SkipCalls DEF GraphTypes
    <3> QED
      BY <1>2, <1>4, <3>1 DEF SkipReturns
  <2>2. skips'[1].failed = skips[1].failed
    BY <1>2, <2>1
  <2>3. Begun' = Begun
    BY <1>0, <2>1, <2>2, BegunStays
  <2>4. Marked' = Marked /\ Gone' = Gone
    BY <1>0, <2>2, <2>3 DEF Marked, Gone
  <2>5. \A i \in 1 .. n - 1 : i \in 1 .. n /\ i # n
    BY <1>2
  <2>6. \A i \in 1 .. n : i = n \/ i \in 1 .. n - 1
    BY <1>2
  <2> HIDE DEF n
  <2>7. /\ \A s \in Nodes : nodeStatus[s] = Begun[s] \/ s \in Marked
        /\ Marked \subseteq Dependents(Begun, edges, skips[1].failed)
        /\ \A i \in 1 .. n : skips[i].failed \in Gone
        /\ \A i, j \in 1 .. n : skips[i].failed = skips[j].failed => i = j
        /\ \A s \in Nodes : \A x \in Gone : nodeStatus[s] \in Unfinished /\ x \in edges[s] =>
             \E i \in 1 .. n : skips[i].failed = x /\ s \in skips[i].left
    BY <1>0 DEF SkipInv, n
  <2>8. \A s \in Nodes : \A x \in Gone : nodeStatus[s] \in Unfinished /\ x \in edges[s] =>
             \E i \in 1 .. n - 1 : skips'[i].failed = x /\ s \in skips'[i].left
    BY <1>0, <1>2, <2>6, <2>7
  <2> QED
    BY <1>0, <1>2, <1>4, <2>2, <2>3, <2>4, <2>5, <2>7, <2>8 DEF SkipInv
<1> QED
  BY <1>3, <1>4

LEMMA SkipKept ==
  ASSUME GraphTypes, SkipInv, DependencyNext
  PROVE  SkipInv'
<1>1. ASSUME NEW s \in Nodes, MarkNode(s) \/ CompleteNode(s)
      PROVE  SkipInv'
  BY <1>1 DEF MarkNode, CompleteNode, Unlocked, SkipInv
<1>2. ASSUME NEW s \in Nodes, FailNode(s)
      PROVE  SkipInv'
  <2> DEFINE call == [failed |-> s, left |-> Nodes]
  <2>1. /\ skips = <<>> /\ settled = nodeStatus /\ settled' = settled
        /\ nodeStatus' = [nodeStatus EXCEPT ![s] = "failed"]
        /\ skips' = Append(<<>>, call)
    BY <1>2 DEF FailNode, Unlocked, SkipInv, SkipDependents
  <2>2. call.failed = s /\ call.left = Nodes
    OBVIOUS
  <2> HIDE DEF call
  <2>3. Len(skips') = 1 /\ skips'[1] = call /\ skips' # <<>>
    BY <2>1
  <2>4. Begun' = nodeStatus'
    BY <2>1, <2>2, <2>3 DEF Begun
  <2>5. Marked' = {} /\ Gone' = {s}
    BY <2>2, <2>3, <2>4 DEF Marked, Gone, Unfinished
  <2>6. 1 .. 1 = {1} /\ 1 .. Len(skips') = {1}
    BY <2>3
  <2> QED
    BY <2>2, <2>3, <2>4, <2>5, <2>6 DEF SkipInv
<1>3. ASSUME UNCHANGED <<edges, nodeStatus, skips, settled>>
      PROVE  SkipInv'
  BY <1>3 DEF SkipInv, Begun, Marked, Gone
<1>4. ASSUME NEW s \in Nodes, VisitRoot(s) \/ VisitNext(s)
      PROVE  SkipInv'
  BY <1>3, <1>4 DEF VisitRoot, VisitNext
<1>5. CASE AskForCycles \/ VisitReturns \/ SearchEnds
  BY <1>3, <1>5 DEF AskForCycles, VisitReturns, SearchEnds
<1> QED
  BY <1>1, <1>2, <1>4, <1>5, SkipNextKeeps, SkipReturnsKeeps, GraphSteps

LEMMA SkipsMatch ==
  ASSUME GraphTypes, SkipInv
  PROVE  SkipMatches
<1> SUFFICES ASSUME Len(skips) = 1, skips[1].left = {}
             PROVE  nodeStatus = Fail(settled, edges, skips[1].failed)
  BY DEF SkipMatches
<1> DEFINE root == skips[1].failed
           D == Dependents(Begun, edges, root)
<1>1. skips # <<>> /\ 1 .. Len(skips) = {1}
  BY DEF GraphTypes
<1>2. /\ \A s \in Nodes : nodeStatus[s] = Begun[s] \/ s \in Marked
      /\ Marked \subseteq D
      /\ \A s \in Nodes : \A x \in Gone : nodeStatus[s] \in Unfinished /\ x \in edges[s] =>
           \E i \in 1 .. Len(skips) : skips[i].failed = x /\ s \in skips[i].left
  BY <1>1 DEF SkipInv
<1>3. Begun \in [Nodes -> Statuses] /\ Begun = [settled EXCEPT ![root] = "failed"]
  <2>1. skips[1] \in SkipCall
    BY <1>1 DEF GraphTypes
  <2> QED
    BY <2>1 DEF GraphTypes, SkipCall, Begun, Statuses
<1>4. ClosedUnderDependents(Begun, edges, root, Marked)
  <2> SUFFICES ASSUME NEW s \in Nodes, Begun[s] \in Unfinished,
                      NEW x \in edges[s], x \in Marked \cup {root}, s \notin Marked
               PROVE  FALSE
    BY <1>3 DEF ClosedUnderDependents
  <2>1. nodeStatus[s] \in Unfinished /\ x \in Gone
    BY <1>2 DEF Gone
  <2> QED
    BY <1>1, <1>2, <2>1
<1>5. Marked \in SUBSET DOMAIN Begun
  BY <1>3 DEF Marked
<1>6. D \subseteq Marked
  BY <1>4, <1>5 DEF Dependents
<1>7. \A t \in Nodes : nodeStatus[t] = IF t \in D THEN "skipped" ELSE Begun[t]
  BY <1>2, <1>6 DEF Marked
<1>8. Fail(settled, edges, root) = [t \in Nodes |-> IF t \in D THEN "skipped" ELSE Begun[t]]
  BY <1>3 DEF Fail, GraphTypes
<1> HIDE DEF D
<1> QED
  BY <1>7, <1>8 DEF GraphTypes

\* The path from a gray node to the call that meets it again is a circle.
LEMMA GrayCloses ==
  ASSUME GraphTypes, PathInv, visits # <<>>,
         NEW id \in Last(visits).left, color[id] = "gray"
  PROVE  HasCycles(edges)
<1> DEFINE n == Len(visits)
<1>1. /\ n \in Nat /\ n \in 1 .. n /\ visits \in Seq(VisitCall)
      /\ \A i \in 1 .. n : visits[i].node \in Nodes /\ visits[i].left \in SUBSET Nodes
  <2>1. visits \in Seq(VisitCall)
    BY DEF GraphTypes
  <2>2. \A i \in 1 .. n : visits[i] \in VisitCall
    BY <2>1
  <2> QED
    BY <2>1, <2>2 DEF VisitCall
<1>2. id \in visits[n].left /\ id \in edges[visits[n].node] /\ id \in Nodes
  BY <1>1 DEF Last, PathInv
<1>3. PICK k \in 1 .. n : visits[k].node = id
  BY <1>2 DEF PathInv
<1>4. \A i \in 1 .. n - 1 : visits[i + 1].node \in edges[visits[i].node]
  BY DEF PathInv
<1> HIDE DEF n
<1> DEFINE S == {visits[i].node : i \in k .. n}
<1>5. \A i \in k .. n : i \in 1 .. n /\ (i = n \/ (i \in 1 .. n - 1 /\ i + 1 \in k .. n))
  BY <1>1
<1>6. k \in k .. n
  BY <1>1
<1>7. S # {} /\ S \subseteq Nodes /\ id \in S
  BY <1>1, <1>3, <1>5, <1>6
<1>8. ASSUME NEW s \in S PROVE edges[s] \cap S # {}
  <2>1. PICK i \in k .. n : s = visits[i].node
    OBVIOUS
  <2>2. CASE i = n
    BY <1>2, <1>7, <2>1, <2>2
  <2>3. CASE i # n
    BY <1>4, <1>5, <2>1, <2>3
  <2> QED
    BY <2>2, <2>3
<1>9. DOMAIN edges = Nodes
  BY DEF GraphTypes
<1> HIDE DEF S
<1> QED
  BY <1>7, <1>8, <1>9 DEF HasCycles

\* Nothing that waits for something black only is in a circle.
LEMMA BlackIsOpen ==
  ASSUME GraphTypes, ColorsInv, NEW p \in Nodes, \A d \in edges[p] : color[d] = "black",
         NEW S \in SUBSET Nodes, Circular(S)
  PROVE  p \notin S
BY DEF GraphTypes, ColorsInv, Circular

LEMMA VisitRootKeeps ==
  ASSUME GraphTypes, PathInv, ColorsInv, NEW id \in Nodes, VisitRoot(id)
  PROVE  PathInv' /\ ColorsInv'
<1>0. /\ verdict = "searching" /\ verdict' = verdict /\ visits = <<>> /\ edges' = edges
      /\ roots' = roots \ {id}
  BY DEF VisitRoot
<1>1. \A s \in Nodes : color[s] # "gray"
  BY <1>0 DEF PathInv
<1>2. \A s \in Nodes \ roots : color[s] = "black"
  BY <1>0 DEF ColorsInv
<1>3. CASE color[id] = "white"
  <2> DEFINE call == [node |-> id, left |-> edges[id]]
  <2>1. color' = [color EXCEPT ![id] = "gray"] /\ visits' = Append(<<>>, call)
    BY <1>0, <1>3 DEF VisitRoot, Visit
  <2>2. call.node = id /\ call.left = edges[id]
    OBVIOUS
  <2> HIDE DEF call
  <2>3. Len(visits') = 1 /\ visits'[1] = call /\ visits' # <<>> /\ 1 .. 1 = {1} /\ 1 .. 0 = {}
    BY <2>1
  <2>4. PathInv'
    <3>1. \A s \in Nodes : color'[s] = "gray" <=> s = id
      BY <1>1, <2>1 DEF GraphTypes
    <3> QED
      BY <1>0, <2>2, <2>3, <3>1 DEF PathInv
  <2>5. \A s \in Nodes : color'[s] = "black" <=> color[s] = "black"
    BY <1>3, <2>1 DEF GraphTypes
  <2>6. ColorsInv'
    <3>1. \A S \in SUBSET Nodes : Circular(S)' <=> Circular(S)
      BY <1>0 DEF Circular
    <3> QED
      BY <1>0, <1>2, <2>2, <2>3, <2>5, <3>1 DEF ColorsInv
  <2> QED
    BY <2>4, <2>6
<1>4. CASE color[id] # "white"
  <2>1. UNCHANGED <<color, visits>> /\ color[id] = "black"
    BY <1>1, <1>4 DEF VisitRoot, GraphTypes
  <2> QED
    BY <1>0, <1>2, <2>1 DEF PathInv, ColorsInv, Circular
<1> QED
  BY <1>3, <1>4

LEMMA VisitNextKeeps ==
  ASSUME GraphTypes, PathInv, ColorsInv, NEW id \in Nodes, VisitNext(id), ~Meets(id)
  PROVE  PathInv' /\ ColorsInv'
<1> DEFINE n == Len(visits)
           rest == Passed(visits, id)
<1>0. /\ visits # <<>> /\ id \in visits[n].left /\ visits \in Seq(VisitCall)
      /\ edges' = edges /\ verdict' = verdict /\ roots' = roots
  BY DEF VisitNext, Last, GraphTypes
<1>1. verdict = "searching" /\ color[id] \in {"white", "black"}
  BY <1>0 DEF ColorsInv, Meets, GraphTypes
<1>2. /\ n \in Nat /\ n \in 1 .. n
      /\ rest \in Seq(VisitCall) /\ Len(rest) = n
      /\ \A i \in 1 .. n :
           /\ visits[i].node \in Nodes
           /\ rest[i].node = visits[i].node
           /\ rest[i].left = IF i = n THEN visits[i].left \ {id} ELSE visits[i].left
  BY <1>0, VisitCalls
<1>3. /\ \A s \in Nodes : color[s] = "gray" <=> \E i \in 1 .. n : visits[i].node = s
      /\ \A i, j \in 1 .. n : visits[i].node = visits[j].node => i = j
      /\ \A i \in 1 .. n : \A d \in edges[visits[i].node] :
           d \in visits[i].left \/ color[d] = "black" \/ (i < n /\ d = visits[i + 1].node)
      /\ \A i \in 1 .. n : visits[i].left \subseteq edges[visits[i].node]
      /\ \A i \in 1 .. n - 1 : visits[i + 1].node \in edges[visits[i].node]
  BY DEF PathInv
<1>4. /\ \A S \in SUBSET Nodes : Circular(S) => \A s \in S : color[s] # "black"
      /\ \A s \in Nodes \ roots : color[s] = "black" \/ s = visits[1].node
      /\ \A S : Circular(S)' <=> Circular(S)
  BY <1>0, <1>1 DEF ColorsInv, Circular
<1> HIDE DEF rest
<1>5. CASE color[id] = "white"
  <2> DEFINE call == [node |-> id, left |-> edges[id]]
  <2>1. color' = [color EXCEPT ![id] = "gray"] /\ visits' = Append(rest, call)
    BY <1>5 DEF VisitNext, Visit, rest
  <2>2. call \in VisitCall /\ call.node = id /\ call.left = edges[id]
    BY DEF GraphTypes, VisitCall
  <2> HIDE DEF call, n
  <2>3. /\ Len(visits') = n + 1
        /\ \A i \in 1 .. n : visits'[i] = rest[i]
        /\ visits'[n + 1] = call
    BY <1>2, <2>1, <2>2, Calls
  <2>4. visits' # <<>>
    BY <1>2, <2>3
  <2>5. \A i \in 1 .. n + 1 : i = n + 1 \/ i \in 1 .. n
    BY <1>2
  <2>6. /\ 1 \in 1 .. n /\ n + 1 \in 1 .. n + 1 /\ \A i \in 1 .. n : i \in 1 .. n + 1 /\ i # n + 1
        /\ \A i \in 1 .. n : i = n \/ (i \in 1 .. n - 1 /\ i + 1 \in 1 .. n)
        /\ \A i \in 1 .. n : i < n + 1 /\ (i < n <=> i # n)
    BY <1>2
  <2>7. /\ \A i \in 1 .. n : visits'[i].node = visits[i].node
        /\ \A i \in 1 .. n : visits'[i].left = IF i = n THEN visits[i].left \ {id} ELSE visits[i].left
        /\ visits'[n + 1].node = id /\ visits'[n + 1].left = edges[id]
    BY <1>2, <2>2, <2>3
  <2>8. /\ \A s \in Nodes : color'[s] = IF s = id THEN "gray" ELSE color[s]
        /\ \A s \in Nodes : color'[s] = "black" <=> color[s] = "black"
        /\ \A i \in 1 .. n : visits[i].node # id
    BY <1>2, <1>3, <1>5, <2>1 DEF GraphTypes
  <2>9. \A s \in Nodes : color'[s] = "gray" <=> \E i \in 1 .. n + 1 : visits'[i].node = s
    BY <1>3, <2>5, <2>6, <2>7, <2>8
  <2>10. \A i, j \in 1 .. n + 1 : visits'[i].node = visits'[j].node => i = j
    BY <1>3, <2>5, <2>7, <2>8
  <2>11. ASSUME NEW i \in 1 .. n + 1, NEW d \in edges[visits'[i].node]
         PROVE  d \in visits'[i].left \/ color'[d] = "black" \/ (i < n + 1 /\ d = visits'[i + 1].node)
    <3>1. CASE i = n + 1
      BY <2>7, <2>11, <3>1
    <3>2. CASE i \in 1 .. n
      <4>1. d \in Nodes
        BY <1>2, <2>7, <2>11, <3>2 DEF GraphTypes
      <4>2. CASE i = n
        <5>1. d \in edges[visits[n].node] /\ visits'[i].left = visits[n].left \ {id}
          BY <2>7, <2>11, <3>2, <4>2
        <5>2. d \in visits[n].left \/ color[d] = "black"
          BY <1>2, <1>3, <5>1
        <5>3. d = id \/ d \in visits'[i].left \/ color'[d] = "black"
          BY <2>8, <4>1, <5>1, <5>2
        <5>4. i < n + 1 /\ visits'[i + 1].node = id
          BY <2>6, <2>7, <3>2, <4>2
        <5> QED
          BY <5>3, <5>4
      <4>3. CASE i # n
        BY <1>3, <2>6, <2>7, <2>8, <2>11, <3>2, <4>1, <4>3
      <4> QED
        BY <4>2, <4>3
    <3> QED
      BY <2>5, <3>1, <3>2
  <2>12. \A i \in 1 .. n + 1 : visits'[i].left \subseteq edges[visits'[i].node]
    <3> SUFFICES ASSUME NEW i \in 1 .. n + 1
                 PROVE  visits'[i].left \subseteq edges[visits'[i].node]
      OBVIOUS
    <3>1. CASE i = n + 1
      BY <2>7, <3>1
    <3>2. CASE i \in 1 .. n
      <4>1. visits[i].left \subseteq edges[visits[i].node]
        BY <1>3, <3>2
      <4> QED
        BY <2>7, <3>2, <4>1
    <3> QED
      BY <2>5, <3>1, <3>2
  <2>13. ASSUME NEW i \in 1 .. n PROVE visits'[i + 1].node \in edges[visits'[i].node]
    <3>1. id \in edges[visits[n].node]
      BY <1>0, <1>2, <1>3 DEF n
    <3> QED
      BY <1>3, <2>6, <2>7, <3>1
  <2>14. PathInv'
    <3>1. /\ \A i \in 1 .. n + 1 : \A d \in edges[visits'[i].node] :
               d \in visits'[i].left \/ color'[d] = "black" \/ (i < n + 1 /\ d = visits'[i + 1].node)
          /\ \A i \in 1 .. n : visits'[i + 1].node \in edges[visits'[i].node]
      BY <2>11, <2>13
    <3> DEFINE m == Len(visits')
               e == edges'
    <3>2. m = n + 1 /\ m - 1 = n /\ e = edges
      BY <1>0, <1>2, <2>3
    <3> HIDE DEF m, e
    <3>3. \A s \in Nodes : color'[s] = "gray" <=> \E i \in 1 .. m : visits'[i].node = s
      BY ONLY <2>9, <3>2
    <3>4. \A i, j \in 1 .. m : visits'[i].node = visits'[j].node => i = j
      BY ONLY <2>10, <3>2
    <3>5. \A i \in 1 .. m : \A d \in e[visits'[i].node] :
            d \in visits'[i].left \/ color'[d] = "black" \/ (i < m /\ d = visits'[i + 1].node)
      BY ONLY <3>1, <3>2
    <3>6. \A i \in 1 .. m : visits'[i].left \subseteq e[visits'[i].node]
      BY ONLY <2>12, <3>2
    <3>7. \A i \in 1 .. m - 1 : visits'[i + 1].node \in e[visits'[i].node]
      BY ONLY <3>1, <3>2
    <3> QED
      BY ONLY <3>3, <3>4, <3>5, <3>6, <3>7 DEF PathInv, m, e
  <2>15. ColorsInv'
    BY <1>0, <1>1, <1>4, <2>4, <2>6, <2>7, <2>8 DEF ColorsInv
  <2> QED
    BY <2>14, <2>15
<1>6. CASE color[id] = "black"
  <2>1. color' = color /\ visits' = rest
    BY <1>1, <1>6 DEF VisitNext, Meets, rest
  <2>2. 1 \in 1 .. n /\ rest # <<>>
    <3> HIDE DEF n
    <3>1. Len(rest) # 0 /\ 1 \in 1 .. n
      BY <1>2
    <3> QED
      BY <3>1
  <2>3. \A i \in 1 .. n : i < n => i + 1 \in 1 .. n
    BY <1>2
  <2>4. ASSUME NEW i \in 1 .. n, NEW d \in edges[visits'[i].node]
        PROVE  d \in visits'[i].left \/ color'[d] = "black" \/ (i < n /\ d = visits'[i + 1].node)
    <3>1. d \in visits[i].left \/ color[d] = "black" \/ (i < n /\ d = visits[i + 1].node)
      BY <1>2, <1>3, <2>1, <2>4
    <3> QED
      BY <1>2, <1>6, <2>1, <2>3, <3>1
  <2>5. /\ \A s \in Nodes : color[s] = "gray" <=> \E i \in 1 .. n : rest[i].node = s
        /\ \A i, j \in 1 .. n : rest[i].node = rest[j].node => i = j
    <3> HIDE DEF n
    <3>1. \A i \in 1 .. n : rest[i].node = visits[i].node
      BY <1>2
    <3>2. /\ \A s \in Nodes : color[s] = "gray" <=> \E i \in 1 .. n : visits[i].node = s
          /\ \A i, j \in 1 .. n : visits[i].node = visits[j].node => i = j
      BY <1>3
    <3> QED
      BY ONLY <3>1, <3>2
  <2>9. \A i \in 1 .. n : rest[i].left \subseteq edges[rest[i].node]
    <3> SUFFICES ASSUME NEW i \in 1 .. n PROVE rest[i].left \subseteq edges[rest[i].node]
      OBVIOUS
    <3>1. visits[i].left \subseteq edges[visits[i].node]
      BY <1>3
    <3> QED
      BY <1>2, <3>1
  <2>6. ASSUME NEW i \in 1 .. n - 1 PROVE rest[i + 1].node \in edges[rest[i].node]
    <3>1. i \in 1 .. n /\ i + 1 \in 1 .. n
      BY <1>2
    <3> QED
      BY <1>2, <1>3, <3>1
  <2>7. PathInv'
    BY <1>0, <1>2, <2>1, <2>4, <2>5, <2>6, <2>9 DEF PathInv
  <2>8. ColorsInv'
    BY <1>0, <1>1, <1>2, <1>4, <2>1, <2>2 DEF ColorsInv
  <2> QED
    BY <2>7, <2>8
<1> QED
  BY <1>1, <1>5, <1>6

LEMMA VisitReturnsKeeps ==
  ASSUME GraphTypes, PathInv, ColorsInv, VisitReturns
  PROVE  PathInv' /\ ColorsInv'
<1> DEFINE n == Len(visits)
           p == visits[n].node
<1>0. /\ visits # <<>> /\ visits[n].left = {} /\ visits \in Seq(VisitCall)
      /\ edges' = edges /\ verdict' = verdict /\ roots' = roots
      /\ visits' = Returned(visits) /\ color' = [color EXCEPT ![p] = "black"]
  BY DEF VisitReturns, Last, GraphTypes
<1>1. /\ n \in Nat /\ n \in 1 .. n /\ p \in Nodes
      /\ \A i \in 1 .. n : visits[i].node \in Nodes
      /\ Len(visits') = n - 1 /\ visits' \in Seq(VisitCall)
      /\ \A i \in 1 .. n - 1 : visits'[i] = visits[i]
  <2>1. p \in Nodes
    <3>1. visits[n] \in VisitCall
      BY <1>0
    <3> QED
      BY <3>1 DEF VisitCall
  <2> HIDE DEF p
  <2> QED
    BY <1>0, <2>1, VisitCalls
<1>2. /\ \A s \in Nodes : color[s] = "gray" <=> \E i \in 1 .. n : visits[i].node = s
      /\ \A i, j \in 1 .. n : visits[i].node = visits[j].node => i = j
      /\ \A i \in 1 .. n : \A d \in edges[visits[i].node] :
           d \in visits[i].left \/ color[d] = "black" \/ (i < n /\ d = visits[i + 1].node)
      /\ \A i \in 1 .. n : visits[i].left \subseteq edges[visits[i].node]
      /\ \A i \in 1 .. n - 1 : visits[i + 1].node \in edges[visits[i].node]
  BY DEF PathInv
<1>3. /\ verdict = "searching"
      /\ \A S \in SUBSET Nodes : Circular(S) => \A s \in S : color[s] # "black"
      /\ \A s \in Nodes \ roots : color[s] = "black" \/ s = visits[1].node
      /\ \A S : Circular(S)' <=> Circular(S)
  BY <1>0 DEF ColorsInv, Circular
<1>4. \A d \in edges[p] : color[d] = "black"
  BY <1>0, <1>1, <1>2
<1>5. \A s \in Nodes : color'[s] = IF s = p THEN "black" ELSE color[s]
  BY <1>0 DEF GraphTypes
<1>6. visits' = <<>> <=> n = 1
  BY <1>1
<1>7. p = visits[n].node
  OBVIOUS
<1> HIDE DEF n, p
<1>8. /\ \A i \in 1 .. n - 1 : i \in 1 .. n /\ i # n /\ i + 1 \in 1 .. n
      /\ \A i \in 1 .. n : i = n \/ i \in 1 .. n - 1
      /\ \A i \in 1 .. n - 1 : i < n - 1 => i + 1 \in 1 .. n - 1
      /\ \A i \in 1 .. n - 1 : i + 1 = n \/ i < n - 1
      /\ n # 1 => 1 \in 1 .. n - 1
  BY <1>1
<1>9. \A s \in Nodes : color'[s] = "gray" <=> \E i \in 1 .. n - 1 : visits'[i].node = s
  BY <1>1, <1>2, <1>5, <1>7, <1>8
<1>10. \A i, j \in 1 .. n - 1 : visits'[i].node = visits'[j].node => i = j
  BY <1>1, <1>2, <1>8
<1>11. ASSUME NEW i \in 1 .. n - 1, NEW d \in edges[visits'[i].node]
       PROVE  d \in visits'[i].left \/ color'[d] = "black" \/ (i < n - 1 /\ d = visits'[i + 1].node)
  <2>1. d \in Nodes /\ visits'[i] = visits[i]
    BY <1>1, <1>8, <1>11 DEF GraphTypes
  <2>2. d \in visits[i].left \/ color[d] = "black" \/ d = visits[i + 1].node
    BY <1>2, <1>8, <1>11, <2>1
  <2>3. CASE i + 1 = n
    BY <1>5, <1>7, <2>1, <2>2, <2>3
  <2>4. CASE i < n - 1
    BY <1>1, <1>5, <1>8, <2>1, <2>2, <2>4
  <2> QED
    BY <1>8, <2>3, <2>4
<1>12. \A i \in 1 .. n - 1 : visits'[i].left \subseteq edges[visits'[i].node]
  BY <1>1, <1>2, <1>8
<1>13. ASSUME NEW i \in 1 .. n - 1 - 1 PROVE visits'[i + 1].node \in edges[visits'[i].node]
  <2>1. i \in 1 .. n - 1 /\ i + 1 \in 1 .. n - 1
    BY <1>1
  <2> QED
    BY <1>1, <1>2, <2>1
<1>14. PathInv'
  BY <1>0, <1>1, <1>9, <1>10, <1>11, <1>12, <1>13 DEF PathInv
<1>15. ASSUME NEW S \in SUBSET Nodes, Circular(S), NEW s \in S
       PROVE  color'[s] # "black"
  <2>1. p \notin S
    BY <1>1, <1>4, <1>15, BlackIsOpen
  <2> QED
    BY <1>3, <1>5, <1>15, <2>1
<1>16. ASSUME NEW s \in Nodes \ roots
       PROVE  color'[s] = "black" \/ (visits' # <<>> /\ s = visits'[1].node)
  <2>1. CASE n = 1
    BY <1>3, <1>5, <1>7, <2>1
  <2>2. CASE n # 1
    BY <1>1, <1>3, <1>5, <1>6, <1>8, <2>2
  <2> QED
    BY <2>1, <2>2
<1>17. ColorsInv'
  BY <1>0, <1>3, <1>15, <1>16 DEF ColorsInv
<1> QED
  BY <1>14, <1>17

LEMMA SearchKept ==
  ASSUME GraphTypes, PathInv, ColorsInv, CyclesMatch, DependencyNext
  PROVE  PathInv' /\ ColorsInv' /\ CyclesMatch'
<1>0. edges' = edges
  BY GraphSteps
<1>1. ASSUME UNCHANGED <<verdict, color, visits, roots>>
      PROVE  PathInv' /\ ColorsInv' /\ CyclesMatch'
  BY <1>0, <1>1 DEF PathInv, ColorsInv, CyclesMatch, Circular
<1>2. ASSUME NEW s \in Nodes, MarkNode(s) \/ CompleteNode(s) \/ FailNode(s) \/ SkipNext(s)
      PROVE  PathInv' /\ ColorsInv' /\ CyclesMatch'
  BY <1>1, <1>2 DEF MarkNode, CompleteNode, FailNode, SkipNext, searchVars
<1>3. CASE SkipReturns
  BY <1>1, <1>3 DEF SkipReturns, searchVars
<1>4. ASSUME NEW s \in Nodes, VisitRoot(s)
      PROVE  PathInv' /\ ColorsInv' /\ CyclesMatch'
  <2>1. verdict' = "searching"
    BY <1>4 DEF VisitRoot
  <2> QED
    BY <1>4, <2>1, VisitRootKeeps DEF CyclesMatch
<1>5. ASSUME NEW v \in {"cyclic", "acyclic"}, Answer(v), v = "cyclic" <=> HasCycles(edges)
      PROVE  PathInv' /\ ColorsInv' /\ CyclesMatch'
  <2>1. verdict' = v /\ color' = White /\ visits' = <<>>
    BY <1>5 DEF Answer
  <2>2. \A s \in Nodes : color'[s] = "white"
    BY <2>1 DEF White
  <2> QED
    BY <1>0, <1>5, <2>1, <2>2 DEF PathInv, ColorsInv, CyclesMatch
<1>6. ASSUME NEW s \in Nodes, VisitNext(s)
      PROVE  PathInv' /\ ColorsInv' /\ CyclesMatch'
  <2>1. CASE Meets(s)
    <3>1. HasCycles(edges)
      BY <1>6, <2>1, GrayCloses DEF VisitNext, Meets
    <3> QED
      BY <1>5, <1>6, <2>1, <3>1 DEF VisitNext
  <2>2. CASE ~Meets(s)
    <3>1. visits # <<>> /\ verdict' = verdict
      BY <1>6, <2>2 DEF VisitNext
    <3>2. verdict' = "searching"
      BY <3>1 DEF ColorsInv
    <3> QED
      BY <1>6, <2>2, <3>2, VisitNextKeeps DEF CyclesMatch
  <2> QED
    BY <2>1, <2>2
<1>7. CASE VisitReturns
  <2>1. verdict' = "searching"
    BY <1>7 DEF VisitReturns, ColorsInv
  <2> QED
    BY <1>7, <2>1, VisitReturnsKeeps DEF CyclesMatch
<1>8. CASE AskForCycles
  <2>1. /\ verdict # "searching" /\ verdict' = "searching" /\ roots' = Nodes
        /\ color' = color /\ visits' = visits
    BY <1>8 DEF AskForCycles, Unlocked
  <2>2. color = White /\ visits = <<>>
    BY <2>1 DEF ColorsInv
  <2> QED
    BY <1>0, <2>1, <2>2 DEF PathInv, ColorsInv, CyclesMatch, Circular
<1>9. CASE SearchEnds
  <2>1. \A s \in Nodes : color[s] = "black"
    BY <1>9 DEF SearchEnds, ColorsInv
  <2>2. ~HasCycles(edges)
    <3> SUFFICES ASSUME NEW S \in SUBSET Nodes, S # {}, \A s \in S : edges[s] \cap S # {}
                 PROVE  FALSE
      BY DEF HasCycles, GraphTypes
    <3> QED
      BY <2>1 DEF ColorsInv, Circular
  <2> QED
    BY <1>5, <1>9, <2>2 DEF SearchEnds
<1> QED
  BY <1>2, <1>3, <1>4, <1>6, <1>7, <1>8, <1>9, GraphSteps

LEMMA GraphStutters == GraphInv /\ UNCHANGED dependencyVars => GraphInv'
<1> SUFFICES ASSUME GraphInv, UNCHANGED dependencyVars PROVE GraphInv'
  OBVIOUS
<1> USE DEF dependencyVars, searchVars, GraphInv
<1>1. GraphTypes'
  BY DEF GraphTypes
<1>2. SkipInv'
  <2>1. /\ skips' = skips /\ nodeStatus' = nodeStatus /\ settled' = settled /\ edges' = edges
        /\ Begun' = Begun
    BY DEF Begun
  <2>2. Marked' = Marked /\ Gone' = Gone
    BY <2>1 DEF Marked, Gone
  <2> QED
    BY <2>1, <2>2 DEF SkipInv
<1>3. PathInv'
  BY DEF PathInv
<1>4. ColorsInv' /\ CyclesMatch'
  BY DEF ColorsInv, Circular, CyclesMatch
<1> QED
  BY <1>1, <1>2, <1>3, <1>4

\* GraphInv holds in every state of the two recursions, for a plan of any size and shape.
THEOREM GraphInvariance == DependencySpec => []GraphInv
<1>1. GraphInv /\ [DependencyNext]_dependencyVars => GraphInv'
  <2>1. CASE DependencyNext
    BY <2>1, GraphTypesKept, SkipKept, SearchKept DEF GraphInv
  <2>2. CASE UNCHANGED dependencyVars
    BY <2>2, GraphStutters
  <2> QED
    BY <2>1, <2>2
<1> QED
  BY <1>1, GraphBegins, PTL DEF DependencySpec

\* When Fail's recursion returns it has skipped exactly the unfinished subtasks that wait for
\* the failed one, directly or through others it skipped, in whatever order Go's map ranges
\* gave them (dependency.go:91-115).
THEOREM SkipsReachDependents == DependencySpec => []SkipMatches
<1>1. GraphInv => SkipMatches
  BY SkipsMatch DEF GraphInv
<1> QED
  BY <1>1, GraphInvariance, PTL

\* The search answers "cyclic" exactly for a plan in which some subtasks wait for each other
\* (dependency.go:142-183).
THEOREM CyclesAreFound == DependencySpec => []CyclesMatch
<1>1. GraphInv => CyclesMatch
  BY DEF GraphInv
<1> QED
  BY <1>1, GraphInvariance, PTL

\* Calls for different nodes of a finite set are no more than its nodes.
LEMMA DistinctCalls ==
  ASSUME IsFiniteSet(Nodes), NEW n \in Nat, NEW of \in [1 .. n -> Nodes],
         \A i, j \in 1 .. n : of[i] = of[j] => i = j
  PROVE  n <= Cardinality(Nodes)
<1>1. of \in Injection(1 .. n, Nodes)
  BY DEF Injection, IsInjective
<1>2. Cardinality(1 .. n) <= Cardinality(Nodes)
  BY <1>1, FS_Injection
<1>3. Cardinality(1 .. n) = n
  BY FS_Interval
<1> QED
  BY <1>2, <1>3

\* Neither recursion is ever deeper than the plan has subtasks, a circular plan's included:
\* skipDependents marks a node before its own call for it, and dfs colours it first
\* (dependency.go:106-110, 158-160).
THEOREM RecursionsAreBounded ==
  ASSUME IsFiniteSet(Nodes)
  PROVE  DependencySpec => [](Len(skips) <= Cardinality(Nodes) /\ Len(visits) <= Cardinality(Nodes))
<1>1. GraphInv => Len(skips) <= Cardinality(Nodes)
  <2> SUFFICES ASSUME GraphInv PROVE Len(skips) <= Cardinality(Nodes)
    OBVIOUS
  <2> DEFINE of == [i \in 1 .. Len(skips) |-> skips[i].failed]
  <2>1. Len(skips) \in Nat /\ \A i \in 1 .. Len(skips) : skips[i].failed \in Nodes
    <3>1. skips \in Seq(SkipCall)
      BY DEF GraphInv, GraphTypes
    <3>2. Len(skips) \in Nat /\ \A i \in 1 .. Len(skips) : skips[i] \in SkipCall
      BY <3>1
    <3> QED
      BY <3>2 DEF SkipCall
  <2>2. \A i, j \in 1 .. Len(skips) : skips[i].failed = skips[j].failed => i = j
    <3>1. CASE skips = <<>>
      BY <3>1
    <3>2. CASE skips # <<>>
      BY <3>2 DEF GraphInv, SkipInv
    <3> QED
      BY <3>1, <3>2
  <2>3. of \in [1 .. Len(skips) -> Nodes] /\ \A i, j \in 1 .. Len(skips) : of[i] = of[j] => i = j
    BY <2>1, <2>2
  <2> HIDE DEF of
  <2> QED
    BY <2>1, <2>3, DistinctCalls
<1>2. GraphInv => Len(visits) <= Cardinality(Nodes)
  <2> SUFFICES ASSUME GraphInv PROVE Len(visits) <= Cardinality(Nodes)
    OBVIOUS
  <2> DEFINE of == [i \in 1 .. Len(visits) |-> visits[i].node]
  <2>1. Len(visits) \in Nat /\ \A i \in 1 .. Len(visits) : visits[i].node \in Nodes
    <3>1. visits \in Seq(VisitCall)
      BY DEF GraphInv, GraphTypes
    <3>2. Len(visits) \in Nat /\ \A i \in 1 .. Len(visits) : visits[i] \in VisitCall
      BY <3>1
    <3> QED
      BY <3>2 DEF VisitCall
  <2>2. \A i, j \in 1 .. Len(visits) : visits[i].node = visits[j].node => i = j
    BY DEF GraphInv, PathInv
  <2>3. of \in [1 .. Len(visits) -> Nodes] /\ \A i, j \in 1 .. Len(visits) : of[i] = of[j] => i = j
    BY <2>1, <2>2
  <2> HIDE DEF of
  <2> QED
    BY <2>1, <2>3, DistinctCalls
<1> QED
  BY <1>1, <1>2, GraphInvariance, PTL

\* What Orchestrator takes for one step of the graph: a ready subtask starts, a running one
\* completes or fails.
OneMethod ==
  \E s \in Nodes :
    \/ s \in GetReady(settled, edges) /\ settled' = MarkRunning(settled, s)
    \/ settled[s] = "running" /\ settled' \in {Complete(settled, s), Fail(settled, edges, s)}

\* Fail was called for a subtask that was running.
FailedRan == skips # <<>> => skips[1].failed \in Nodes /\ settled[skips[1].failed] = "running"

LEMMA FailedRanKept ==
  ASSUME GraphTypes, SkipInv, FailedRan, DependencyNext
  PROVE  FailedRan'
<1>1. ASSUME UNCHANGED <<skips, settled>>
      PROVE  FailedRan'
  BY <1>1 DEF FailedRan
<1>2. ASSUME NEW s \in Nodes, MarkNode(s) \/ CompleteNode(s)
      PROVE  FailedRan'
  BY <1>2 DEF MarkNode, CompleteNode, Unlocked, FailedRan
<1>3. ASSUME NEW s \in Nodes, FailNode(s)
      PROVE  FailedRan'
  <2> DEFINE call == [failed |-> s, left |-> Nodes]
  <2>1. /\ settled = nodeStatus /\ settled' = settled /\ nodeStatus[s] = "running"
        /\ skips' = Append(<<>>, call)
    BY <1>3 DEF FailNode, Unlocked, SkipInv, SkipDependents
  <2>2. call.failed = s
    OBVIOUS
  <2> HIDE DEF call
  <2>3. skips'[1] = call
    BY <2>1
  <2> QED
    BY <2>1, <2>2, <2>3 DEF FailedRan
<1>4. ASSUME NEW id \in Nodes, SkipNext(id)
      PROVE  FailedRan'
  <2> DEFINE rest == Passed(skips, id)
             call == [failed |-> id, left |-> Nodes]
  <2>1. skips # <<>> /\ settled' = settled /\ (skips' = rest \/ skips' = Append(rest, call))
    BY <1>4 DEF SkipNext, SkipDependents
  <2>2. rest \in Seq(SkipCall) /\ Len(rest) = Len(skips) /\ 1 \in 1 .. Len(skips)
        /\ rest[1].failed = skips[1].failed
    <3>1. skips \in Seq(SkipCall)
      BY DEF GraphTypes
    <3>2. /\ Len(skips) \in Nat /\ Len(skips) \in 1 .. Len(skips)
          /\ rest \in Seq(SkipCall) /\ Len(rest) = Len(skips)
          /\ \A i \in 1 .. Len(skips) : rest[i].failed = skips[i].failed
      BY <2>1, <3>1, SkipCalls
    <3> HIDE DEF rest
    <3>3. 1 \in 1 .. Len(skips)
      BY <3>2
    <3> QED
      BY <3>2, <3>3
  <2>3. call \in SkipCall
    BY DEF SkipCall
  <2> HIDE DEF rest, call
  <2>4. Append(rest, call)[1] = rest[1]
    BY <2>2, <2>3, Calls
  <2> QED
    BY <2>1, <2>2, <2>4 DEF FailedRan
<1>5. CASE SkipReturns
  <2>1. /\ skips # <<>> /\ skips' = Returned(skips)
        /\ settled' = IF skips' = <<>> THEN nodeStatus ELSE settled
    BY <1>5 DEF SkipReturns
  <2>2. CASE skips' # <<>>
    <3>1. skips'[1] = skips[1]
      BY <2>1, <2>2 DEF Returned, GraphTypes
    <3> QED
      BY <2>1, <2>2, <3>1 DEF FailedRan
  <2>3. CASE skips' = <<>>
    BY <2>3 DEF FailedRan
  <2> QED
    BY <2>2, <2>3
<1>6. ASSUME NEW s \in Nodes, VisitRoot(s) \/ VisitNext(s)
      PROVE  FailedRan'
  BY <1>1, <1>6 DEF VisitRoot, VisitNext
<1>7. CASE AskForCycles \/ VisitReturns \/ SearchEnds
  BY <1>1, <1>7 DEF AskForCycles, VisitReturns, SearchEnds
<1> QED
  BY <1>2, <1>3, <1>4, <1>5, <1>6, <1>7, GraphSteps

LEMMA StepIsOneMethod ==
  ASSUME GraphTypes, SkipInv, FailedRan, DependencyNext, settled' # settled
  PROVE  OneMethod
<1>1. ASSUME NEW s \in Nodes, MarkNode(s) \/ CompleteNode(s)
      PROVE  OneMethod
  BY <1>1 DEF MarkNode, CompleteNode, Unlocked, SkipInv, OneMethod
<1>2. CASE SkipReturns
  <2>1. skips # <<>> /\ Last(skips).left = {} /\ skips' = Returned(skips)
        /\ skips' = <<>> /\ settled' = nodeStatus
    BY <1>2 DEF SkipReturns
  <2>2. Len(skips) = 1
    <3>1. skips[Len(skips)] \in SkipCall
      BY <2>1 DEF GraphTypes
    <3>2. Last(skips).failed \in Nodes
      BY <3>1 DEF Last, SkipCall
    <3>3. Len(skips') = Len(skips) - 1 /\ Len(skips) \in Nat
      BY <2>1, <3>2, SkipCalls DEF GraphTypes
    <3> QED
      BY <2>1, <3>3
  <2>3. nodeStatus = Fail(settled, edges, skips[1].failed)
    BY <2>1, <2>2, SkipsMatch DEF Last, SkipMatches
  <2> QED
    BY <2>1, <2>3 DEF FailedRan, OneMethod
<1>3. ASSUME NEW s \in Nodes, FailNode(s) \/ SkipNext(s) \/ VisitRoot(s) \/ VisitNext(s)
      PROVE  FALSE
  BY <1>3 DEF FailNode, SkipNext, VisitRoot, VisitNext
<1>4. CASE AskForCycles \/ VisitReturns \/ SearchEnds
  BY <1>4 DEF AskForCycles, VisitReturns, SearchEnds
<1> QED
  BY <1>1, <1>2, <1>3, <1>4, GraphSteps

\* Seen from between two methods, the recursions are as Orchestrator has them: the status
\* changes by one operation of DependencyGraph at a time (dependency.go:64-115).
THEOREM MethodsAreAtomic == DependencySpec => [][OneMethod]_settled
<1>1. NewGraph => FailedRan
  BY DEF NewGraph, FailedRan
<1>2. GraphInv /\ FailedRan /\ [DependencyNext]_dependencyVars => FailedRan'
  <2>1. CASE DependencyNext
    BY <2>1, FailedRanKept DEF GraphInv
  <2>2. CASE UNCHANGED dependencyVars
    BY <2>2 DEF dependencyVars, FailedRan
  <2> QED
    BY <2>1, <2>2
<1>3. GraphInv /\ FailedRan /\ [DependencyNext]_dependencyVars => [OneMethod]_settled
  <2>1. CASE DependencyNext
    BY <2>1, StepIsOneMethod DEF GraphInv
  <2>2. CASE UNCHANGED dependencyVars
    BY <2>2 DEF dependencyVars
  <2> QED
    BY <2>1, <2>2
<1> QED
  BY <1>1, <1>2, <1>3, GraphInvariance, PTL DEF DependencySpec
=============================================================================
