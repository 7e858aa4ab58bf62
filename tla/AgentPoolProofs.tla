-------------------------- MODULE AgentPoolProofs --------------------------
(***************************************************************************)
(* Proofs about AgentPool for every set of tasks, callers and agents, all  *)
(* limits and all faults.                                                  *)
(***************************************************************************)
EXTENDS AgentPool, FiniteSetTheorems, TLAPS

-----------------------------------------------------------------------------
(***************************************************************************)
(* Types                                                                   *)
(***************************************************************************)

LEMMA InitType == Init => TypeOK
BY DEF Init, TypeOK

LEMMA SpawnType ==
  ASSUME TypeOK, NEW a \in Agents, SpawnStep(a)
  PROVE  TypeOK'
<1>1. CASE Admit(a)
  BY <1>1 DEF TypeOK, Admit, AdvanceSpawn, SpawnSteps
<1>2. CASE CreateAgentRow(a)
  BY <1>2 DEF TypeOK, CreateAgentRow, AdvanceSpawn, SpawnSteps
<1>3. CASE CreateContainer(a)
  BY <1>3 DEF TypeOK, CreateContainer, AdvanceSpawn, SpawnSteps
<1>4. CASE UpdateAgentContainer(a)
  BY <1>4 DEF TypeOK, UpdateAgentContainer, AdvanceSpawn, SpawnSteps
<1>5. CASE RegisterStream(a)
  BY <1>5 DEF TypeOK, RegisterStream, AdvanceSpawn, SpawnSteps
<1>6. CASE StartContainer(a)
  BY <1>6 DEF TypeOK, StartContainer, AdvanceSpawn, SpawnSteps
<1>7. CASE UndoStart(a)
  BY <1>7 DEF TypeOK, UndoStart, AdvanceSpawn, SpawnSteps
<1>8. CASE Activate(a)
  BY <1>8 DEF TypeOK, Activate, AdvanceSpawn, SpawnSteps, MonitorSteps
<1>9. QED
  BY <1>1, <1>2, <1>3, <1>4, <1>5, <1>6, <1>7, <1>8 DEF SpawnStep

LEMMA MonitorType ==
  ASSUME TypeOK, NEW a \in Agents, MonitorStep(a)
  PROVE  TypeOK'
<1>1. CASE SettleOnExit(a)
  BY <1>1 DEF TypeOK, SettleOnExit, AdvanceMonitor, MonitorSteps, Answers
<1>2. CASE SettleOnError(a)
  BY <1>2 DEF TypeOK, SettleOnError, AdvanceMonitor, MonitorSteps, Answers
<1>3. CASE RemoveContainer(a)
  BY <1>3 DEF TypeOK, RemoveContainer, AdvanceMonitor, MonitorSteps
<1>4. CASE FreeSlot(a)
  BY <1>4 DEF TypeOK, FreeSlot, AdvanceMonitor, MonitorSteps
<1>5. CASE UnregisterStream(a)
  BY <1>5 DEF TypeOK, UnregisterStream, AdvanceMonitor, MonitorSteps
<1>6. CASE CompleteRow(a)
  BY <1>6 DEF TypeOK, CompleteRow, AdvanceMonitor, MonitorSteps
<1>7. CASE SendResult(a)
  BY <1>7 DEF TypeOK, SendResult, AdvanceMonitor
<1>8. QED
  BY <1>1, <1>2, <1>3, <1>4, <1>5, <1>6, <1>7 DEF MonitorStep

LEMMA StepType ==
  ASSUME TypeOK, [Next]_vars
  PROVE  TypeOK'
<1>1. ASSUME NEW a \in Agents, Wait(a)
      PROVE  TypeOK'
  BY <1>1 DEF TypeOK, Wait, Answers
<1>2. ASSUME NEW a \in Agents, Receive(a)
      PROVE  TypeOK'
  BY <1>2 DEF TypeOK, Receive, Answers
<1>3. ASSUME NEW a \in Agents, Terminate(a)
      PROVE  TypeOK'
  BY <1>3 DEF TypeOK, Terminate
<1>4. ASSUME NEW a \in Agents, Exit(a)
      PROVE  TypeOK'
  BY <1>4 DEF TypeOK, Exit
<1>5. ASSUME NEW t \in Stoppable, TerminateTaskAgents(t)
      PROVE  TypeOK'
  BY <1>5 DEF TypeOK, TerminateTaskAgents
<1>6. ASSUME NEW t \in Stoppable, Cancel(t)
      PROVE  TypeOK'
  BY <1>6, PoolAssumption DEF TypeOK, Cancel
<1>7. CASE UNCHANGED vars
  BY <1>7 DEF TypeOK, vars
<1>8. QED
  BY <1>1, <1>2, <1>3, <1>4, <1>5, <1>6, <1>7, SpawnType, MonitorType DEF Next

\* Every variable keeps its type, whatever the limits and the faults.
THEOREM TypeCorrect == Spec => []TypeOK
<1>1. TypeOK /\ [Next]_vars => TypeOK'
  BY StepType
<1>2. QED
  BY InitType, <1>1, PTL DEF Spec
-----------------------------------------------------------------------------
(***************************************************************************)
(* What each stage of Spawn, of the monitor and of a waiter leaves behind  *)
(***************************************************************************)
Ledger == SlotsMatchMonitors /\ CallsLeaveMarks /\ StagesLeaveMarks /\ AnswersAreSent

LEMMA InitLedger == Init => Ledger
BY DEF Init, Ledger, SlotsMatchMonitors, CallsLeaveMarks, StagesLeaveMarks, AnswersAreSent,
       Past, MonitorSteps

LEMMA SpawnLedger ==
  ASSUME TypeOK, Ledger, NEW a \in Agents, SpawnStep(a)
  PROVE  Ledger'
<1> USE DEF TypeOK, Ledger, SlotsMatchMonitors, CallsLeaveMarks, StagesLeaveMarks,
            AnswersAreSent, Past, MonitorSteps, AdvanceSpawn, OrphaningFaults
<1>1. CASE Admit(a)
  BY <1>1 DEF Admit
<1>2. CASE CreateAgentRow(a)
  BY <1>2 DEF CreateAgentRow
<1>3. CASE CreateContainer(a)
  BY <1>3 DEF CreateContainer, MayFail
<1>4. CASE UpdateAgentContainer(a)
  BY <1>4 DEF UpdateAgentContainer
<1>5. CASE RegisterStream(a)
  BY <1>5 DEF RegisterStream
<1>6. CASE StartContainer(a)
  BY <1>6 DEF StartContainer
<1>7. CASE UndoStart(a)
  BY <1>7 DEF UndoStart, MayFail
<1>8. CASE Activate(a)
  BY <1>8 DEF Activate
<1>9. QED
  BY <1>1, <1>2, <1>3, <1>4, <1>5, <1>6, <1>7, <1>8 DEF SpawnStep

LEMMA MonitorLedger ==
  ASSUME TypeOK, Ledger, NEW a \in Agents, MonitorStep(a)
  PROVE  Ledger'
<1> USE DEF TypeOK, Ledger, SlotsMatchMonitors, CallsLeaveMarks, StagesLeaveMarks,
            AnswersAreSent, Past, MonitorSteps, AdvanceMonitor, Answers
<1>1. CASE SettleOnExit(a)
  BY <1>1 DEF SettleOnExit
<1>2. CASE SettleOnError(a)
  BY <1>2 DEF SettleOnError
<1>3. CASE RemoveContainer(a)
  BY <1>3 DEF RemoveContainer
<1>4. CASE FreeSlot(a)
  BY <1>4 DEF FreeSlot
<1>5. CASE UnregisterStream(a)
  BY <1>5 DEF UnregisterStream
<1>6. CASE CompleteRow(a)
  BY <1>6 DEF CompleteRow
<1>7. CASE SendResult(a)
  BY <1>7 DEF SendResult
<1>8. QED
  BY <1>1, <1>2, <1>3, <1>4, <1>5, <1>6, <1>7 DEF MonitorStep

LEMMA StepLedger ==
  ASSUME TypeOK, Ledger, [Next]_vars
  PROVE  Ledger'
<1> USE DEF TypeOK, Ledger, SlotsMatchMonitors, CallsLeaveMarks, StagesLeaveMarks,
            AnswersAreSent, Past, MonitorSteps
<1>1. ASSUME NEW a \in Agents, Wait(a)
      PROVE  Ledger'
  BY <1>1 DEF Wait
<1>2. ASSUME NEW a \in Agents, Receive(a)
      PROVE  Ledger'
  BY <1>2 DEF Receive, ResultSent
<1>3. ASSUME NEW a \in Agents, Terminate(a)
      PROVE  Ledger'
  BY <1>3 DEF Terminate
<1>4. ASSUME NEW a \in Agents, Exit(a)
      PROVE  Ledger'
  BY <1>4 DEF Exit
<1>5. ASSUME NEW t \in Stoppable, TerminateTaskAgents(t)
      PROVE  Ledger'
  BY <1>5 DEF TerminateTaskAgents
<1>6. ASSUME NEW t \in Stoppable, Cancel(t)
      PROVE  Ledger'
  BY <1>6 DEF Cancel
<1>7. CASE UNCHANGED vars
  BY <1>7 DEF vars
<1>8. QED
  BY <1>1, <1>2, <1>3, <1>4, <1>5, <1>6, <1>7, SpawnLedger, MonitorLedger DEF Next

LEMMA LedgerHolds == Spec => [](TypeOK /\ Ledger)
<1>1. Init => TypeOK /\ Ledger
  BY InitType, InitLedger
<1>2. TypeOK /\ Ledger /\ [Next]_vars => (TypeOK /\ Ledger)'
  BY StepType, StepLedger
<1>3. QED
  BY <1>1, <1>2, PTL DEF Spec

\* A success read from Wait is the truth, and everything monitorContainer does
\* before it sends the result is visible to the reader.
THEOREM SuccessSettled == Spec => []SuccessIsSettled
<1>1. TypeOK /\ Ledger => SuccessIsSettled
  BY DEF TypeOK, Ledger, SlotsMatchMonitors, StagesLeaveMarks, AnswersAreSent, Past,
         MonitorSteps, SuccessIsSettled
<1>2. QED
  BY LedgerHolds, <1>1, PTL

\* The slots count the containers: none that Spawn has handed over runs without.
THEOREM RunningHasSlot == Spec => []RunningHoldsSlot
<1>1. TypeOK /\ Ledger => RunningHoldsSlot
  BY DEF TypeOK, Ledger, SlotsMatchMonitors, StagesLeaveMarks, Past, MonitorSteps,
         RunningHoldsSlot
<1>2. QED
  BY LedgerHolds, <1>1, PTL

\* Only a failed call of a cancelled task, or a fault of Docker, orphans a container.
THEOREM OrphansAreExplained == Spec => []OrphansExplained
<1>1. TypeOK /\ Ledger => OrphansExplained
  BY DEF TypeOK, Ledger, SlotsMatchMonitors, CallsLeaveMarks, StagesLeaveMarks, Past,
         MonitorSteps, OrphansExplained, OrphaningFaults
<1>2. QED
  BY LedgerHolds, <1>1, PTL
-----------------------------------------------------------------------------
(***************************************************************************)
(* Counting.  A slot is claimed from the admission check until the monitor *)
(* gives it back; only an admission adds a claim, and it happens below the *)
(* limit, when the calls under way are at most one per caller.             *)
(***************************************************************************)

\* Calls of distinct callers are at most as many as the callers.
LEMMA AtMostOneEach ==
  ASSUME NEW S \in SUBSET Agents, NEW C \in SUBSET Callers,
         \A a \in S : CallerOf[a] \in C,
         \A a, b \in S : CallerOf[a] = CallerOf[b] => a = b
  PROVE  Cardinality(S) <= Cardinality(C)
<1> DEFINE f == [a \in S |-> CallerOf[a]]
<1>1. f \in Injection(S, C)
  BY DEF Injection, IsInjective
<1>2. IsFiniteSet(C)
  BY PoolAssumption, FS_Subset
<1>3. QED
  BY <1>1, <1>2, FS_Injection

\* How a step changes the claims.
LEMMA ClaimStep ==
  ASSUME TypeOK, [Next]_vars, \A a \in Agents : ~Admit(a)
  PROVE  InFlight' \subseteq InFlight /\ Claimed' \subseteq Claimed
<1> USE DEF TypeOK, InFlight, Claimed, SpawnSteps, AdvanceSpawn
<1>1. ASSUME NEW a \in Agents, SpawnStep(a)
      PROVE  InFlight' \subseteq InFlight /\ Claimed' \subseteq Claimed
  <2>1. CASE CreateAgentRow(a)
    BY <2>1 DEF CreateAgentRow
  <2>2. CASE CreateContainer(a)
    BY <2>2 DEF CreateContainer
  <2>3. CASE UpdateAgentContainer(a)
    BY <2>3 DEF UpdateAgentContainer
  <2>4. CASE RegisterStream(a)
    BY <2>4 DEF RegisterStream
  <2>5. CASE StartContainer(a)
    BY <2>5 DEF StartContainer
  <2>6. CASE UndoStart(a)
    BY <2>6 DEF UndoStart
  <2>7. CASE Activate(a)
    BY <2>7 DEF Activate
  <2>8. QED
    BY <1>1, <2>1, <2>2, <2>3, <2>4, <2>5, <2>6, <2>7 DEF SpawnStep
<1>2. ASSUME NEW a \in Agents, MonitorStep(a)
      PROVE  InFlight' \subseteq InFlight /\ Claimed' \subseteq Claimed
  BY <1>2 DEF MonitorStep, SettleOnExit, SettleOnError, RemoveContainer, FreeSlot,
              UnregisterStream, CompleteRow, SendResult
<1>3. ASSUME NEW a \in Agents, Wait(a) \/ Receive(a) \/ Terminate(a) \/ Exit(a)
      PROVE  InFlight' \subseteq InFlight /\ Claimed' \subseteq Claimed
  BY <1>3 DEF Wait, Receive, Terminate, Exit
<1>4. ASSUME NEW t \in Stoppable, TerminateTaskAgents(t) \/ Cancel(t)
      PROVE  InFlight' \subseteq InFlight /\ Claimed' \subseteq Claimed
  BY <1>4 DEF TerminateTaskAgents, Cancel
<1>5. CASE UNCHANGED vars
  BY <1>5 DEF vars
<1>6. QED
  BY <1>1, <1>2, <1>3, <1>4, <1>5 DEF Next

LEMMA StepOneCall ==
  ASSUME TypeOK, OneCallAtATime, [Next]_vars
  PROVE  OneCallAtATime'
<1>1. ASSUME NEW a \in Agents, Admit(a)
      PROVE  OneCallAtATime'
  <2>1. InFlight' = InFlight \cup {a}
    BY <1>1 DEF TypeOK, Admit, InFlight, SpawnSteps, AdvanceSpawn
  <2>2. QED
    BY <1>1, <2>1 DEF OneCallAtATime, Admit
<1>2. CASE \A a \in Agents : ~Admit(a)
  BY <1>2, ClaimStep DEF OneCallAtATime
<1>3. QED
  BY <1>1, <1>2

\* The agents of S that work for task t.
For(t, S) == {a \in S : Task(a) = t}

LEMMA StepClaims ==
  ASSUME TypeOK, OneCallAtATime, ClaimsBounded, [Next]_vars
  PROVE  ClaimsBounded'
<1>1. OneCallAtATime'
  BY StepOneCall
<1>2. IsFiniteSet(Callers) /\ IsFiniteSet(Agents)
  BY PoolAssumption
<1>3. /\ active \subseteq Agents /\ InFlight' \subseteq Agents
      /\ Claimed \subseteq Agents
  BY DEF TypeOK, InFlight, Claimed
<1>4. \A a \in Agents : CallerOf[a] \in Callers
  BY PoolAssumption
<1>5. ASSUME NEW a \in Agents, Admit(a)
      PROVE  ClaimsBounded'
  <2>1. Claimed' = active \cup InFlight' /\ active' = active
    BY <1>5 DEF Admit, Claimed
  <2>2. Cardinality(InFlight') <= Cardinality(Callers)
    BY <1>1, <1>3, <1>4, AtMostOneEach DEF OneCallAtATime
  <2>3. Cardinality(active) \in Nat /\ Cardinality(active) <= MaxAgents - 1
    BY <1>2, <1>3, <1>5, PoolAssumption, FS_Subset, FS_CardinalityType
       DEF Admit, GlobalRoom
  <2>4. Cardinality(Claimed') <= MaxAgents + Cardinality(Callers) - 1
    <3>1. IsFiniteSet(active) /\ IsFiniteSet(InFlight')
      BY <1>2, <1>3, FS_Subset
    <3>2. Cardinality(Claimed')
            = Cardinality(active) + Cardinality(InFlight') - Cardinality(active \cap InFlight')
      BY <2>1, <3>1, FS_Union
    <3>3. /\ Cardinality(active \cap InFlight') \in Nat
          /\ Cardinality(InFlight') \in Nat
          /\ Cardinality(Callers) \in Nat
      BY <1>2, <3>1, FS_Intersection, FS_CardinalityType
    <3>4. QED
      BY <2>2, <2>3, <3>2, <3>3, PoolAssumption
  <2>5. ASSUME NEW c \in Callers
        PROVE  Cardinality(For(TaskOf[c], Claimed'))
                 <= MaxPerTask + Cardinality(CallersOf(TaskOf[c])) - 1
    <3> DEFINE t == TaskOf[c]
    <3>1. CASE Task(a) = t
      <4>1. For(t, Claimed') = For(t, active) \cup For(t, InFlight')
        BY <2>1 DEF For
      <4>2. For(t, InFlight') \in SUBSET Agents /\ CallersOf(t) \in SUBSET Callers
        BY <1>3 DEF For, CallersOf
      <4>3. \A b \in For(t, InFlight') : CallerOf[b] \in CallersOf(t)
        BY <1>3, <1>4 DEF For, CallersOf, Task
      <4>4. \A x, y \in For(t, InFlight') : CallerOf[x] = CallerOf[y] => x = y
        BY <1>1 DEF OneCallAtATime, For
      <4>5. Cardinality(For(t, InFlight')) <= Cardinality(CallersOf(t))
        BY <4>2, <4>3, <4>4, AtMostOneEach
      <4>6. /\ IsFiniteSet(For(t, active)) /\ IsFiniteSet(For(t, InFlight'))
            /\ IsFiniteSet(CallersOf(t))
        <5>1. For(t, active) \in SUBSET Agents
          BY <1>3 DEF For
        <5>2. QED
          BY <1>2, <4>2, <5>1, FS_Subset
      <4>7. Cardinality(For(t, active)) <= MaxPerTask - 1
        <5>1. For(t, active) = {b \in active : Task(b) = Task(a)}
          BY <3>1 DEF For
        <5>2. Cardinality(For(t, active)) < MaxPerTask
          BY <1>5, <5>1 DEF Admit, TaskRoom
        <5>3. QED
          BY <4>6, <5>2, PoolAssumption, FS_CardinalityType
      <4>8. Cardinality(For(t, Claimed'))
              = Cardinality(For(t, active)) + Cardinality(For(t, InFlight'))
                  - Cardinality(For(t, active) \cap For(t, InFlight'))
        BY <4>1, <4>6, FS_Union
      <4>9. /\ Cardinality(For(t, active) \cap For(t, InFlight')) \in Nat
            /\ Cardinality(For(t, active)) \in Nat
            /\ Cardinality(For(t, InFlight')) \in Nat
            /\ Cardinality(CallersOf(t)) \in Nat
        BY <4>6, FS_Intersection, FS_CardinalityType
      <4>10. QED
        BY <4>5, <4>7, <4>8, <4>9, PoolAssumption
    <3>2. CASE Task(a) # t
      <4>1. Claimed' = Claimed \cup {a}
        BY <1>5 DEF TypeOK, Claimed, InFlight, Admit, AdvanceSpawn, SpawnSteps
      <4>2. For(t, Claimed') = For(t, Claimed)
        BY <3>2, <4>1 DEF For
      <4>3. QED
        BY <4>2 DEF ClaimsBounded, For
    <3>3. QED
      BY <3>1, <3>2
  <2>6. QED
    BY <2>4, <2>5 DEF ClaimsBounded, For, CallersOf, Task
<1>6. CASE \A a \in Agents : ~Admit(a)
  <2>1. Claimed' \subseteq Claimed
    BY <1>6, ClaimStep
  <2>2. IsFiniteSet(Claimed)
    BY <1>2, <1>3, FS_Subset
  <2>3. Cardinality(Claimed') <= Cardinality(Claimed)
    BY <2>1, <2>2, FS_Subset
  <2>4. ASSUME NEW c \in Callers
        PROVE  Cardinality(For(TaskOf[c], Claimed')) <= Cardinality(For(TaskOf[c], Claimed))
    <3>1. For(TaskOf[c], Claimed') \in SUBSET For(TaskOf[c], Claimed)
      BY <2>1 DEF For
    <3>2. For(TaskOf[c], Claimed) \in SUBSET Claimed
      BY DEF For
    <3>3. IsFiniteSet(For(TaskOf[c], Claimed))
      BY <2>2, <3>2, FS_Subset
    <3>4. QED
      BY <3>1, <3>3, FS_Subset
  <2>5. \A S \in SUBSET Agents : Cardinality(S) \in Nat
    BY <1>2, FS_Subset, FS_CardinalityType
  <2>6. \A C \in SUBSET Callers : Cardinality(C) \in Nat
    BY <1>2, FS_Subset, FS_CardinalityType
  <2>7. Claimed \in SUBSET Agents /\ Claimed' \in SUBSET Agents
    BY <1>3, <2>1
  <2>8. Cardinality(Claimed') <= MaxAgents + Cardinality(Callers) - 1
    <3>1. Cardinality(Claimed) <= MaxAgents + Cardinality(Callers) - 1
      BY DEF ClaimsBounded
    <3>2. QED
      BY <2>3, <2>5, <2>6, <2>7, <3>1, PoolAssumption
  <2>9. ASSUME NEW c \in Callers
        PROVE  Cardinality(For(TaskOf[c], Claimed'))
                 <= MaxPerTask + Cardinality(CallersOf(TaskOf[c])) - 1
    <3>1. Cardinality(For(TaskOf[c], Claimed))
            <= MaxPerTask + Cardinality(CallersOf(TaskOf[c])) - 1
      BY DEF ClaimsBounded, For
    <3>2. /\ For(TaskOf[c], Claimed) \in SUBSET Agents
          /\ For(TaskOf[c], Claimed') \in SUBSET Agents
          /\ CallersOf(TaskOf[c]) \in SUBSET Callers
      BY <2>7 DEF For, CallersOf
    <3>3. QED
      BY <2>4, <2>5, <2>6, <3>1, <3>2, PoolAssumption
  <2>10. QED
    BY <2>8, <2>9 DEF ClaimsBounded, For, CallersOf, Task
<1>7. QED
  BY <1>5, <1>6

LEMMA InitClaims == Init => OneCallAtATime /\ ClaimsBounded
<1> SUFFICES ASSUME Init
             PROVE  OneCallAtATime /\ ClaimsBounded
  OBVIOUS
<1>1. InFlight = {} /\ Claimed = {}
  BY DEF Init, InFlight, Claimed, SpawnSteps
<1>2. Cardinality({}) = 0
  BY FS_EmptySet
<1>3. \A C \in SUBSET Callers : Cardinality(C) \in Nat
  BY PoolAssumption, FS_Subset, FS_CardinalityType
<1>4. ASSUME NEW c \in Callers
      PROVE  /\ {a \in Claimed : Task(a) = TaskOf[c]} = {}
             /\ CallersOf(TaskOf[c]) \in SUBSET Callers
  BY <1>1 DEF CallersOf
<1>5. QED
  BY <1>1, <1>2, <1>3, <1>4, PoolAssumption DEF OneCallAtATime, ClaimsBounded

\* The inductive invariant of the pool.
THEOREM PoolInvariant == Spec => []PoolInv
<1>1. Init => TypeOK /\ Ledger /\ OneCallAtATime /\ ClaimsBounded
  BY InitType, InitLedger, InitClaims
<1>2. TypeOK /\ Ledger /\ OneCallAtATime /\ ClaimsBounded /\ [Next]_vars
        => (TypeOK /\ Ledger /\ OneCallAtATime /\ ClaimsBounded)'
  BY StepType, StepLedger, StepOneCall, StepClaims
<1>3. TypeOK /\ Ledger /\ OneCallAtATime /\ ClaimsBounded => PoolInv
  BY DEF PoolInv, Ledger
<1>4. QED
  BY <1>1, <1>2, <1>3, PTL DEF Spec

LEMMA SubsetBound ==
  ASSUME NEW S \in SUBSET Agents, NEW T \in SUBSET S
  PROVE  /\ Cardinality(S) \in Nat /\ Cardinality(T) \in Nat
         /\ Cardinality(T) <= Cardinality(S)
BY PoolAssumption, FS_Subset, FS_CardinalityType

LEMMA CallersCount ==
  ASSUME NEW C \in SUBSET Callers
  PROVE  Cardinality(C) \in Nat
BY PoolAssumption, FS_Subset, FS_CardinalityType

\* Whatever the number of agents and tasks, the global limit is passed by less
\* than the number of goroutines that spawn: exactly kept by a lone spawner.
THEOREM Overshoot == Spec => []OvershootBound
<1>1. PoolInv => OvershootBound
  <2> SUFFICES ASSUME PoolInv
               PROVE  OvershootBound
    OBVIOUS
  <2>1. Claimed \in SUBSET Agents /\ active \in SUBSET Claimed
    BY DEF PoolInv, TypeOK, Claimed, InFlight
  <2>2. Cardinality(Claimed) <= MaxAgents + Cardinality(Callers) - 1
    BY DEF PoolInv, ClaimsBounded
  <2>3. QED
    BY <2>1, <2>2, SubsetBound, CallersCount, PoolAssumption DEF OvershootBound
<1>2. QED
  BY PoolInvariant, <1>1, PTL

\* The limit of a task is passed by less than the number of goroutines that
\* spawn for it; one orchestrator alone never passes it.
THEOREM PerTask == Spec => []PerTaskBound
<1>1. PoolInv => PerTaskBound
  <2> SUFFICES ASSUME PoolInv, NEW t \in Tasks, ActiveOf(t) # {}
               PROVE  Cardinality(ActiveOf(t)) <= MaxPerTask + Cardinality(CallersOf(t)) - 1
    BY DEF PerTaskBound
  <2>1. active \subseteq Agents
    BY DEF PoolInv, TypeOK
  <2>2. PICK a \in active : Task(a) = t
    BY DEF ActiveOf
  <2>3. CallerOf[a] \in Callers /\ TaskOf[CallerOf[a]] = t
    BY <2>1, <2>2, PoolAssumption DEF Task
  <2>4. Cardinality({b \in Claimed : Task(b) = t}) <= MaxPerTask + Cardinality(CallersOf(t)) - 1
    BY <2>3 DEF PoolInv, ClaimsBounded
  <2>5. /\ {b \in Claimed : Task(b) = t} \in SUBSET Agents
        /\ ActiveOf(t) \in SUBSET {b \in Claimed : Task(b) = t}
        /\ CallersOf(t) \in SUBSET Callers
    BY <2>1 DEF Claimed, InFlight, ActiveOf, CallersOf
  <2>6. QED
    BY <2>4, <2>5, SubsetBound, CallersCount, PoolAssumption
<1>2. QED
  BY PoolInvariant, <1>1, PTL
-----------------------------------------------------------------------------
(***************************************************************************)
(* The pool implements AgentHandles.  Activate launches a handle, FreeSlot *)
(* ends it, Wait listens, Receive delivers; nothing else shows.            *)
(***************************************************************************)

Ended == {"freed", "unregistered", "recorded", "done"}

\* A step that keeps what HandleOf and HeardOf read stutters on the handles.
LEMMA HandlesStutter ==
  ASSUME active' = active, wait' = wait,
         \A a \in Agents :
           \/ a \in active
           \/ /\ result'[a] = result[a]
              /\ monitor'[a] \in Ended <=> monitor[a] \in Ended
  PROVE  UNCHANGED Handles!handleVars
<1>1. \A a \in Agents : HandleOf(a)' = HandleOf(a) /\ HeardOf(a)' = HeardOf(a)
  BY DEF HandleOf, HeardOf, Ended
<1>2. QED
  BY <1>1 DEF Handles!handleVars

LEMMA ActivateLaunches ==
  ASSUME TypeOK, Ledger, NEW a \in Agents, Activate(a)
  PROVE  Handles!Launch(a)
<1>1. HandleOf(a) = "unborn" /\ HandleOf(a)' = "live"
  BY DEF Activate, AdvanceSpawn, HandleOf, Ledger, SlotsMatchMonitors, TypeOK
<1>2. \A b \in Agents \ {a} : HandleOf(b)' = HandleOf(b)
  BY DEF Activate, HandleOf, TypeOK
<1>3. \A b \in Agents : HeardOf(b)' = HeardOf(b)
  BY DEF Activate, HeardOf
<1>4. QED
  BY <1>1, <1>2, <1>3 DEF Handles!Launch

LEMMA FreeSlotFinishes ==
  ASSUME TypeOK, Ledger, NEW a \in Agents, FreeSlot(a)
  PROVE  \E outcome \in Handles!Outcomes : Handles!Finish(a, outcome)
<1> DEFINE outcome == IF result[a] = "success" THEN "won" ELSE "lost"
<1>1. HandleOf(a) = "live" /\ HandleOf(a)' = outcome
  BY DEF FreeSlot, AdvanceMonitor, HandleOf, Ledger, SlotsMatchMonitors, TypeOK
<1>2. \A b \in Agents \ {a} : HandleOf(b)' = HandleOf(b)
  BY DEF FreeSlot, AdvanceMonitor, HandleOf, TypeOK
<1>3. \A b \in Agents : HeardOf(b)' = HeardOf(b)
  BY DEF FreeSlot, HeardOf
<1>4. outcome \in Handles!Outcomes
  BY DEF Handles!Outcomes
<1>5. Handles!Finish(a, outcome)
  BY <1>1, <1>2, <1>3 DEF Handles!Finish
<1>6. QED
  BY <1>4, <1>5

LEMMA WaitListens ==
  ASSUME TypeOK, Ledger, NEW a \in Agents, Wait(a)
  PROVE  Handles!Listen(a)
<1>1. HandleOf(a) # "unborn" /\ (HandleOf(a) = "live" <=> a \in active)
  BY DEF Wait, HandleOf, Ledger, SlotsMatchMonitors, TypeOK, MonitorSteps
<1>2. \A b \in Agents : HandleOf(b)' = HandleOf(b)
  BY DEF Wait, HandleOf
<1>3. /\ HeardOf(a) = "nothing"
      /\ HeardOf(a)' = IF a \in active THEN "attached" ELSE "lost"
  BY DEF Wait, HeardOf, TypeOK
<1>4. \A b \in Agents \ {a} : HeardOf(b)' = HeardOf(b)
  BY DEF Wait, HeardOf, TypeOK
<1>5. QED
  BY <1>1, <1>2, <1>3, <1>4 DEF Handles!Listen

LEMMA ReceiveDelivers ==
  ASSUME TypeOK, Ledger, NEW a \in Agents, Receive(a)
  PROVE  Handles!Deliver(a)
<1>1. HandleOf(a) = IF result[a] = "success" THEN "won" ELSE "lost"
  BY DEF Receive, ResultSent, HandleOf, Ledger, SlotsMatchMonitors, TypeOK
<1>2. \A b \in Agents : HandleOf(b)' = HandleOf(b)
  BY DEF Receive, HandleOf
<1>3. result[a] \in Answers
  BY DEF Receive, ResultSent, Ledger, StagesLeaveMarks, Past
<1>4. HeardOf(a) = "attached" /\ HeardOf(a)' = HandleOf(a)
  BY <1>1, <1>3 DEF Receive, HeardOf, TypeOK, Answers
<1>5. \A b \in Agents \ {a} : HeardOf(b)' = HeardOf(b)
  BY DEF Receive, HeardOf, TypeOK
<1>6. QED
  BY <1>1, <1>2, <1>4, <1>5 DEF Handles!Deliver, Handles!Outcomes

LEMMA StepHandles ==
  ASSUME TypeOK, Ledger, [Next]_vars
  PROVE  [Handles!HandlesNext]_(Handles!handleVars)
<1>1. ASSUME NEW a \in Agents, SpawnStep(a), ~Activate(a)
      PROVE  UNCHANGED Handles!handleVars
  <2>1. active' = active /\ wait' = wait /\ result' = result /\ monitor' = monitor
    BY <1>1 DEF SpawnStep, Admit, CreateAgentRow, CreateContainer, UpdateAgentContainer,
                RegisterStream, StartContainer, UndoStart
  <2>2. QED
    BY <2>1, HandlesStutter
<1>2. ASSUME NEW a \in Agents, MonitorStep(a), ~FreeSlot(a)
      PROVE  UNCHANGED Handles!handleVars
  <2>1. active' = active /\ wait' = wait
    BY <1>2 DEF MonitorStep, SettleOnExit, SettleOnError, RemoveContainer,
                UnregisterStream, CompleteRow, SendResult
  <2>2. ASSUME NEW b \in Agents, b \notin active
        PROVE  result'[b] = result[b] /\ (monitor'[b] \in Ended <=> monitor[b] \in Ended)
    BY <1>2, <2>2 DEF MonitorStep, SettleOnExit, SettleOnError, RemoveContainer,
                UnregisterStream, CompleteRow, SendResult, AdvanceMonitor, Ended,
                TypeOK, Ledger, SlotsMatchMonitors
  <2>3. QED
    BY <2>1, <2>2, HandlesStutter
<1>3. ASSUME NEW a \in Agents, Terminate(a) \/ Exit(a)
      PROVE  UNCHANGED Handles!handleVars
  BY <1>3, HandlesStutter DEF Terminate, Exit
<1>4. ASSUME NEW t \in Stoppable, TerminateTaskAgents(t) \/ Cancel(t)
      PROVE  UNCHANGED Handles!handleVars
  BY <1>4, HandlesStutter DEF TerminateTaskAgents, Cancel
<1>5. CASE UNCHANGED vars
  BY <1>5, HandlesStutter DEF vars
<1>6. ASSUME NEW a \in Agents, Activate(a) \/ FreeSlot(a) \/ Wait(a) \/ Receive(a)
      PROVE  Handles!HandlesNext
  BY <1>6, ActivateLaunches, FreeSlotFinishes, WaitListens, ReceiveDelivers
     DEF Handles!HandlesNext
<1>7. QED
  BY <1>1, <1>2, <1>3, <1>4, <1>5, <1>6 DEF Next

LEMMA InitHandles == Init => Handles!HandlesInit
BY DEF Init, Handles!HandlesInit, HandleOf, HeardOf

\* What the orchestrator, the planner and the reviewer rely on is what the pool
\* does, step for step.
THEOREM PoolImplementsHandles == Spec => ImplementsHandles
<1>1. TypeOK /\ Ledger /\ [Next]_vars => [Handles!HandlesNext]_(Handles!handleVars)
  BY StepHandles
<1>2. QED
  BY InitHandles, LedgerHolds, <1>1, PTL DEF Spec, ImplementsHandles, Handles!HandlesSpec
-----------------------------------------------------------------------------
(***************************************************************************)
(* The safety half of SlotsReturn and WaitersAnswered: what a monitor and  *)
(* a waiter wait for can come.                                             *)
(***************************************************************************)
\* A container that was started, and whose monitor has yet to settle, is there: it runs or has
\* exited.  Whoever waits on a channel has a monitor that will send on it, and what is sent
\* is an answer.
ExitsCanBeSeen ==
  \A a \in Agents :
    /\ spawn[a] = "started" \/ monitor[a] = "watching" => container[a] \in {"running", "exited"}
    /\ container[a] = "exited" => exit[a] # "none"
    /\ wait[a] = "attached" => monitor[a] # "none"
    /\ monitor[a] = "done" => result[a] \in Answers

LEMMA StepExits ==
  ASSUME TypeOK, Ledger, ExitsCanBeSeen, [Next]_vars
  PROVE  ExitsCanBeSeen'
<1> USE DEF TypeOK, ExitsCanBeSeen, SlotsMatchMonitors
<1>1. ASSUME NEW a \in Agents, SpawnStep(a)
      PROVE  ExitsCanBeSeen'
  <2> USE DEF AdvanceSpawn
  <2>1. CASE Admit(a)
    BY <2>1 DEF Admit
  <2>2. CASE CreateAgentRow(a)
    BY <2>2 DEF CreateAgentRow
  <2>3. CASE CreateContainer(a)
    BY <2>3 DEF CreateContainer, Ledger
  <2>4. CASE UpdateAgentContainer(a)
    BY <2>4 DEF UpdateAgentContainer
  <2>5. CASE RegisterStream(a)
    BY <2>5 DEF RegisterStream
  <2>6. CASE StartContainer(a)
    BY <2>6 DEF StartContainer, Ledger
  <2>7. CASE UndoStart(a)
    BY <2>7 DEF UndoStart, Ledger
  <2>8. CASE Activate(a)
    BY <2>8 DEF Activate
  <2> QED
    BY <1>1, <2>1, <2>2, <2>3, <2>4, <2>5, <2>6, <2>7, <2>8 DEF SpawnStep
<1>2. ASSUME NEW a \in Agents, MonitorStep(a)
      PROVE  ExitsCanBeSeen'
  <2> USE DEF AdvanceMonitor
  <2>1. CASE SettleOnExit(a)
    BY <2>1 DEF SettleOnExit
  <2>2. CASE SettleOnError(a)
    BY <2>2 DEF SettleOnError
  <2>3. CASE RemoveContainer(a)
    BY <2>3 DEF RemoveContainer, Ledger
  <2>4. CASE FreeSlot(a)
    BY <2>4 DEF FreeSlot
  <2>5. CASE UnregisterStream(a)
    BY <2>5 DEF UnregisterStream
  <2>6. CASE CompleteRow(a)
    BY <2>6 DEF CompleteRow
  <2>7. CASE SendResult(a)
    BY <2>7 DEF SendResult, Ledger, StagesLeaveMarks, Past, MonitorSteps
  <2> QED
    BY <1>2, <2>1, <2>2, <2>3, <2>4, <2>5, <2>6, <2>7 DEF MonitorStep
<1>3. ASSUME NEW a \in Agents, Wait(a)
      PROVE  ExitsCanBeSeen'
  BY <1>3 DEF Wait, Ledger
<1>4. ASSUME NEW a \in Agents, Receive(a)
      PROVE  ExitsCanBeSeen'
  BY <1>4 DEF Receive, ResultSent, Answers
<1>5. ASSUME NEW a \in Agents, Terminate(a)
      PROVE  ExitsCanBeSeen'
  BY <1>5 DEF Terminate
<1>6. ASSUME NEW a \in Agents, Exit(a)
      PROVE  ExitsCanBeSeen'
  BY <1>6 DEF Exit
<1>7. ASSUME NEW t \in Stoppable, TerminateTaskAgents(t) \/ Cancel(t)
      PROVE  ExitsCanBeSeen'
  BY <1>7 DEF TerminateTaskAgents, Cancel
<1>8. CASE UNCHANGED vars
  BY <1>8 DEF vars
<1> QED
  BY <1>1, <1>2, <1>3, <1>4, <1>5, <1>6, <1>7, <1>8 DEF Next

\* No monitor waits for a container that was never started, or that somebody has removed, and no
\* caller on a channel nobody will send on (pool.go:193-264, 364-374).
THEOREM WaitsCanEnd == Spec => []ExitsCanBeSeen
<1>1. Init => ExitsCanBeSeen
  BY DEF Init, ExitsCanBeSeen
<1>2. TypeOK /\ Ledger /\ ExitsCanBeSeen /\ [Next]_vars => ExitsCanBeSeen'
  BY StepExits
<1> QED
  BY <1>1, <1>2, LedgerHolds, PTL DEF Spec
=============================================================================
