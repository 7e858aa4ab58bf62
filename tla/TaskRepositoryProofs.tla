------------------------- MODULE TaskRepositoryProofs -------------------------
(***************************************************************************)
(* Theorems about TaskRepository, for any number of tasks and executions,  *)
(* any settings and any faults.                                            *)
(***************************************************************************)
EXTENDS TaskRepository, TLAPS

Others == <<"others", 0>>
Commits == Runs \cup {Others}
Clones ==
  {NoClone} \cup {c \in [head : Branches, refs : UNION {[B -> SUBSET Commits] : B \in SUBSET Branches}] :
                    c.head \in DOMAIN c.refs}

PostExecutionSteps == {"committing", "pushing", "opening"}
ExecutionSteps == {"off", "launched", "executing", "checking", "completing", "leaving", "over"} \cup PostExecutionSteps

TypeOK ==
  /\ row \in [Tasks -> {"none", "created", "planning", "planned", "running", "paused", "completed", "failed"}]
  /\ config \in [Tasks -> Config]
  /\ clone \in [Tasks -> Clones] /\ dirty \in [Tasks -> BOOLEAN]
  /\ saved \in [Tasks -> [clone : Clones, dirty : BOOLEAN]]
  /\ remote \in [Branches -> SUBSET Commits]
  /\ planner \in [Tasks -> {"off", "started", "cloned", "analysed", "ready"}]
  /\ at \in [Runs -> ExecutionSteps]

\* A commit is in a branch of the host, of a workspace or of a checkpoint.
InSome(refs, c) == \E b \in DOMAIN refs : c \in refs[b]
IsSomewhere(c) ==
  \/ InSome(remote, c)
  \/ \E t \in Tasks : InSome(clone[t].refs, c) \/ InSome(saved[t].clone.refs, c)

\* A commit is made at one step of the execution it is named by.
CommittedSteps == {"pushing", "opening", "completing", "leaving", "over"}
CommitsAreMade == \A r \in Runs : IsSomewhere(r) => at[r] \in CommittedSteps

\* What is executed has been planned, and what has been planned has been cloned.
IsPlanned(t) ==
  \/ planner[t] \in {"cloned", "analysed", "ready"}
  \/ row[t] \in {"planned", "running", "paused", "completed"}
  \/ t \in stop \/ \E k \in 1 .. MaxRuns[t] : at[<<t, k>>] # "off"

WorkIsCloned ==
  \A t \in Tasks :
    /\ row[t] = "none" => clone[t] = NoClone
    /\ row[t] \in {"none", "created"} => planner[t] = "off" /\ saved[t] = NoSnapshot
    /\ IsPlanned(t) => row[t] \notin {"none", "created"} /\ clone[t] # NoClone

\* A checkpoint has the branches the workspace has, with no more in them.
SavedIsOlder ==
  \A t \in Tasks :
    saved[t] # NoSnapshot =>
      /\ saved[t].clone # NoClone /\ clone[t] # NoClone
      /\ saved[t].clone.head = HeadOf(t)
      /\ DOMAIN saved[t].clone.refs = DOMAIN clone[t].refs
      /\ \A b \in DOMAIN clone[t].refs : saved[t].clone.refs[b] \subseteq clone[t].refs[b]

\* A task that works on the base branch wants to, or had no choice.
OnBase(t) == ~config[t].autoBranch \/ t \in unbranched
HeadsAreRight == \A t \in Tasks : HeadOf(t) = Base => OnBase(t)

\* The commits that may be on a base branch.
MayBeOnBase(c) == c \in merged \/ c = Others \/ OnBase(c[1])

BaseOf(refs) == IF Base \in DOMAIN refs THEN refs[Base] ELSE {}
IsOnBase(c) ==
  \/ c \in remote[Base]
  \/ \E t \in Tasks : c \in BaseOf(clone[t].refs) \/ c \in BaseOf(saved[t].clone.refs)
BaseIsClean == \A c \in Commits : IsOnBase(c) => MayBeOnBase(c)

\* Who is cancelled in the post-execution was cut short.
CancelledIsCut ==
  \A r \in Runs : r \in cancelled /\ at[r] \in PostExecutionSteps \cup {"checking"} => Task(r) \in cutShort

\* A commit was pushed and offered, or its execution is still to come to it.
PublishedOrUnderWay ==
  \A r \in Runs :
    LET t == Task(r) IN
      t \notin reported \cup cutShort /\ clone[t] # NoClone /\ config[t].autoCommit /\ r \in History(t) =>
        /\ config[t].autoPush => r \in remote[HeadOf(t)] \/ at[r] = "pushing"
        /\ config[t].autoPR => HeadOf(t) \in offered \/ at[r] \in {"pushing", "opening"}

RepositoryInv ==
  /\ TypeOK /\ CommitsAreMade /\ WorkIsCloned /\ SavedIsOlder /\ HeadsAreRight /\ BaseIsClean
  /\ CancelledIsCut /\ PublishedOrUnderWay
-----------------------------------------------------------------------------
\* An execution is of a task.
LEMMA RunsAreOfTasks ==
  ASSUME NEW r \in Runs
  PROVE  Task(r) \in Tasks /\ r = <<Task(r), r[2]>> /\ r[2] \in 1 .. MaxRuns[Task(r)] /\ r # Others
BY RepositoryAssumption DEF Runs, Task, Others

LEMMA RunsOf ==
  ASSUME NEW t \in Tasks, NEW k \in 1 .. MaxRuns[t]
  PROVE  <<t, k>> \in Runs /\ Task(<<t, k>>) = t
BY DEF Runs, Task

\* No clone is a clone, and not one with a branch.
LEMMA NoCloneIsNone ==
  /\ NoClone \in Clones /\ NoClone.head = "none" /\ DOMAIN NoClone.refs = {}
  /\ NoSnapshot \in [clone : Clones, dirty : BOOLEAN] /\ NoSnapshot.clone = NoClone
  /\ "none" \notin Branches /\ Base \notin Tasks
  /\ \A c \in Clones : c = NoClone \/ (c.head \in DOMAIN c.refs /\ c.head \in Branches)
  /\ \A c \in Clones : \A b \in DOMAIN c.refs : b \in Branches /\ c.refs[b] \subseteq Commits
<1>1. DOMAIN NoClone.refs = {}
  BY DEF NoClone
<1>2. "none" \notin Branches /\ Base \notin Tasks
  BY RepositoryAssumption DEF Branches, Base
<1>3. \A c \in Clones : \A b \in DOMAIN c.refs : b \in Branches /\ c.refs[b] \subseteq Commits
  BY <1>1 DEF Clones
<1> QED BY <1>1, <1>2, <1>3 DEF NoClone, NoSnapshot, Clones

\* The steps of the post-execution that are wanted come in their order.
LEMMA StepsInOrder ==
  ASSUME NEW t \in Tasks
  PROVE  /\ StepFrom(t, 3) = IF config[t].autoPR THEN "opening" ELSE "completing"
         /\ StepFrom(t, 2) = IF config[t].autoPush THEN "pushing" ELSE StepFrom(t, 3)
         /\ StepFrom(t, 1) = IF config[t].autoCommit THEN "committing" ELSE StepFrom(t, 2)
<1> DEFINE Left(i) == {j \in i .. 3 : Wanted(t)[PostSteps[j]]}
<1>1. PostSteps[1] = "committing" /\ PostSteps[2] = "pushing" /\ PostSteps[3] = "opening"
  BY DEF PostSteps
<1>2. /\ Wanted(t)["committing"] = config[t].autoCommit
      /\ Wanted(t)["pushing"] = config[t].autoPush
      /\ Wanted(t)["opening"] = config[t].autoPR
  BY DEF Wanted
<1>3. Left(3) = IF config[t].autoPR THEN {3} ELSE {}
  BY <1>1, <1>2
<1>4. Left(2) = (IF config[t].autoPush THEN {2} ELSE {}) \cup Left(3)
  BY <1>1, <1>2
<1>5. Left(1) = (IF config[t].autoCommit THEN {1} ELSE {}) \cup Left(2)
  BY <1>1, <1>2
<1> HIDE DEF Left
<1>6. ASSUME NEW i \in 1 .. 3, NEW S \in SUBSET (i .. 3), i \in S
      PROVE  (CHOOSE j \in S : \A l \in S : j <= l) = i
  <2>1. \A l \in S : i <= l
    OBVIOUS
  <2>2. \A j \in S : (\A l \in S : j <= l) => j = i
    BY <1>6, <2>1
  <2> QED BY <1>6, <2>1, <2>2
<1>7. \A i \in 1 .. 3 : StepFrom(t, i) = IF Left(i) = {} THEN "completing"
                                         ELSE PostSteps[CHOOSE j \in Left(i) : \A l \in Left(i) : j <= l]
  BY DEF StepFrom, Left
<1>8. StepFrom(t, 3) = IF config[t].autoPR THEN "opening" ELSE "completing"
  BY <1>1, <1>3, <1>6, <1>7
<1>9. StepFrom(t, 2) = IF config[t].autoPush THEN "pushing" ELSE StepFrom(t, 3)
  <2>1. CASE config[t].autoPush
    BY <2>1, <1>1, <1>3, <1>4, <1>6, <1>7
  <2>2. CASE ~config[t].autoPush
    BY <2>2, <1>4, <1>7
  <2> QED BY <2>1, <2>2
<1>10. StepFrom(t, 1) = IF config[t].autoCommit THEN "committing" ELSE StepFrom(t, 2)
  <2>1. CASE config[t].autoCommit
    BY <2>1, <1>1, <1>3, <1>4, <1>5, <1>6, <1>7
  <2>2. CASE ~config[t].autoCommit
    BY <2>2, <1>5, <1>7
  <2> QED BY <2>1, <2>2
<1> QED BY <1>8, <1>9, <1>10

\* A commit goes to the branch that is checked out.
LEMMA CommitGoesToHead ==
  ASSUME TypeOK, NEW r \in Runs, CommitAll(r)
  PROVE  LET t == Task(r) IN
           /\ clone' \in [Tasks -> Clones]
           /\ \A u \in Tasks \ {t} : clone'[u] = clone[u]
           /\ clone'[t].head = HeadOf(t) /\ DOMAIN clone'[t].refs = DOMAIN clone[t].refs
           /\ clone[t] # NoClone <=> clone'[t] # NoClone
           /\ \A b \in DOMAIN clone[t].refs :
                clone'[t].refs[b] = clone[t].refs[b] \cup (IF b = HeadOf(t) THEN {r} ELSE {})
<1> DEFINE t == Task(r)
           old == clone[t]
           newRefs == [old.refs EXCEPT ![old.head] = old.refs[old.head] \cup {r}]
           new == [old EXCEPT !.refs = newRefs]
<1>1. t \in Tasks /\ old \in Clones /\ r \in Commits
  BY RunsAreOfTasks DEF TypeOK, Commits
<1>2. clone' = [clone EXCEPT ![t] = new]
  BY DEF CommitAll, HeadOf
<1>3. new.head = old.head /\ new.refs = newRefs
  <2>1. old = [head |-> old.head, refs |-> old.refs]
    BY <1>1 DEF Clones, NoClone
  <2> QED BY <2>1
<1>4. DOMAIN new.refs = DOMAIN old.refs
  BY <1>3
<1>5. \A b \in DOMAIN old.refs : new.refs[b] = old.refs[b] \cup (IF b = old.head THEN {r} ELSE {})
  BY <1>3
<1>6. new \in Clones /\ (old # NoClone <=> new # NoClone)
  <2>1. CASE old = NoClone
    <3>1. new.refs = <<>>
      BY <2>1, <1>3, <1>4, NoCloneIsNone DEF NoClone
    <3>2. new = NoClone
      BY <2>1, <1>3, <3>1 DEF NoClone
    <3> QED BY <2>1, <3>2, NoCloneIsNone
  <2>2. CASE old # NoClone
    <3>1. old \in [head : Branches, refs : UNION {[B -> SUBSET Commits] : B \in SUBSET Branches}]
      BY <1>1, <2>2 DEF Clones
    <3>2. old.head \in DOMAIN old.refs
      BY <1>1, <2>2 DEF Clones
    <3>3. PICK B \in SUBSET Branches : old.refs \in [B -> SUBSET Commits]
      BY <3>1
    <3>4. new.refs \in [B -> SUBSET Commits]
      <4>1. new.refs \in [B -> SUBSET Commits] <=> \A b \in B : new.refs[b] \in SUBSET Commits
        BY <3>3, <1>3
      <4> QED BY <3>3, <4>1, <1>1, <1>5
    <3>5. new \in [head : Branches, refs : UNION {[B1 -> SUBSET Commits] : B1 \in SUBSET Branches}]
      BY <3>1, <3>4
    <3>6. new.head \in DOMAIN new.refs
      BY <3>2, <1>3, <1>4
    <3>7. new # NoClone
      BY <3>6, NoCloneIsNone
    <3> QED BY <2>2, <3>5, <3>6, <3>7 DEF Clones
  <2> QED BY <2>1, <2>2
<1> HIDE DEF new
<1>7. clone'[t] = new /\ \A u \in Tasks \ {t} : clone'[u] = clone[u]
  BY <1>1, <1>2 DEF TypeOK
<1>8. clone' \in [Tasks -> Clones]
  BY <1>2, <1>6 DEF TypeOK
<1> QED BY <1>3, <1>4, <1>5, <1>6, <1>7, <1>8 DEF HeadOf

\* A new clone is of the base branch, with a work branch if one could be made.
LEMMA CloneIsNew ==
  ASSUME TypeOK, NEW t \in Tasks, PrepareWorkspace(t), clone[t] = NoClone
  PROVE  /\ clone' \in [Tasks -> Clones]
         /\ \A u \in Tasks \ {t} : clone'[u] = clone[u]
         /\ clone'[t] # NoClone
         /\ \A b \in DOMAIN clone'[t].refs : clone'[t].refs[b] = remote[Base]
         /\ clone'[t].head = Base => ~config[t].autoBranch \/ t \in unbranched'
<1> DEFINE branch == CreateWorkBranch(t, remote[Base])
           base == [head |-> Base, refs |-> [b \in {Base} |-> remote[Base]]]
<1>1. /\ clone' = [clone EXCEPT ![t] = branch] \/ clone' = [clone EXCEPT ![t] = base]
      /\ \/ clone' = [clone EXCEPT ![t] = branch]
         \/ ~config[t].autoBranch \/ t \in unbranched'
  BY DEF PrepareWorkspace
<1>2. Base \in Branches /\ t \in Branches /\ t # Base /\ remote[Base] \in SUBSET Commits
  BY NoCloneIsNone DEF TypeOK, Branches
<1>3. ASSUME NEW B \in SUBSET Branches, NEW h \in B,
             NEW c, c = [head |-> h, refs |-> [b \in B |-> remote[Base]]]
      PROVE  c \in Clones /\ c # NoClone /\ \A b \in DOMAIN c.refs : c.refs[b] = remote[Base]
  <2>1. [b \in B |-> remote[Base]] \in [B -> SUBSET Commits]
    BY <1>2
  <2>2. c \in [head : Branches, refs : UNION {[B1 -> SUBSET Commits] : B1 \in SUBSET Branches}]
    BY <1>3, <2>1
  <2>3. c.head \in DOMAIN c.refs
    BY <1>3
  <2> QED BY <1>3, <2>2, <2>3, NoCloneIsNone DEF Clones
<1>4. branch \in Clones /\ branch # NoClone /\ \A b \in DOMAIN branch.refs : branch.refs[b] = remote[Base]
  BY <1>2, <1>3 DEF CreateWorkBranch
<1>5. base \in Clones /\ base # NoClone /\ \A b \in DOMAIN base.refs : base.refs[b] = remote[Base]
  BY <1>2, <1>3
<1>6. branch.head # Base
  BY <1>2 DEF CreateWorkBranch
<1> HIDE DEF branch, base
<1>7. /\ clone' \in [Tasks -> Clones] /\ \A u \in Tasks \ {t} : clone'[u] = clone[u]
      /\ clone'[t] = branch \/ clone'[t] = base
      /\ clone'[t] = branch \/ ~config[t].autoBranch \/ t \in unbranched'
  BY <1>1, <1>4, <1>5 DEF TypeOK
<1> QED BY <1>4, <1>5, <1>6, <1>7

\* A push is of every local branch, and takes no commit away.
LEMMA PushAdds ==
  ASSUME TypeOK, NEW r \in Runs, Push(r)
  PROVE  /\ remote' \in [Branches -> SUBSET Commits]
         /\ \A b \in DOMAIN clone[Task(r)].refs :
              b \in Branches /\ remote[b] \subseteq remote'[b] /\ remote'[b] = clone[Task(r)].refs[b]
         /\ \A b \in Branches \ DOMAIN clone[Task(r)].refs : remote'[b] = remote[b]
<1>1. clone[Task(r)] \in Clones
  BY RunsAreOfTasks DEF TypeOK
<1>2. \A b \in DOMAIN clone[Task(r)].refs :
        b \in Branches /\ clone[Task(r)].refs[b] \subseteq Commits /\ remote[b] \subseteq clone[Task(r)].refs[b]
  BY <1>1, NoCloneIsNone DEF Push, Refused
<1>3. remote' = [b \in Branches |-> IF b \in DOMAIN clone[Task(r)].refs THEN clone[Task(r)].refs[b] ELSE remote[b]]
  BY DEF Push
<1> QED BY <1>2, <1>3 DEF TypeOK

\* The checkpoint Resume copies back may be older than the files it leaves.
LEMMA SnapshotIsTyped ==
  ASSUME TypeOK, NEW t \in Tasks
  PROVE  Snapshot(t) \in [clone : Clones, dirty : BOOLEAN] /\ Snapshot(t).clone = clone[t]
BY DEF TypeOK, Snapshot

\* Every step keeps the types of what the invariant is about.
LEMMA TypeIsKept ==
  ASSUME TypeOK, [Next]_vars
  PROVE  TypeOK'
<1> USE RunsAreOfTasks, NoCloneIsNone
        DEF TypeOK, database, workspaces, hosting, control, prompts, vars, SetRow, PlannerAt,
            Go, ExecutionSteps, PostExecutionSteps
<1>1. ASSUME NEW t \in Tasks, CreateTask(t)
      PROVE  TypeOK'
  BY <1>1, RepositoryAssumption DEF CreateTask
<1>2. ASSUME NEW t \in Tasks, Start(t)
      PROVE  TypeOK'
  BY <1>2 DEF Start
<1>3. ASSUME NEW t \in Tasks, Approve(t)
      PROVE  TypeOK'
  BY <1>3, RunsOf DEF Approve, Launch
<1>4. ASSUME NEW t \in Tasks, Resume(t)
      PROVE  TypeOK'
  <2>1. saved[t].clone \in Clones
    OBVIOUS
  <2>2. clone' \in [Tasks -> Clones]
    BY <1>4, <2>1 DEF Resume
  <2>3. dirty' \in [Tasks -> BOOLEAN]
    <3> DEFINE b == dirty[t] \/ saved[t].dirty \/ clone[t] # saved[t].clone
    <3>1. b \in BOOLEAN
      OBVIOUS
    <3>2. dirty' = [dirty EXCEPT ![t] = b] \/ dirty' = dirty
      BY <1>4 DEF Resume
    <3> HIDE DEF b
    <3> QED BY <3>1, <3>2
  <2>4. at' \in [Runs -> ExecutionSteps] /\ row' = [row EXCEPT ![t] = "running"]
    BY <1>4, RunsOf DEF Resume, Launch
  <2> QED BY <1>4, <2>2, <2>3, <2>4 DEF Resume
<1>5. ASSUME NEW t \in Tasks, StopSave(t)
      PROVE  TypeOK'
  <2>1. saved' = [saved EXCEPT ![t] = Snapshot(t)] \/ saved' = saved
    BY <1>5 DEF StopSave
  <2>2. saved' \in [Tasks -> [clone : Clones, dirty : BOOLEAN]]
    BY <2>1, SnapshotIsTyped
  <2> QED BY <1>5, <2>2 DEF StopSave
<1>6. ASSUME NEW t \in Tasks, StopCancel(t)
      PROVE  TypeOK'
  BY <1>6 DEF StopCancel
<1>7. ASSUME NEW t \in Tasks, PrepareWorkspace(t)
      PROVE  TypeOK'
  <2>1. CASE clone[t] = NoClone
    BY <1>7, <2>1, CloneIsNew DEF PrepareWorkspace
  <2>2. CASE clone[t] # NoClone
    BY <1>7, <2>2 DEF PrepareWorkspace
  <2> QED BY <2>1, <2>2
<1>8. ASSUME NEW t \in Tasks, PlanningFails(t)
      PROVE  TypeOK'
  BY <1>8 DEF PlanningFails
<1>9. ASSUME NEW t \in Tasks, EnsureRepoMemory(t)
      PROVE  TypeOK'
  BY <1>9 DEF EnsureRepoMemory
<1>10. ASSUME NEW t \in Tasks, CreateRepoMemory(t)
      PROVE  TypeOK'
  BY <1>10 DEF CreateRepoMemory
<1>11. ASSUME NEW t \in Tasks, Plan(t)
      PROVE  TypeOK'
  BY <1>11 DEF Plan
<1>12. ASSUME NEW t \in Tasks, NEW u \in Tasks, Relaunch(t, u)
      PROVE  TypeOK'
  <2>1. clone' \in [Tasks -> Clones] /\ dirty' \in [Tasks -> BOOLEAN]
    <3>1. \/ clone' = [clone EXCEPT ![u] = clone[t]] /\ dirty' = [dirty EXCEPT ![u] = dirty[t]]
          \/ clone' = clone /\ dirty' = dirty
      BY <1>12 DEF Relaunch
    <3>2. clone \in [Tasks -> Clones] /\ clone[t] \in Clones
          /\ dirty \in [Tasks -> BOOLEAN] /\ dirty[t] \in BOOLEAN
      OBVIOUS
    <3>3. clone' \in [Tasks -> Clones]
      BY ONLY <3>1, <3>2
    <3>4. dirty' \in [Tasks -> BOOLEAN]
      BY ONLY <3>1, <3>2
    <3> QED BY <3>3, <3>4
  <2>2. config' \in [Tasks -> Config] /\ row' = [row EXCEPT ![u] = "created"]
    BY <1>12 DEF Relaunch
  <2> QED BY <1>12, <2>1, <2>2 DEF Relaunch
<1>13. ASSUME NEW r \in Runs, Begin(r)
      PROVE  TypeOK'
  BY <1>13 DEF Begin
<1>14. ASSUME NEW r \in Runs, ExecuteSubtask(r)
      PROVE  TypeOK'
  BY <1>14 DEF ExecuteSubtask
<1>15. ASSUME NEW r \in Runs, ExecutionEnds(r)
      PROVE  TypeOK'
  BY <1>15 DEF ExecutionEnds
<1>16. ASSUME NEW r \in Runs, ExecutionCancelled(r)
      PROVE  TypeOK'
  <2>1. saved' = [saved EXCEPT ![Task(r)] = Snapshot(Task(r))] \/ saved' = saved
    BY <1>16 DEF ExecutionCancelled
  <2>2. Snapshot(Task(r)) \in [clone : Clones, dirty : BOOLEAN]
    BY SnapshotIsTyped
  <2>3. saved' \in [Tasks -> [clone : Clones, dirty : BOOLEAN]]
    BY <2>1, <2>2
  <2> QED BY <1>16, <2>3 DEF ExecutionCancelled
<1>17. ASSUME NEW r \in Runs, HasChanges(r)
      PROVE  TypeOK'
  BY <1>17, StepsInOrder DEF HasChanges
<1>18. ASSUME NEW r \in Runs, CommitAll(r)
      PROVE  TypeOK'
  <2>1. clone' \in [Tasks -> Clones]
    BY <1>18, CommitGoesToHead
  <2> QED BY <1>18, <2>1, StepsInOrder DEF CommitAll
<1>19. ASSUME NEW r \in Runs, Push(r)
      PROVE  TypeOK'
  <2>1. remote' \in [Branches -> SUBSET Commits]
    BY <1>19, PushAdds
  <2> QED BY <1>19, <2>1, StepsInOrder DEF Push
<1>20. ASSUME NEW r \in Runs, CreatePlatformPR(r)
      PROVE  TypeOK'
  BY <1>20 DEF CreatePlatformPR
<1>21. ASSUME NEW r \in Runs, PostExecutionFails(r)
      PROVE  TypeOK'
  BY <1>21 DEF PostExecutionFails
<1>22. ASSUME NEW r \in Runs, UpdateTaskCompleted(r)
      PROVE  TypeOK'
  BY <1>22 DEF UpdateTaskCompleted
<1>23. ASSUME NEW r \in Runs, Leave(r)
      PROVE  TypeOK'
  BY <1>23 DEF Leave
<1>24. CASE DeleteRepoMemories
  BY <1>24 DEF DeleteRepoMemories
<1>25. ASSUME NEW b \in Tasks, Merge(b)
      PROVE  TypeOK'
  BY <1>25 DEF Merge, Branches
<1>26. CASE UNCHANGED vars
  BY <1>26
<1> QED BY <1>1, <1>2, <1>3, <1>4, <1>5, <1>6, <1>7, <1>8, <1>9, <1>10, <1>11, <1>12,
           <1>13, <1>14, <1>15, <1>16, <1>17, <1>18, <1>19, <1>20, <1>21, <1>22, <1>23, <1>24, <1>25,
           <1>26
        DEF Next, User, Planner, Execution, PostExecution

\* A commit that is somewhere was somewhere before, unless the step makes it.
LEMMA NothingAppears ==
  ASSUME TypeOK, NEW c \in Runs, IsSomewhere(c)', ~CommitAll(c), [Next]_vars
  PROVE  IsSomewhere(c)
<1> USE RunsAreOfTasks, NoCloneIsNone
        DEF database, workspaces, hosting, control, prompts, vars, IsSomewhere
<1>1. ASSUME NEW t \in Tasks, CreateTask(t)
      PROVE  IsSomewhere(c)
  BY <1>1 DEF CreateTask
<1>2. ASSUME NEW t \in Tasks, Start(t)
      PROVE  IsSomewhere(c)
  BY <1>2 DEF Start
<1>3. ASSUME NEW t \in Tasks, Approve(t)
      PROVE  IsSomewhere(c)
  BY <1>3 DEF Approve
<1>4. ASSUME NEW t \in Tasks, Resume(t)
      PROVE  IsSomewhere(c)
  <2>1. /\ remote' = remote /\ saved' = saved
        /\ clone' = clone \/ clone' = [clone EXCEPT ![t] = saved[t].clone]
    BY <1>4 DEF Resume
  <2> QED BY <2>1 DEF TypeOK
<1>5. ASSUME NEW t \in Tasks, StopSave(t)
      PROVE  IsSomewhere(c)
  <2>1. /\ remote' = remote /\ clone' = clone
        /\ saved' = saved \/ saved' = [saved EXCEPT ![t] = Snapshot(t)]
    BY <1>5 DEF StopSave
  <2>2. Snapshot(t).clone = clone[t]
    BY SnapshotIsTyped
  <2> QED BY <2>1, <2>2 DEF TypeOK
<1>6. ASSUME NEW t \in Tasks, StopCancel(t)
      PROVE  IsSomewhere(c)
  BY <1>6 DEF StopCancel
<1>7. ASSUME NEW t \in Tasks, PrepareWorkspace(t)
      PROVE  IsSomewhere(c)
  <2>1. CASE clone[t] = NoClone
    <3>1. remote' = remote /\ saved' = saved
      BY <1>7 DEF PrepareWorkspace
    <3>2. InSome(clone'[t].refs, c) => c \in remote[Base]
      BY <1>7, <2>1, CloneIsNew DEF InSome
    <3>3. c \in remote[Base] => InSome(remote, c)
      BY DEF InSome, TypeOK, Branches
    <3> QED BY <1>7, <2>1, <3>1, <3>2, <3>3, CloneIsNew
  <2>2. CASE clone[t] # NoClone
    BY <1>7, <2>2 DEF PrepareWorkspace
  <2> QED BY <2>1, <2>2
<1>8. ASSUME NEW t \in Tasks, PlanningFails(t)
      PROVE  IsSomewhere(c)
  BY <1>8 DEF PlanningFails
<1>9. ASSUME NEW t \in Tasks, EnsureRepoMemory(t)
      PROVE  IsSomewhere(c)
  BY <1>9 DEF EnsureRepoMemory
<1>10. ASSUME NEW t \in Tasks, CreateRepoMemory(t)
      PROVE  IsSomewhere(c)
  BY <1>10 DEF CreateRepoMemory
<1>11. ASSUME NEW t \in Tasks, Plan(t)
      PROVE  IsSomewhere(c)
  BY <1>11 DEF Plan
<1>12. ASSUME NEW t \in Tasks, NEW u \in Tasks, Relaunch(t, u)
      PROVE  IsSomewhere(c)
  <2>1. /\ remote' = remote /\ saved' = saved
        /\ clone' = clone \/ clone' = [clone EXCEPT ![u] = clone[t]]
    BY <1>12 DEF Relaunch
  <2> QED BY <2>1 DEF TypeOK
<1>13. ASSUME NEW r \in Runs, Begin(r)
      PROVE  IsSomewhere(c)
  BY <1>13 DEF Begin
<1>14. ASSUME NEW r \in Runs, ExecuteSubtask(r)
      PROVE  IsSomewhere(c)
  BY <1>14 DEF ExecuteSubtask
<1>15. ASSUME NEW r \in Runs, ExecutionEnds(r)
      PROVE  IsSomewhere(c)
  BY <1>15 DEF ExecutionEnds
<1>16. ASSUME NEW r \in Runs, ExecutionCancelled(r)
      PROVE  IsSomewhere(c)
  <2>1. /\ remote' = remote /\ clone' = clone
        /\ saved' = saved \/ saved' = [saved EXCEPT ![Task(r)] = Snapshot(Task(r))]
    BY <1>16 DEF ExecutionCancelled, TypeOK
  <2>2. Snapshot(Task(r)).clone = clone[Task(r)]
    BY SnapshotIsTyped
  <2> QED BY <2>1, <2>2 DEF TypeOK
<1>17. ASSUME NEW r \in Runs, HasChanges(r)
      PROVE  IsSomewhere(c)
  BY <1>17 DEF HasChanges
<1>18. ASSUME NEW r \in Runs, CommitAll(r)
      PROVE  IsSomewhere(c)
  <2>1. remote' = remote /\ saved' = saved /\ r # c
    BY <1>18 DEF CommitAll
  <2>2. InSome(clone'[Task(r)].refs, c) => InSome(clone[Task(r)].refs, c)
    BY <1>18, <2>1, CommitGoesToHead DEF InSome
  <2> QED BY <1>18, <2>1, <2>2, CommitGoesToHead
<1>19. ASSUME NEW r \in Runs, Push(r)
      PROVE  IsSomewhere(c)
  <2>1. clone' = clone /\ saved' = saved
    BY <1>19 DEF Push
  <2>2. InSome(remote', c) => InSome(remote, c) \/ InSome(clone[Task(r)].refs, c)
    <3>1. ASSUME NEW b \in Branches, c \in remote'[b]
          PROVE  c \in remote[b] \/ InSome(clone[Task(r)].refs, c)
      BY <1>19, <3>1, PushAdds DEF InSome
    <3>2. DOMAIN remote = Branches /\ DOMAIN remote' = Branches
      BY <1>19, PushAdds DEF TypeOK
    <3> QED BY <3>1, <3>2 DEF InSome
  <2> QED BY <2>1, <2>2
<1>20. ASSUME NEW r \in Runs, CreatePlatformPR(r)
      PROVE  IsSomewhere(c)
  BY <1>20 DEF CreatePlatformPR
<1>21. ASSUME NEW r \in Runs, PostExecutionFails(r)
      PROVE  IsSomewhere(c)
  BY <1>21 DEF PostExecutionFails
<1>22. ASSUME NEW r \in Runs, UpdateTaskCompleted(r)
      PROVE  IsSomewhere(c)
  BY <1>22 DEF UpdateTaskCompleted
<1>23. ASSUME NEW r \in Runs, Leave(r)
      PROVE  IsSomewhere(c)
  BY <1>23 DEF Leave
<1>24. CASE DeleteRepoMemories
  BY <1>24 DEF DeleteRepoMemories
<1>25. ASSUME NEW b \in Tasks, Merge(b)
      PROVE  IsSomewhere(c)
  <2>1. clone' = clone /\ saved' = saved
    BY <1>25 DEF Merge
  <2>2. InSome(remote', c) => InSome(remote, c)
    BY <1>25 DEF Merge, InSome, TypeOK, Branches
  <2> QED BY <2>1, <2>2
<1>26. CASE UNCHANGED vars
  BY <1>26
<1> QED BY <1>1, <1>2, <1>3, <1>4, <1>5, <1>6, <1>7, <1>8, <1>9, <1>10, <1>11, <1>12,
           <1>13, <1>14, <1>15, <1>16, <1>17, <1>18, <1>19, <1>20, <1>21, <1>22, <1>23, <1>24, <1>25,
           <1>26
        DEF Next, User, Planner, Execution, PostExecution

\* An execution past its commit stays past it.
LEMMA CommitsAreLate ==
  ASSUME TypeOK, NEW c \in Runs, at[c] \in CommittedSteps, [Next]_vars
  PROVE  at'[c] \in CommittedSteps
<1> USE RunsAreOfTasks
        DEF TypeOK, database, workspaces, hosting, control, prompts, vars, CommittedSteps, Go
<1>1. ASSUME NEW t \in Tasks, CreateTask(t)
      PROVE  at'[c] \in CommittedSteps
  BY <1>1 DEF CreateTask
<1>2. ASSUME NEW t \in Tasks, Start(t)
      PROVE  at'[c] \in CommittedSteps
  BY <1>2 DEF Start
<1>3. ASSUME NEW t \in Tasks, Approve(t)
      PROVE  at'[c] \in CommittedSteps
  BY <1>3, RunsOf DEF Approve, Launch
<1>4. ASSUME NEW t \in Tasks, Resume(t)
      PROVE  at'[c] \in CommittedSteps
  BY <1>4, RunsOf DEF Resume, Launch
<1>5. ASSUME NEW t \in Tasks, StopSave(t)
      PROVE  at'[c] \in CommittedSteps
  BY <1>5 DEF StopSave
<1>6. ASSUME NEW t \in Tasks, StopCancel(t)
      PROVE  at'[c] \in CommittedSteps
  BY <1>6 DEF StopCancel
<1>7. ASSUME NEW t \in Tasks, PrepareWorkspace(t)
      PROVE  at'[c] \in CommittedSteps
  BY <1>7 DEF PrepareWorkspace
<1>8. ASSUME NEW t \in Tasks, PlanningFails(t)
      PROVE  at'[c] \in CommittedSteps
  BY <1>8 DEF PlanningFails
<1>9. ASSUME NEW t \in Tasks, EnsureRepoMemory(t)
      PROVE  at'[c] \in CommittedSteps
  BY <1>9 DEF EnsureRepoMemory
<1>10. ASSUME NEW t \in Tasks, CreateRepoMemory(t)
      PROVE  at'[c] \in CommittedSteps
  BY <1>10 DEF CreateRepoMemory
<1>11. ASSUME NEW t \in Tasks, Plan(t)
      PROVE  at'[c] \in CommittedSteps
  BY <1>11 DEF Plan
<1>12. ASSUME NEW t \in Tasks, NEW u \in Tasks, Relaunch(t, u)
      PROVE  at'[c] \in CommittedSteps
  BY <1>12 DEF Relaunch
<1>13. ASSUME NEW r \in Runs, Begin(r)
      PROVE  at'[c] \in CommittedSteps
  BY <1>13 DEF Begin
<1>14. ASSUME NEW r \in Runs, ExecuteSubtask(r)
      PROVE  at'[c] \in CommittedSteps
  BY <1>14 DEF ExecuteSubtask
<1>15. ASSUME NEW r \in Runs, ExecutionEnds(r)
      PROVE  at'[c] \in CommittedSteps
  BY <1>15 DEF ExecutionEnds
<1>16. ASSUME NEW r \in Runs, ExecutionCancelled(r)
      PROVE  at'[c] \in CommittedSteps
  BY <1>16 DEF ExecutionCancelled
<1>17. ASSUME NEW r \in Runs, HasChanges(r)
      PROVE  at'[c] \in CommittedSteps
  BY <1>17, StepsInOrder DEF HasChanges
<1>18. ASSUME NEW r \in Runs, CommitAll(r)
      PROVE  at'[c] \in CommittedSteps
  BY <1>18, StepsInOrder DEF CommitAll
<1>19. ASSUME NEW r \in Runs, Push(r)
      PROVE  at'[c] \in CommittedSteps
  BY <1>19, StepsInOrder DEF Push
<1>20. ASSUME NEW r \in Runs, CreatePlatformPR(r)
      PROVE  at'[c] \in CommittedSteps
  BY <1>20 DEF CreatePlatformPR
<1>21. ASSUME NEW r \in Runs, PostExecutionFails(r)
      PROVE  at'[c] \in CommittedSteps
  BY <1>21 DEF PostExecutionFails
<1>22. ASSUME NEW r \in Runs, UpdateTaskCompleted(r)
      PROVE  at'[c] \in CommittedSteps
  BY <1>22 DEF UpdateTaskCompleted
<1>23. ASSUME NEW r \in Runs, Leave(r)
      PROVE  at'[c] \in CommittedSteps
  BY <1>23 DEF Leave
<1>24. CASE DeleteRepoMemories
  BY <1>24 DEF DeleteRepoMemories
<1>25. ASSUME NEW b \in Tasks, Merge(b)
      PROVE  at'[c] \in CommittedSteps
  BY <1>25 DEF Merge
<1>26. CASE UNCHANGED vars
  BY <1>26
<1> QED BY <1>1, <1>2, <1>3, <1>4, <1>5, <1>6, <1>7, <1>8, <1>9, <1>10, <1>11, <1>12,
           <1>13, <1>14, <1>15, <1>16, <1>17, <1>18, <1>19, <1>20, <1>21, <1>22, <1>23, <1>24, <1>25,
           <1>26
        DEF Next, User, Planner, Execution, PostExecution

LEMMA CommitsStayMade ==
  ASSUME TypeOK, CommitsAreMade, [Next]_vars
  PROVE  CommitsAreMade'
<1> SUFFICES ASSUME NEW c \in Runs, IsSomewhere(c)'
             PROVE  at'[c] \in CommittedSteps
  BY DEF CommitsAreMade
<1>1. CASE CommitAll(c)
  <2>1. StepFrom(Task(c), 2) \in CommittedSteps
    BY StepsInOrder, RunsAreOfTasks DEF CommittedSteps
  <2> QED BY <1>1, <2>1 DEF CommitAll, Go, TypeOK
<1>2. CASE ~CommitAll(c)
  <2>1. at[c] \in CommittedSteps
    BY <1>2, NothingAppears DEF CommitsAreMade
  <2> QED BY <2>1, CommitsAreLate
<1> QED BY <1>1, <1>2

\* What is executed has been planned.
LEMMA RunsArePlanned ==
  ASSUME WorkIsCloned, NEW r \in Runs, at[r] # "off"
  PROVE  row[Task(r)] \notin {"none", "created"} /\ clone[Task(r)] # NoClone
<1>1. r = <<Task(r), r[2]>> /\ Task(r) \in Tasks /\ r[2] \in 1 .. MaxRuns[Task(r)]
  BY RunsAreOfTasks
<1>2. IsPlanned(Task(r))
  BY <1>1 DEF IsPlanned
<1> QED BY <1>1, <1>2 DEF WorkIsCloned

\* A step of an execution leaves its task planned, and the other tasks alone.
LEMMA ExecutionStaysPlanned ==
  ASSUME WorkIsCloned, NEW r \in Runs, at[r] # "off", \A s \in Runs \ {r} : at'[s] = at[s],
         planner' = planner, stop' = stop,
         \A u \in Tasks \ {Task(r)} : row'[u] = row[u] /\ saved'[u] = saved[u] /\ clone'[u] = clone[u],
         row'[Task(r)] \notin {"none", "created"}, clone'[Task(r)] # NoClone
  PROVE  WorkIsCloned'
<1>1. ASSUME NEW t \in Tasks \ {Task(r)}
      PROVE  IsPlanned(t)' => IsPlanned(t)
  <2>1. \A k \in 1 .. MaxRuns[t] : at'[<<t, k>>] = at[<<t, k>>]
    BY RunsOf
  <2> QED BY <2>1 DEF IsPlanned
<1> QED BY <1>1 DEF WorkIsCloned

\* What is planned stays planned, and has its clone.
LEMMA WorkStaysCloned ==
  ASSUME TypeOK, WorkIsCloned, SavedIsOlder, [Next]_vars
  PROVE  WorkIsCloned'
<1> USE RunsAreOfTasks
        DEF TypeOK, WorkIsCloned, IsPlanned, database, workspaces, hosting, control, prompts,
            vars, SetRow, PlannerAt, Go
<1>1. ASSUME NEW t \in Tasks, CreateTask(t)
      PROVE  WorkIsCloned'
  BY <1>1 DEF CreateTask
<1>2. ASSUME NEW t \in Tasks, Start(t)
      PROVE  WorkIsCloned'
  <2>1. /\ row[t] \in {"created", "planned", "failed"} /\ row' = [row EXCEPT ![t] = "planning"]
        /\ planner' = [planner EXCEPT ![t] = "started"]
        /\ saved' = saved /\ clone' = clone /\ at' = at /\ stop' = stop
    BY <1>2 DEF Start
  <2>2. \A u \in Tasks : IsPlanned(u)' => IsPlanned(u)
    BY <2>1
  <2> QED BY <2>1, <2>2
<1>3. ASSUME NEW t \in Tasks, Approve(t)
      PROVE  WorkIsCloned'
  BY <1>3, RunsOf DEF Approve, Launch
<1>4. ASSUME NEW t \in Tasks, Resume(t)
      PROVE  WorkIsCloned'
  <2>1. \A u \in Tasks : clone[u] # NoClone => clone'[u] # NoClone
    BY <1>4 DEF Resume, SavedIsOlder
  <2>2. \A u \in Tasks \ {t} : clone'[u] = clone[u]
    BY <1>4 DEF Resume
  <2> QED BY <1>4, <2>1, <2>2, RunsOf DEF Resume, Launch
<1>5. ASSUME NEW t \in Tasks, StopSave(t)
      PROVE  WorkIsCloned'
  BY <1>5 DEF StopSave
<1>6. ASSUME NEW t \in Tasks, StopCancel(t)
      PROVE  WorkIsCloned'
  BY <1>6 DEF StopCancel
<1>7. ASSUME NEW t \in Tasks, PrepareWorkspace(t)
      PROVE  WorkIsCloned'
  <2>1. CASE clone[t] = NoClone
    <3>1. clone'[t] # NoClone /\ \A u \in Tasks \ {t} : clone'[u] = clone[u]
      BY <1>7, <2>1, CloneIsNew
    <3>2. row' = row /\ saved' = saved /\ at' = at /\ stop' = stop /\ row[t] \notin {"none", "created"}
      BY <1>7 DEF PrepareWorkspace
    <3>3. \A u \in Tasks \ {t} : planner'[u] = planner[u]
      BY <1>7 DEF PrepareWorkspace
    <3> QED BY <3>1, <3>2, <3>3
  <2>2. CASE clone[t] # NoClone
    BY <1>7, <2>2 DEF PrepareWorkspace
  <2> QED BY <2>1, <2>2
<1>8. ASSUME NEW t \in Tasks, PlanningFails(t)
      PROVE  WorkIsCloned'
  BY <1>8 DEF PlanningFails
<1>9. ASSUME NEW t \in Tasks, EnsureRepoMemory(t)
      PROVE  WorkIsCloned'
  BY <1>9 DEF EnsureRepoMemory
<1>10. ASSUME NEW t \in Tasks, CreateRepoMemory(t)
      PROVE  WorkIsCloned'
  BY <1>10 DEF CreateRepoMemory
<1>11. ASSUME NEW t \in Tasks, Plan(t)
      PROVE  WorkIsCloned'
  BY <1>11 DEF Plan
<1>12. ASSUME NEW t \in Tasks, NEW u \in Tasks, Relaunch(t, u)
      PROVE  WorkIsCloned'
  BY <1>12 DEF Relaunch
<1>13. ASSUME NEW r \in Runs, Begin(r)
      PROVE  WorkIsCloned'
  <2>1. at[r] # "off" /\ (\A s \in Runs \ {r} : at'[s] = at[s]) /\ planner' = planner /\ stop' = stop
    BY <1>13 DEF TypeOK, Begin
  <2>2. row[Task(r)] \notin {"none", "created"} /\ clone[Task(r)] # NoClone
    BY <2>1, RunsArePlanned
  <2>3. /\ \A u \in Tasks \ {Task(r)} : row'[u] = row[u] /\ saved'[u] = saved[u] /\ clone'[u] = clone[u]
        /\ row'[Task(r)] \notin {"none", "created"} /\ clone'[Task(r)] # NoClone
    BY <1>13, <2>2 DEF TypeOK, Begin
  <2> QED BY <2>1, <2>2, <2>3, ExecutionStaysPlanned
<1>14. ASSUME NEW r \in Runs, ExecuteSubtask(r)
      PROVE  WorkIsCloned'
  <2>1. at[r] # "off" /\ (\A s \in Runs \ {r} : at'[s] = at[s]) /\ planner' = planner /\ stop' = stop
    BY <1>14 DEF TypeOK, ExecuteSubtask
  <2>2. row[Task(r)] \notin {"none", "created"} /\ clone[Task(r)] # NoClone
    BY <2>1, RunsArePlanned
  <2>3. /\ \A u \in Tasks \ {Task(r)} : row'[u] = row[u] /\ saved'[u] = saved[u] /\ clone'[u] = clone[u]
        /\ row'[Task(r)] \notin {"none", "created"} /\ clone'[Task(r)] # NoClone
    BY <1>14, <2>2 DEF TypeOK, ExecuteSubtask
  <2> QED BY <2>1, <2>2, <2>3, ExecutionStaysPlanned
<1>15. ASSUME NEW r \in Runs, ExecutionEnds(r)
      PROVE  WorkIsCloned'
  <2>1. at[r] # "off" /\ (\A s \in Runs \ {r} : at'[s] = at[s]) /\ planner' = planner /\ stop' = stop
    BY <1>15 DEF TypeOK, ExecutionEnds
  <2>2. row[Task(r)] \notin {"none", "created"} /\ clone[Task(r)] # NoClone
    BY <2>1, RunsArePlanned
  <2>3. /\ \A u \in Tasks \ {Task(r)} : row'[u] = row[u] /\ saved'[u] = saved[u] /\ clone'[u] = clone[u]
        /\ row'[Task(r)] \notin {"none", "created"} /\ clone'[Task(r)] # NoClone
    BY <1>15, <2>2 DEF TypeOK, ExecutionEnds
  <2> QED BY <2>1, <2>2, <2>3, ExecutionStaysPlanned
<1>16. ASSUME NEW r \in Runs, ExecutionCancelled(r)
      PROVE  WorkIsCloned'
  <2>1. at[r] # "off" /\ (\A s \in Runs \ {r} : at'[s] = at[s]) /\ planner' = planner /\ stop' = stop
    BY <1>16 DEF TypeOK, ExecutionCancelled
  <2>2. row[Task(r)] \notin {"none", "created"} /\ clone[Task(r)] # NoClone
    BY <2>1, RunsArePlanned
  <2>3. /\ \A u \in Tasks \ {Task(r)} : row'[u] = row[u] /\ saved'[u] = saved[u] /\ clone'[u] = clone[u]
        /\ row'[Task(r)] \notin {"none", "created"} /\ clone'[Task(r)] # NoClone
    BY <1>16, <2>2 DEF TypeOK, ExecutionCancelled
  <2> QED BY <2>1, <2>2, <2>3, ExecutionStaysPlanned
<1>17. ASSUME NEW r \in Runs, HasChanges(r)
      PROVE  WorkIsCloned'
  <2>1. at[r] # "off" /\ (\A s \in Runs \ {r} : at'[s] = at[s]) /\ planner' = planner /\ stop' = stop
    BY <1>17 DEF TypeOK, HasChanges
  <2>2. row[Task(r)] \notin {"none", "created"} /\ clone[Task(r)] # NoClone
    BY <2>1, RunsArePlanned
  <2>3. /\ \A u \in Tasks \ {Task(r)} : row'[u] = row[u] /\ saved'[u] = saved[u] /\ clone'[u] = clone[u]
        /\ row'[Task(r)] \notin {"none", "created"} /\ clone'[Task(r)] # NoClone
    BY <1>17, <2>2 DEF TypeOK, HasChanges
  <2> QED BY <2>1, <2>2, <2>3, ExecutionStaysPlanned
<1>18. ASSUME NEW r \in Runs, CommitAll(r)
      PROVE  WorkIsCloned'
  <2>1. at[r] # "off" /\ (\A s \in Runs \ {r} : at'[s] = at[s]) /\ planner' = planner /\ stop' = stop
    BY <1>18 DEF TypeOK, CommitAll
  <2>2. row[Task(r)] \notin {"none", "created"} /\ clone[Task(r)] # NoClone
    BY <2>1, RunsArePlanned
  <2>3. /\ \A u \in Tasks \ {Task(r)} : row'[u] = row[u] /\ saved'[u] = saved[u] /\ clone'[u] = clone[u]
        /\ row'[Task(r)] \notin {"none", "created"} /\ clone'[Task(r)] # NoClone
    BY <1>18, <2>2, CommitGoesToHead DEF TypeOK, CommitAll
  <2> QED BY <2>1, <2>2, <2>3, ExecutionStaysPlanned
<1>19. ASSUME NEW r \in Runs, Push(r)
      PROVE  WorkIsCloned'
  <2>1. at[r] # "off" /\ (\A s \in Runs \ {r} : at'[s] = at[s]) /\ planner' = planner /\ stop' = stop
    BY <1>19 DEF TypeOK, Push
  <2>2. row[Task(r)] \notin {"none", "created"} /\ clone[Task(r)] # NoClone
    BY <2>1, RunsArePlanned
  <2>3. /\ \A u \in Tasks \ {Task(r)} : row'[u] = row[u] /\ saved'[u] = saved[u] /\ clone'[u] = clone[u]
        /\ row'[Task(r)] \notin {"none", "created"} /\ clone'[Task(r)] # NoClone
    BY <1>19, <2>2 DEF TypeOK, Push
  <2> QED BY <2>1, <2>2, <2>3, ExecutionStaysPlanned
<1>20. ASSUME NEW r \in Runs, CreatePlatformPR(r)
      PROVE  WorkIsCloned'
  <2>1. at[r] # "off" /\ (\A s \in Runs \ {r} : at'[s] = at[s]) /\ planner' = planner /\ stop' = stop
    BY <1>20 DEF TypeOK, CreatePlatformPR
  <2>2. row[Task(r)] \notin {"none", "created"} /\ clone[Task(r)] # NoClone
    BY <2>1, RunsArePlanned
  <2>3. /\ \A u \in Tasks \ {Task(r)} : row'[u] = row[u] /\ saved'[u] = saved[u] /\ clone'[u] = clone[u]
        /\ row'[Task(r)] \notin {"none", "created"} /\ clone'[Task(r)] # NoClone
    BY <1>20, <2>2 DEF TypeOK, CreatePlatformPR
  <2> QED BY <2>1, <2>2, <2>3, ExecutionStaysPlanned
<1>21. ASSUME NEW r \in Runs, PostExecutionFails(r)
      PROVE  WorkIsCloned'
  <2>1. at[r] # "off" /\ (\A s \in Runs \ {r} : at'[s] = at[s]) /\ planner' = planner /\ stop' = stop
    BY <1>21 DEF TypeOK, PostExecutionFails
  <2>2. row[Task(r)] \notin {"none", "created"} /\ clone[Task(r)] # NoClone
    BY <2>1, RunsArePlanned
  <2>3. /\ \A u \in Tasks \ {Task(r)} : row'[u] = row[u] /\ saved'[u] = saved[u] /\ clone'[u] = clone[u]
        /\ row'[Task(r)] \notin {"none", "created"} /\ clone'[Task(r)] # NoClone
    BY <1>21, <2>2 DEF TypeOK, PostExecutionFails
  <2> QED BY <2>1, <2>2, <2>3, ExecutionStaysPlanned
<1>22. ASSUME NEW r \in Runs, UpdateTaskCompleted(r)
      PROVE  WorkIsCloned'
  <2>1. at[r] # "off" /\ (\A s \in Runs \ {r} : at'[s] = at[s]) /\ planner' = planner /\ stop' = stop
    BY <1>22 DEF TypeOK, UpdateTaskCompleted
  <2>2. row[Task(r)] \notin {"none", "created"} /\ clone[Task(r)] # NoClone
    BY <2>1, RunsArePlanned
  <2>3. /\ \A u \in Tasks \ {Task(r)} : row'[u] = row[u] /\ saved'[u] = saved[u] /\ clone'[u] = clone[u]
        /\ row'[Task(r)] \notin {"none", "created"} /\ clone'[Task(r)] # NoClone
    BY <1>22, <2>2 DEF TypeOK, UpdateTaskCompleted
  <2> QED BY <2>1, <2>2, <2>3, ExecutionStaysPlanned
<1>23. ASSUME NEW r \in Runs, Leave(r)
      PROVE  WorkIsCloned'
  <2>1. at[r] # "off" /\ (\A s \in Runs \ {r} : at'[s] = at[s]) /\ planner' = planner /\ stop' = stop
    BY <1>23 DEF TypeOK, Leave
  <2>2. row[Task(r)] \notin {"none", "created"} /\ clone[Task(r)] # NoClone
    BY <2>1, RunsArePlanned
  <2>3. /\ \A u \in Tasks \ {Task(r)} : row'[u] = row[u] /\ saved'[u] = saved[u] /\ clone'[u] = clone[u]
        /\ row'[Task(r)] \notin {"none", "created"} /\ clone'[Task(r)] # NoClone
    BY <1>23, <2>2 DEF TypeOK, Leave
  <2> QED BY <2>1, <2>2, <2>3, ExecutionStaysPlanned
<1>24. CASE DeleteRepoMemories
  BY <1>24 DEF DeleteRepoMemories
<1>25. ASSUME NEW b \in Tasks, Merge(b)
      PROVE  WorkIsCloned'
  BY <1>25 DEF Merge
<1>26. CASE UNCHANGED vars
  BY <1>26
<1> QED BY <1>1, <1>2, <1>3, <1>4, <1>5, <1>6, <1>7, <1>8, <1>9, <1>10, <1>11, <1>12,
           <1>13, <1>14, <1>15, <1>16, <1>17, <1>18, <1>19, <1>20, <1>21, <1>22, <1>23, <1>24, <1>25,
           <1>26
        DEF Next, User, Planner, Execution, PostExecution

\* A checkpoint stays behind the workspace it is of.
LEMMA SavedStaysOlder ==
  ASSUME TypeOK, WorkIsCloned, SavedIsOlder, [Next]_vars
  PROVE  SavedIsOlder'
<1> USE RunsAreOfTasks, NoCloneIsNone
        DEF TypeOK, SavedIsOlder, HeadOf, database, workspaces, hosting, control, prompts, vars
<1>1. ASSUME NEW t \in Tasks, CreateTask(t)
      PROVE  SavedIsOlder'
  BY <1>1 DEF CreateTask
<1>2. ASSUME NEW t \in Tasks, Start(t)
      PROVE  SavedIsOlder'
  BY <1>2 DEF Start
<1>3. ASSUME NEW t \in Tasks, Approve(t)
      PROVE  SavedIsOlder'
  BY <1>3 DEF Approve
<1>4. ASSUME NEW t \in Tasks, Resume(t)
      PROVE  SavedIsOlder'
  BY <1>4 DEF Resume
<1>5. ASSUME NEW t \in Tasks, StopSave(t)
      PROVE  SavedIsOlder'
  <2>1. /\ clone' = clone /\ clone[t] # NoClone
        /\ saved' = saved \/ saved' = [saved EXCEPT ![t] = Snapshot(t)]
    BY <1>5 DEF StopSave, WorkIsCloned, IsPlanned
  <2> QED BY <2>1, SnapshotIsTyped
<1>6. ASSUME NEW t \in Tasks, StopCancel(t)
      PROVE  SavedIsOlder'
  BY <1>6 DEF StopCancel
<1>7. ASSUME NEW t \in Tasks, PrepareWorkspace(t)
      PROVE  SavedIsOlder'
  <2>1. CASE clone[t] = NoClone
    <3>1. \A u \in Tasks \ {t} : clone'[u] = clone[u]
      BY <1>7, <2>1, CloneIsNew
    <3> QED BY <1>7, <2>1, <3>1 DEF PrepareWorkspace
  <2>2. CASE clone[t] # NoClone
    BY <1>7, <2>2 DEF PrepareWorkspace
  <2> QED BY <2>1, <2>2
<1>8. ASSUME NEW t \in Tasks, PlanningFails(t)
      PROVE  SavedIsOlder'
  BY <1>8 DEF PlanningFails
<1>9. ASSUME NEW t \in Tasks, EnsureRepoMemory(t)
      PROVE  SavedIsOlder'
  BY <1>9 DEF EnsureRepoMemory
<1>10. ASSUME NEW t \in Tasks, CreateRepoMemory(t)
      PROVE  SavedIsOlder'
  BY <1>10 DEF CreateRepoMemory
<1>11. ASSUME NEW t \in Tasks, Plan(t)
      PROVE  SavedIsOlder'
  BY <1>11 DEF Plan
<1>12. ASSUME NEW t \in Tasks, NEW u \in Tasks, Relaunch(t, u)
      PROVE  SavedIsOlder'
  <2>1. saved' = saved /\ saved[u] = NoSnapshot /\ \A v \in Tasks \ {u} : clone'[v] = clone[v]
    BY <1>12 DEF Relaunch, WorkIsCloned
  <2> QED BY <2>1
<1>13. ASSUME NEW r \in Runs, Begin(r)
      PROVE  SavedIsOlder'
  BY <1>13 DEF Begin
<1>14. ASSUME NEW r \in Runs, ExecuteSubtask(r)
      PROVE  SavedIsOlder'
  BY <1>14 DEF ExecuteSubtask
<1>15. ASSUME NEW r \in Runs, ExecutionEnds(r)
      PROVE  SavedIsOlder'
  BY <1>15 DEF ExecutionEnds
<1>16. ASSUME NEW r \in Runs, ExecutionCancelled(r)
      PROVE  SavedIsOlder'
  <2>1. clone[Task(r)] # NoClone
    BY <1>16, RunsArePlanned DEF ExecutionCancelled
  <2>2. clone' = clone /\ (saved' = saved \/ saved' = [saved EXCEPT ![Task(r)] = Snapshot(Task(r))])
    BY <1>16 DEF ExecutionCancelled
  <2>3. Snapshot(Task(r)).clone = clone[Task(r)]
    BY SnapshotIsTyped
  <2> QED BY <2>1, <2>2, <2>3
<1>17. ASSUME NEW r \in Runs, HasChanges(r)
      PROVE  SavedIsOlder'
  BY <1>17 DEF HasChanges
<1>18. ASSUME NEW r \in Runs, CommitAll(r)
      PROVE  SavedIsOlder'
  <2>1. saved' = saved
    BY <1>18 DEF CommitAll
  <2>2. \A u \in Tasks \ {Task(r)} : clone'[u] = clone[u]
    BY <1>18, CommitGoesToHead
  <2>3. /\ clone'[Task(r)].head = clone[Task(r)].head
        /\ DOMAIN clone'[Task(r)].refs = DOMAIN clone[Task(r)].refs
        /\ clone[Task(r)] # NoClone => clone'[Task(r)] # NoClone
        /\ \A b \in DOMAIN clone[Task(r)].refs : clone[Task(r)].refs[b] \subseteq clone'[Task(r)].refs[b]
    BY <1>18, CommitGoesToHead
  <2> QED BY <2>1, <2>2, <2>3
<1>19. ASSUME NEW r \in Runs, Push(r)
      PROVE  SavedIsOlder'
  BY <1>19 DEF Push
<1>20. ASSUME NEW r \in Runs, CreatePlatformPR(r)
      PROVE  SavedIsOlder'
  BY <1>20 DEF CreatePlatformPR
<1>21. ASSUME NEW r \in Runs, PostExecutionFails(r)
      PROVE  SavedIsOlder'
  BY <1>21 DEF PostExecutionFails
<1>22. ASSUME NEW r \in Runs, UpdateTaskCompleted(r)
      PROVE  SavedIsOlder'
  BY <1>22 DEF UpdateTaskCompleted
<1>23. ASSUME NEW r \in Runs, Leave(r)
      PROVE  SavedIsOlder'
  BY <1>23 DEF Leave
<1>24. CASE DeleteRepoMemories
  BY <1>24 DEF DeleteRepoMemories
<1>25. ASSUME NEW b \in Tasks, Merge(b)
      PROVE  SavedIsOlder'
  BY <1>25 DEF Merge
<1>26. CASE UNCHANGED vars
  BY <1>26
<1> QED BY <1>1, <1>2, <1>3, <1>4, <1>5, <1>6, <1>7, <1>8, <1>9, <1>10, <1>11, <1>12,
           <1>13, <1>14, <1>15, <1>16, <1>17, <1>18, <1>19, <1>20, <1>21, <1>22, <1>23, <1>24, <1>25,
           <1>26
        DEF Next, User, Planner, Execution, PostExecution

\* What is somewhere is a commit of a task that was created.
LEMMA CommitsAreOfTasks ==
  ASSUME CommitsAreMade, WorkIsCloned, NEW c \in Runs, IsSomewhere(c)
  PROVE  row[Task(c)] # "none"
<1>1. at[c] # "off"
  BY DEF CommitsAreMade, CommittedSteps
<1> QED BY <1>1, RunsArePlanned

\* What may be on a base branch may be there for good.
LEMMA AllowedStaysAllowed ==
  ASSUME TypeOK, CommitsAreMade, WorkIsCloned, NEW c \in Commits, c = Others \/ IsSomewhere(c), MayBeOnBase(c), [Next]_vars
  PROVE  MayBeOnBase(c)'
<1> USE RunsAreOfTasks, CommitsAreOfTasks
        DEF MayBeOnBase, OnBase, Commits, Task, database, workspaces, hosting, control, prompts,
            vars
<1>1. ASSUME NEW t \in Tasks, CreateTask(t)
      PROVE  MayBeOnBase(c)'
  <2>1. merged' = merged /\ unbranched' = unbranched /\ \A u \in Tasks \ {t} : config'[u] = config[u]
    BY <1>1 DEF CreateTask, TypeOK
  <2>2. c \in Runs => c[1] # t
    BY <1>1 DEF CreateTask
  <2> QED BY <2>1, <2>2
<1>2. ASSUME NEW t \in Tasks, Start(t)
      PROVE  MayBeOnBase(c)'
  BY <1>2 DEF Start
<1>3. ASSUME NEW t \in Tasks, Approve(t)
      PROVE  MayBeOnBase(c)'
  BY <1>3 DEF Approve
<1>4. ASSUME NEW t \in Tasks, Resume(t)
      PROVE  MayBeOnBase(c)'
  BY <1>4 DEF Resume
<1>5. ASSUME NEW t \in Tasks, StopSave(t)
      PROVE  MayBeOnBase(c)'
  BY <1>5 DEF StopSave
<1>6. ASSUME NEW t \in Tasks, StopCancel(t)
      PROVE  MayBeOnBase(c)'
  BY <1>6 DEF StopCancel
<1>7. ASSUME NEW t \in Tasks, PrepareWorkspace(t)
      PROVE  MayBeOnBase(c)'
  BY <1>7 DEF PrepareWorkspace
<1>8. ASSUME NEW t \in Tasks, PlanningFails(t)
      PROVE  MayBeOnBase(c)'
  BY <1>8 DEF PlanningFails
<1>9. ASSUME NEW t \in Tasks, EnsureRepoMemory(t)
      PROVE  MayBeOnBase(c)'
  BY <1>9 DEF EnsureRepoMemory
<1>10. ASSUME NEW t \in Tasks, CreateRepoMemory(t)
      PROVE  MayBeOnBase(c)'
  BY <1>10 DEF CreateRepoMemory
<1>11. ASSUME NEW t \in Tasks, Plan(t)
      PROVE  MayBeOnBase(c)'
  BY <1>11 DEF Plan
<1>12. ASSUME NEW t \in Tasks, NEW u \in Tasks, Relaunch(t, u)
      PROVE  MayBeOnBase(c)'
  <2>1. /\ merged' = merged /\ unbranched \subseteq unbranched'
        /\ \A v \in Tasks \ {u} : config'[v] = config[v]
    BY <1>12 DEF Relaunch, TypeOK
  <2>2. c \in Runs => c[1] # u
    BY <1>12 DEF Relaunch
  <2> QED BY <2>1, <2>2
<1>13. ASSUME NEW r \in Runs, Begin(r)
      PROVE  MayBeOnBase(c)'
  BY <1>13 DEF Begin
<1>14. ASSUME NEW r \in Runs, ExecuteSubtask(r)
      PROVE  MayBeOnBase(c)'
  BY <1>14 DEF ExecuteSubtask
<1>15. ASSUME NEW r \in Runs, ExecutionEnds(r)
      PROVE  MayBeOnBase(c)'
  BY <1>15 DEF ExecutionEnds
<1>16. ASSUME NEW r \in Runs, ExecutionCancelled(r)
      PROVE  MayBeOnBase(c)'
  BY <1>16 DEF ExecutionCancelled
<1>17. ASSUME NEW r \in Runs, HasChanges(r)
      PROVE  MayBeOnBase(c)'
  BY <1>17 DEF HasChanges
<1>18. ASSUME NEW r \in Runs, CommitAll(r)
      PROVE  MayBeOnBase(c)'
  BY <1>18 DEF CommitAll
<1>19. ASSUME NEW r \in Runs, Push(r)
      PROVE  MayBeOnBase(c)'
  BY <1>19 DEF Push
<1>20. ASSUME NEW r \in Runs, CreatePlatformPR(r)
      PROVE  MayBeOnBase(c)'
  BY <1>20 DEF CreatePlatformPR
<1>21. ASSUME NEW r \in Runs, PostExecutionFails(r)
      PROVE  MayBeOnBase(c)'
  BY <1>21 DEF PostExecutionFails
<1>22. ASSUME NEW r \in Runs, UpdateTaskCompleted(r)
      PROVE  MayBeOnBase(c)'
  BY <1>22 DEF UpdateTaskCompleted
<1>23. ASSUME NEW r \in Runs, Leave(r)
      PROVE  MayBeOnBase(c)'
  BY <1>23 DEF Leave
<1>24. CASE DeleteRepoMemories
  BY <1>24 DEF DeleteRepoMemories
<1>25. ASSUME NEW b \in Tasks, Merge(b)
      PROVE  MayBeOnBase(c)'
  BY <1>25 DEF Merge
<1>26. CASE UNCHANGED vars
  BY <1>26
<1> QED BY <1>1, <1>2, <1>3, <1>4, <1>5, <1>6, <1>7, <1>8, <1>9, <1>10, <1>11, <1>12,
           <1>13, <1>14, <1>15, <1>16, <1>17, <1>18, <1>19, <1>20, <1>21, <1>22, <1>23, <1>24, <1>25,
           <1>26
        DEF Next, User, Planner, Execution, PostExecution

\* A commit on a base branch is somewhere.
LEMMA OnBaseIsSomewhere ==
  ASSUME TypeOK, NEW c, IsOnBase(c)
  PROVE  IsSomewhere(c)
BY DEF TypeOK, IsOnBase, BaseOf, IsSomewhere, InSome, Branches

\* What is on a base branch was on one before, or may be there.
LEMMA NothingAppearsOnBase ==
  ASSUME TypeOK, HeadsAreRight, NEW c \in Commits, IsOnBase(c)', [Next]_vars
  PROVE  IsOnBase(c) \/ MayBeOnBase(c)'
<1> USE RunsAreOfTasks, NoCloneIsNone
        DEF database, workspaces, hosting, control, prompts, vars, IsOnBase
<1>1. ASSUME NEW t \in Tasks, CreateTask(t)
      PROVE  IsOnBase(c) \/ MayBeOnBase(c)'
  BY <1>1 DEF CreateTask
<1>2. ASSUME NEW t \in Tasks, Start(t)
      PROVE  IsOnBase(c) \/ MayBeOnBase(c)'
  BY <1>2 DEF Start
<1>3. ASSUME NEW t \in Tasks, Approve(t)
      PROVE  IsOnBase(c) \/ MayBeOnBase(c)'
  BY <1>3 DEF Approve
<1>4. ASSUME NEW t \in Tasks, Resume(t)
      PROVE  IsOnBase(c) \/ MayBeOnBase(c)'
  <2>1. /\ remote' = remote /\ saved' = saved
        /\ clone' = clone \/ clone' = [clone EXCEPT ![t] = saved[t].clone]
    BY <1>4 DEF Resume
  <2> QED BY <2>1 DEF TypeOK
<1>5. ASSUME NEW t \in Tasks, StopSave(t)
      PROVE  IsOnBase(c) \/ MayBeOnBase(c)'
  <2>1. /\ remote' = remote /\ clone' = clone
        /\ saved' = saved \/ saved' = [saved EXCEPT ![t] = Snapshot(t)]
    BY <1>5 DEF StopSave
  <2>2. Snapshot(t).clone = clone[t]
    BY SnapshotIsTyped
  <2> QED BY <2>1, <2>2 DEF TypeOK
<1>6. ASSUME NEW t \in Tasks, StopCancel(t)
      PROVE  IsOnBase(c) \/ MayBeOnBase(c)'
  BY <1>6 DEF StopCancel
<1>7. ASSUME NEW t \in Tasks, PrepareWorkspace(t)
      PROVE  IsOnBase(c) \/ MayBeOnBase(c)'
  <2>1. CASE clone[t] = NoClone
    <3>1. remote' = remote /\ saved' = saved
      BY <1>7 DEF PrepareWorkspace
    <3>2. c \in BaseOf(clone'[t].refs) => c \in remote[Base]
      BY <1>7, <2>1, CloneIsNew DEF BaseOf
    <3> QED BY <1>7, <2>1, <3>1, <3>2, CloneIsNew
  <2>2. CASE clone[t] # NoClone
    BY <1>7, <2>2 DEF PrepareWorkspace
  <2> QED BY <2>1, <2>2
<1>8. ASSUME NEW t \in Tasks, PlanningFails(t)
      PROVE  IsOnBase(c) \/ MayBeOnBase(c)'
  BY <1>8 DEF PlanningFails
<1>9. ASSUME NEW t \in Tasks, EnsureRepoMemory(t)
      PROVE  IsOnBase(c) \/ MayBeOnBase(c)'
  BY <1>9 DEF EnsureRepoMemory
<1>10. ASSUME NEW t \in Tasks, CreateRepoMemory(t)
      PROVE  IsOnBase(c) \/ MayBeOnBase(c)'
  BY <1>10 DEF CreateRepoMemory
<1>11. ASSUME NEW t \in Tasks, Plan(t)
      PROVE  IsOnBase(c) \/ MayBeOnBase(c)'
  BY <1>11 DEF Plan
<1>12. ASSUME NEW t \in Tasks, NEW u \in Tasks, Relaunch(t, u)
      PROVE  IsOnBase(c) \/ MayBeOnBase(c)'
  <2>1. /\ remote' = remote /\ saved' = saved
        /\ clone' = clone \/ clone' = [clone EXCEPT ![u] = clone[t]]
    BY <1>12 DEF Relaunch
  <2> QED BY <2>1 DEF TypeOK
<1>13. ASSUME NEW r \in Runs, Begin(r)
      PROVE  IsOnBase(c) \/ MayBeOnBase(c)'
  BY <1>13 DEF Begin
<1>14. ASSUME NEW r \in Runs, ExecuteSubtask(r)
      PROVE  IsOnBase(c) \/ MayBeOnBase(c)'
  BY <1>14 DEF ExecuteSubtask
<1>15. ASSUME NEW r \in Runs, ExecutionEnds(r)
      PROVE  IsOnBase(c) \/ MayBeOnBase(c)'
  BY <1>15 DEF ExecutionEnds
<1>16. ASSUME NEW r \in Runs, ExecutionCancelled(r)
      PROVE  IsOnBase(c) \/ MayBeOnBase(c)'
  <2>1. /\ remote' = remote /\ clone' = clone
        /\ saved' = saved \/ saved' = [saved EXCEPT ![Task(r)] = Snapshot(Task(r))]
    BY <1>16 DEF ExecutionCancelled, TypeOK
  <2>2. Snapshot(Task(r)).clone = clone[Task(r)]
    BY SnapshotIsTyped
  <2> QED BY <2>1, <2>2 DEF TypeOK
<1>17. ASSUME NEW r \in Runs, HasChanges(r)
      PROVE  IsOnBase(c) \/ MayBeOnBase(c)'
  BY <1>17 DEF HasChanges
<1>18. ASSUME NEW r \in Runs, CommitAll(r)
      PROVE  IsOnBase(c) \/ MayBeOnBase(c)'
  <2>1. remote' = remote /\ saved' = saved /\ merged' = merged /\ unbranched' = unbranched /\ config' = config
    BY <1>18 DEF CommitAll
  <2>2. c \in BaseOf(clone'[Task(r)].refs) =>
          c \in BaseOf(clone[Task(r)].refs) \/ (HeadOf(Task(r)) = Base /\ c = r)
    BY <1>18, CommitGoesToHead DEF BaseOf
  <2>3. HeadOf(Task(r)) = Base => MayBeOnBase(r)'
    BY <2>1 DEF HeadsAreRight, MayBeOnBase, OnBase, Task
  <2> QED BY <1>18, <2>1, <2>2, <2>3, CommitGoesToHead
<1>19. ASSUME NEW r \in Runs, Push(r)
      PROVE  IsOnBase(c) \/ MayBeOnBase(c)'
  <2>1. clone' = clone /\ saved' = saved
    BY <1>19 DEF Push
  <2>2. c \in remote'[Base] => c \in remote[Base] \/ c \in BaseOf(clone[Task(r)].refs)
    BY <1>19, PushAdds DEF BaseOf, Branches
  <2> QED BY <2>1, <2>2
<1>20. ASSUME NEW r \in Runs, CreatePlatformPR(r)
      PROVE  IsOnBase(c) \/ MayBeOnBase(c)'
  BY <1>20 DEF CreatePlatformPR
<1>21. ASSUME NEW r \in Runs, PostExecutionFails(r)
      PROVE  IsOnBase(c) \/ MayBeOnBase(c)'
  BY <1>21 DEF PostExecutionFails
<1>22. ASSUME NEW r \in Runs, UpdateTaskCompleted(r)
      PROVE  IsOnBase(c) \/ MayBeOnBase(c)'
  BY <1>22 DEF UpdateTaskCompleted
<1>23. ASSUME NEW r \in Runs, Leave(r)
      PROVE  IsOnBase(c) \/ MayBeOnBase(c)'
  BY <1>23 DEF Leave
<1>24. CASE DeleteRepoMemories
  BY <1>24 DEF DeleteRepoMemories
<1>25. ASSUME NEW b \in Tasks, Merge(b)
      PROVE  IsOnBase(c) \/ MayBeOnBase(c)'
  <2>1. clone' = clone /\ saved' = saved
    BY <1>25 DEF Merge
  <2>2. c \in remote'[Base] => c \in remote[Base] \/ c \in merged'
    BY <1>25 DEF Merge, TypeOK, Branches
  <2> QED BY <2>1, <2>2 DEF MayBeOnBase
<1>26. CASE UNCHANGED vars
  BY <1>26
<1> QED BY <1>1, <1>2, <1>3, <1>4, <1>5, <1>6, <1>7, <1>8, <1>9, <1>10, <1>11, <1>12,
           <1>13, <1>14, <1>15, <1>16, <1>17, <1>18, <1>19, <1>20, <1>21, <1>22, <1>23, <1>24, <1>25,
           <1>26
        DEF Next, User, Planner, Execution, PostExecution

\* Only what may be there comes to a base branch.
LEMMA BaseStaysClean ==
  ASSUME TypeOK, CommitsAreMade, WorkIsCloned, HeadsAreRight, BaseIsClean, [Next]_vars
  PROVE  BaseIsClean'
<1> SUFFICES ASSUME NEW c \in Commits, IsOnBase(c)'
             PROVE  MayBeOnBase(c)'
  BY DEF BaseIsClean, Commits, Others
<1>1. CASE IsOnBase(c)
  BY <1>1, OnBaseIsSomewhere, AllowedStaysAllowed DEF BaseIsClean
<1> QED BY <1>1, NothingAppearsOnBase


\* The branch that is checked out stays the one the settings ask for.
LEMMA HeadsStayRight ==
  ASSUME TypeOK, WorkIsCloned, SavedIsOlder, HeadsAreRight, [Next]_vars
  PROVE  HeadsAreRight'
<1> USE RunsAreOfTasks, NoCloneIsNone
        DEF TypeOK, HeadsAreRight, OnBase, HeadOf, database, workspaces, hosting, control,
            prompts, vars
<1>1. ASSUME NEW t \in Tasks, CreateTask(t)
      PROVE  HeadsAreRight'
  <2>1. /\ clone' = clone /\ unbranched' = unbranched /\ clone[t] = NoClone
        /\ \A u \in Tasks \ {t} : config'[u] = config[u]
    BY <1>1 DEF CreateTask, WorkIsCloned
  <2>2. NoClone.head # Base
    BY DEF Branches
  <2> QED BY <2>1, <2>2
<1>2. ASSUME NEW t \in Tasks, Start(t)
      PROVE  HeadsAreRight'
  BY <1>2 DEF Start
<1>3. ASSUME NEW t \in Tasks, Approve(t)
      PROVE  HeadsAreRight'
  BY <1>3 DEF Approve
<1>4. ASSUME NEW t \in Tasks, Resume(t)
      PROVE  HeadsAreRight'
  <2>1. /\ config' = config /\ unbranched' = unbranched
        /\ \A u \in Tasks : clone'[u].head = clone[u].head
    BY <1>4 DEF Resume, SavedIsOlder
  <2> QED BY <2>1
<1>5. ASSUME NEW t \in Tasks, StopSave(t)
      PROVE  HeadsAreRight'
  BY <1>5 DEF StopSave
<1>6. ASSUME NEW t \in Tasks, StopCancel(t)
      PROVE  HeadsAreRight'
  BY <1>6 DEF StopCancel
<1>7. ASSUME NEW t \in Tasks, PrepareWorkspace(t)
      PROVE  HeadsAreRight'
  <2>1. CASE clone[t] = NoClone
    <3>1. config' = config /\ unbranched \subseteq unbranched'
      BY <1>7 DEF PrepareWorkspace
    <3>2. /\ \A u \in Tasks \ {t} : clone'[u] = clone[u]
          /\ clone'[t].head = Base => ~config[t].autoBranch \/ t \in unbranched'
      BY <1>7, <2>1, CloneIsNew
    <3> QED BY <3>1, <3>2
  <2>2. CASE clone[t] # NoClone
    BY <1>7, <2>2 DEF PrepareWorkspace
  <2> QED BY <2>1, <2>2
<1>8. ASSUME NEW t \in Tasks, PlanningFails(t)
      PROVE  HeadsAreRight'
  BY <1>8 DEF PlanningFails
<1>9. ASSUME NEW t \in Tasks, EnsureRepoMemory(t)
      PROVE  HeadsAreRight'
  BY <1>9 DEF EnsureRepoMemory
<1>10. ASSUME NEW t \in Tasks, CreateRepoMemory(t)
      PROVE  HeadsAreRight'
  BY <1>10 DEF CreateRepoMemory
<1>11. ASSUME NEW t \in Tasks, Plan(t)
      PROVE  HeadsAreRight'
  BY <1>11 DEF Plan
<1>12. ASSUME NEW t \in Tasks, NEW u \in Tasks, Relaunch(t, u)
      PROVE  HeadsAreRight'
  <2>1. /\ unbranched \subseteq unbranched' /\ clone[u] = NoClone
        /\ \A v \in Tasks \ {u} : config'[v] = config[v] /\ clone'[v] = clone[v]
    BY <1>12 DEF Relaunch, WorkIsCloned
  <2>2. \/ clone'[u] = NoClone
        \/ clone'[u] = clone[t] /\ config'[u] = config[t] /\ (t \in unbranched => u \in unbranched')
    BY <1>12, <2>1 DEF Relaunch
  <2>3. NoClone.head # Base
    BY DEF Branches
  <2> QED BY <2>1, <2>2, <2>3
<1>13. ASSUME NEW r \in Runs, Begin(r)
      PROVE  HeadsAreRight'
  BY <1>13 DEF Begin
<1>14. ASSUME NEW r \in Runs, ExecuteSubtask(r)
      PROVE  HeadsAreRight'
  BY <1>14 DEF ExecuteSubtask
<1>15. ASSUME NEW r \in Runs, ExecutionEnds(r)
      PROVE  HeadsAreRight'
  BY <1>15 DEF ExecutionEnds
<1>16. ASSUME NEW r \in Runs, ExecutionCancelled(r)
      PROVE  HeadsAreRight'
  BY <1>16 DEF ExecutionCancelled
<1>17. ASSUME NEW r \in Runs, HasChanges(r)
      PROVE  HeadsAreRight'
  BY <1>17 DEF HasChanges
<1>18. ASSUME NEW r \in Runs, CommitAll(r)
      PROVE  HeadsAreRight'
  <2>1. config' = config /\ unbranched' = unbranched
    BY <1>18 DEF CommitAll
  <2>2. \A u \in Tasks : clone'[u].head = clone[u].head
    BY <1>18, CommitGoesToHead
  <2> QED BY <2>1, <2>2
<1>19. ASSUME NEW r \in Runs, Push(r)
      PROVE  HeadsAreRight'
  BY <1>19 DEF Push
<1>20. ASSUME NEW r \in Runs, CreatePlatformPR(r)
      PROVE  HeadsAreRight'
  BY <1>20 DEF CreatePlatformPR
<1>21. ASSUME NEW r \in Runs, PostExecutionFails(r)
      PROVE  HeadsAreRight'
  BY <1>21 DEF PostExecutionFails
<1>22. ASSUME NEW r \in Runs, UpdateTaskCompleted(r)
      PROVE  HeadsAreRight'
  BY <1>22 DEF UpdateTaskCompleted
<1>23. ASSUME NEW r \in Runs, Leave(r)
      PROVE  HeadsAreRight'
  BY <1>23 DEF Leave
<1>24. CASE DeleteRepoMemories
  BY <1>24 DEF DeleteRepoMemories
<1>25. ASSUME NEW b \in Tasks, Merge(b)
      PROVE  HeadsAreRight'
  BY <1>25 DEF Merge
<1>26. CASE UNCHANGED vars
  BY <1>26
<1> QED BY <1>1, <1>2, <1>3, <1>4, <1>5, <1>6, <1>7, <1>8, <1>9, <1>10, <1>11, <1>12,
           <1>13, <1>14, <1>15, <1>16, <1>17, <1>18, <1>19, <1>20, <1>21, <1>22, <1>23, <1>24, <1>25,
           <1>26
        DEF Next, User, Planner, Execution, PostExecution

\* Who stops an execution marks what it was at, and a cancelled one does not start on its
\* post-execution.
LEMMA CancelledStaysCut ==
  ASSUME TypeOK, CancelledIsCut, [Next]_vars
  PROVE  CancelledIsCut'
<1> USE RunsAreOfTasks
        DEF TypeOK, CancelledIsCut, PostExecutionSteps, Go, database, workspaces, hosting,
            control, prompts, vars
<1>1. ASSUME NEW t \in Tasks, CreateTask(t)
      PROVE  CancelledIsCut'
  BY <1>1 DEF CreateTask
<1>2. ASSUME NEW t \in Tasks, Start(t)
      PROVE  CancelledIsCut'
  BY <1>2 DEF Start
<1>3. ASSUME NEW t \in Tasks, Approve(t)
      PROVE  CancelledIsCut'
  BY <1>3, RunsOf DEF Approve, Launch
<1>4. ASSUME NEW t \in Tasks, Resume(t)
      PROVE  CancelledIsCut'
  BY <1>4, RunsOf DEF Resume, Launch
<1>5. ASSUME NEW t \in Tasks, StopSave(t)
      PROVE  CancelledIsCut'
  BY <1>5 DEF StopSave
<1>6. ASSUME NEW t \in Tasks, StopCancel(t)
      PROVE  CancelledIsCut'
  BY <1>6 DEF StopCancel
<1>7. ASSUME NEW t \in Tasks, PrepareWorkspace(t)
      PROVE  CancelledIsCut'
  BY <1>7 DEF PrepareWorkspace
<1>8. ASSUME NEW t \in Tasks, PlanningFails(t)
      PROVE  CancelledIsCut'
  BY <1>8 DEF PlanningFails
<1>9. ASSUME NEW t \in Tasks, EnsureRepoMemory(t)
      PROVE  CancelledIsCut'
  BY <1>9 DEF EnsureRepoMemory
<1>10. ASSUME NEW t \in Tasks, CreateRepoMemory(t)
      PROVE  CancelledIsCut'
  BY <1>10 DEF CreateRepoMemory
<1>11. ASSUME NEW t \in Tasks, Plan(t)
      PROVE  CancelledIsCut'
  BY <1>11 DEF Plan
<1>12. ASSUME NEW t \in Tasks, NEW u \in Tasks, Relaunch(t, u)
      PROVE  CancelledIsCut'
  BY <1>12 DEF Relaunch
<1>13. ASSUME NEW r \in Runs, Begin(r)
      PROVE  CancelledIsCut'
  BY <1>13 DEF Begin
<1>14. ASSUME NEW r \in Runs, ExecuteSubtask(r)
      PROVE  CancelledIsCut'
  BY <1>14 DEF ExecuteSubtask
<1>15. ASSUME NEW r \in Runs, ExecutionEnds(r)
      PROVE  CancelledIsCut'
  BY <1>15 DEF ExecutionEnds
<1>16. ASSUME NEW r \in Runs, ExecutionCancelled(r)
      PROVE  CancelledIsCut'
  BY <1>16 DEF ExecutionCancelled
<1>17. ASSUME NEW r \in Runs, HasChanges(r)
      PROVE  CancelledIsCut'
  BY <1>17, StepsInOrder DEF HasChanges
<1>18. ASSUME NEW r \in Runs, CommitAll(r)
      PROVE  CancelledIsCut'
  BY <1>18, StepsInOrder DEF CommitAll
<1>19. ASSUME NEW r \in Runs, Push(r)
      PROVE  CancelledIsCut'
  BY <1>19, StepsInOrder DEF Push
<1>20. ASSUME NEW r \in Runs, CreatePlatformPR(r)
      PROVE  CancelledIsCut'
  BY <1>20 DEF CreatePlatformPR
<1>21. ASSUME NEW r \in Runs, PostExecutionFails(r)
      PROVE  CancelledIsCut'
  BY <1>21 DEF PostExecutionFails
<1>22. ASSUME NEW r \in Runs, UpdateTaskCompleted(r)
      PROVE  CancelledIsCut'
  BY <1>22 DEF UpdateTaskCompleted
<1>23. ASSUME NEW r \in Runs, Leave(r)
      PROVE  CancelledIsCut'
  BY <1>23 DEF Leave
<1>24. CASE DeleteRepoMemories
  BY <1>24 DEF DeleteRepoMemories
<1>25. ASSUME NEW b \in Tasks, Merge(b)
      PROVE  CancelledIsCut'
  BY <1>25 DEF Merge
<1>26. CASE UNCHANGED vars
  BY <1>26
<1> QED BY <1>1, <1>2, <1>3, <1>4, <1>5, <1>6, <1>7, <1>8, <1>9, <1>10, <1>11, <1>12,
           <1>13, <1>14, <1>15, <1>16, <1>17, <1>18, <1>19, <1>20, <1>21, <1>22, <1>23, <1>24, <1>25,
           <1>26
        DEF Next, User, Planner, Execution, PostExecution

\* What is committed is pushed and offered in the steps that follow, or that it is not is
\* reported.
LEMMA PublishingGoesOn ==
  ASSUME TypeOK, CommitsAreMade, WorkIsCloned, SavedIsOlder, CancelledIsCut, PublishedOrUnderWay, [Next]_vars
  PROVE  PublishedOrUnderWay'
<1> USE RunsAreOfTasks, NoCloneIsNone
        DEF TypeOK, PublishedOrUnderWay, HeadOf, History, Go, database, workspaces, hosting,
            control, prompts, vars
<1>1. ASSUME NEW t \in Tasks, CreateTask(t)
      PROVE  PublishedOrUnderWay'
  <2>1. clone[t] = NoClone
    BY <1>1 DEF CreateTask, WorkIsCloned
  <2> QED BY <1>1, <2>1 DEF CreateTask
<1>2. ASSUME NEW t \in Tasks, Start(t)
      PROVE  PublishedOrUnderWay'
  BY <1>2 DEF Start
<1>3. ASSUME NEW t \in Tasks, Approve(t)
      PROVE  PublishedOrUnderWay'
  <2>1. \A r \in Runs : at'[r] = at[r] \/ at[r] = "off"
    BY <1>3, RunsOf DEF Approve, Launch
  <2> QED BY <1>3, <2>1 DEF Approve
<1>4. ASSUME NEW t \in Tasks, Resume(t)
      PROVE  PublishedOrUnderWay'
  <2>1. /\ \A u \in Tasks \ {t} : clone'[u] = clone[u]
        /\ clone'[t] # NoClone => clone[t] # NoClone
        /\ clone[t] # NoClone => HeadOf(t)' = HeadOf(t) /\ History(t)' \subseteq History(t)
    BY <1>4 DEF Resume, SavedIsOlder
  <2>2. \A r \in Runs : at'[r] = at[r] \/ at[r] = "off"
    BY <1>4, RunsOf DEF Resume, Launch
  <2> QED BY <1>4, <2>1, <2>2 DEF Resume
<1>5. ASSUME NEW t \in Tasks, StopSave(t)
      PROVE  PublishedOrUnderWay'
  BY <1>5 DEF StopSave
<1>6. ASSUME NEW t \in Tasks, StopCancel(t)
      PROVE  PublishedOrUnderWay'
  BY <1>6 DEF StopCancel
<1>7. ASSUME NEW t \in Tasks, PrepareWorkspace(t)
      PROVE  PublishedOrUnderWay'
  <2>1. CASE clone[t] = NoClone
    <3>1. \A r \in Runs : Task(r) = t => r \notin remote[Base]
      BY <2>1, RunsArePlanned DEF CommitsAreMade, CommittedSteps, IsSomewhere, InSome, Branches
    <3>2. \A r \in Runs : Task(r) = t => r \notin History(t)'
      BY <1>7, <2>1, <3>1, CloneIsNew
    <3>3. \A u \in Tasks \ {t} : clone'[u] = clone[u]
      BY <1>7, <2>1, CloneIsNew
    <3> QED BY <1>7, <3>2, <3>3 DEF PrepareWorkspace
  <2>2. CASE clone[t] # NoClone
    BY <1>7, <2>2 DEF PrepareWorkspace
  <2> QED BY <2>1, <2>2
<1>8. ASSUME NEW t \in Tasks, PlanningFails(t)
      PROVE  PublishedOrUnderWay'
  BY <1>8 DEF PlanningFails
<1>9. ASSUME NEW t \in Tasks, EnsureRepoMemory(t)
      PROVE  PublishedOrUnderWay'
  BY <1>9 DEF EnsureRepoMemory
<1>10. ASSUME NEW t \in Tasks, CreateRepoMemory(t)
      PROVE  PublishedOrUnderWay'
  BY <1>10 DEF CreateRepoMemory
<1>11. ASSUME NEW t \in Tasks, Plan(t)
      PROVE  PublishedOrUnderWay'
  BY <1>11 DEF Plan
<1>12. ASSUME NEW t \in Tasks, NEW u \in Tasks, Relaunch(t, u)
      PROVE  PublishedOrUnderWay'
  <2>1. clone[u] = NoClone
    BY <1>12 DEF Relaunch, WorkIsCloned
  <2>2. clone'[u] = NoClone \/ clone'[u] = clone[t]
    BY <1>12, <2>1 DEF Relaunch
  <2>3. \A r \in Runs : Task(r) = u => ~IsSomewhere(r)
    BY <1>12, CommitsAreOfTasks DEF Relaunch
  <2>4. \A r \in Runs : Task(r) = u /\ clone'[u] # NoClone => r \notin History(u)'
    BY <2>2, <2>3 DEF IsSomewhere, InSome
  <2>5. \A v \in Tasks \ {u} : clone'[v] = clone[v] /\ config'[v] = config[v]
    BY <1>12 DEF Relaunch
  <2> QED BY <1>12, <2>4, <2>5 DEF Relaunch
<1>13. ASSUME NEW r \in Runs, Begin(r)
      PROVE  PublishedOrUnderWay'
  BY <1>13 DEF Begin
<1>14. ASSUME NEW r \in Runs, ExecuteSubtask(r)
      PROVE  PublishedOrUnderWay'
  BY <1>14 DEF ExecuteSubtask
<1>15. ASSUME NEW r \in Runs, ExecutionEnds(r)
      PROVE  PublishedOrUnderWay'
  BY <1>15 DEF ExecutionEnds
<1>16. ASSUME NEW r \in Runs, ExecutionCancelled(r)
      PROVE  PublishedOrUnderWay'
  BY <1>16 DEF ExecutionCancelled
<1>17. ASSUME NEW r \in Runs, HasChanges(r)
      PROVE  PublishedOrUnderWay'
  <2>1. at[r] = "checking" /\ \A s \in Runs \ {r} : at'[s] = at[s]
    BY <1>17 DEF HasChanges
  <2>2. /\ clone' = clone /\ remote' = remote /\ offered' = offered /\ config' = config
        /\ reported' = reported /\ cutShort' = cutShort
    BY <1>17 DEF HasChanges
  <2> QED BY <2>1, <2>2
<1>18. ASSUME NEW r \in Runs, CommitAll(r)
      PROVE  PublishedOrUnderWay'
  <2>1. /\ \A u \in Tasks \ {Task(r)} : clone'[u] = clone[u]
        /\ clone[Task(r)] # NoClone
        /\ HeadOf(Task(r))' = HeadOf(Task(r)) /\ History(Task(r))' \subseteq History(Task(r)) \cup {r}
    <3>1. clone[Task(r)] # NoClone
      BY <1>18, RunsArePlanned DEF CommitAll
    <3> QED BY <1>18, <3>1, CommitGoesToHead
  <2>2. at'[r] = StepFrom(Task(r), 2) /\ \A s \in Runs \ {r} : at'[s] = at[s]
    BY <1>18 DEF CommitAll
  <2>3. /\ remote' = remote /\ offered' = offered /\ config' = config
        /\ reported' = reported /\ cutShort' = cutShort
    BY <1>18 DEF CommitAll
  <2>4. /\ config[Task(r)].autoPush => at'[r] = "pushing"
        /\ config[Task(r)].autoPR => at'[r] \in {"pushing", "opening"}
    BY <2>2, StepsInOrder
  <2> QED BY <2>1, <2>2, <2>3, <2>4
<1>19. ASSUME NEW r \in Runs, Push(r)
      PROVE  PublishedOrUnderWay'
  <2>1. \A b \in Branches : remote[b] \subseteq remote'[b]
    BY <1>19, PushAdds
  <2>2. clone[Task(r)] # NoClone
    BY <1>19, RunsArePlanned DEF Push
  <2>3. History(Task(r)) \subseteq remote'[HeadOf(Task(r))]
    BY <1>19, <2>2, PushAdds
  <2>4. /\ \A s \in Runs \ {r} : at'[s] = at[s]
        /\ config[Task(r)].autoPR => at'[r] = "opening"
    BY <1>19, StepsInOrder DEF Push
  <2>5. /\ clone' = clone /\ offered' = offered /\ config' = config
        /\ reported' = reported /\ cutShort' = cutShort
    BY <1>19 DEF Push
  <2> QED BY <2>1, <2>2, <2>3, <2>4, <2>5
<1>20. ASSUME NEW r \in Runs, CreatePlatformPR(r)
      PROVE  PublishedOrUnderWay'
  <2>1. at[r] = "opening" /\ \A s \in Runs \ {r} : at'[s] = at[s]
    BY <1>20 DEF CreatePlatformPR
  <2>2. /\ clone' = clone /\ remote' = remote /\ config' = config
        /\ reported' = reported /\ cutShort' = cutShort /\ offered' = offered \cup {HeadOf(Task(r))}
    BY <1>20 DEF CreatePlatformPR
  <2> QED BY <2>1, <2>2
<1>21. ASSUME NEW r \in Runs, PostExecutionFails(r)
      PROVE  PublishedOrUnderWay'
  <2>1. Task(r) \in reported' \cup cutShort'
    BY <1>21 DEF PostExecutionFails, CancelledIsCut, PostExecutionSteps
  <2>2. /\ clone' = clone /\ remote' = remote /\ config' = config /\ offered' = offered
        /\ reported \subseteq reported' /\ cutShort' = cutShort
        /\ \A s \in Runs \ {r} : at'[s] = at[s]
    BY <1>21 DEF PostExecutionFails
  <2> QED BY <2>1, <2>2
<1>22. ASSUME NEW r \in Runs, UpdateTaskCompleted(r)
      PROVE  PublishedOrUnderWay'
  BY <1>22 DEF UpdateTaskCompleted
<1>23. ASSUME NEW r \in Runs, Leave(r)
      PROVE  PublishedOrUnderWay'
  <2>1. at[r] = "leaving" /\ \A s \in Runs \ {r} : at'[s] = at[s]
    BY <1>23 DEF Leave
  <2>2. /\ clone' = clone /\ remote' = remote /\ offered' = offered /\ config' = config
        /\ reported' = reported /\ cutShort' = cutShort
    BY <1>23 DEF Leave
  <2> QED BY <2>1, <2>2
<1>24. CASE DeleteRepoMemories
  BY <1>24 DEF DeleteRepoMemories
<1>25. ASSUME NEW b \in Tasks, Merge(b)
      PROVE  PublishedOrUnderWay'
  <2>1. \A c \in Branches : remote[c] \subseteq remote'[c]
    BY <1>25 DEF Merge
  <2>2. /\ clone' = clone /\ offered' = offered /\ config' = config /\ at' = at
        /\ reported' = reported /\ cutShort' = cutShort
    BY <1>25 DEF Merge
  <2> QED BY <2>1, <2>2
<1>26. CASE UNCHANGED vars
  BY <1>26
<1> QED BY <1>1, <1>2, <1>3, <1>4, <1>5, <1>6, <1>7, <1>8, <1>9, <1>10, <1>11, <1>12,
           <1>13, <1>14, <1>15, <1>16, <1>17, <1>18, <1>19, <1>20, <1>21, <1>22, <1>23, <1>24, <1>25,
           <1>26
        DEF Next, User, Planner, Execution, PostExecution

\* Nothing is planned, and nothing committed.
LEMMA InitialState ==
  ASSUME Init
  PROVE  RepositoryInv
<1> USE NoCloneIsNone DEF Init
<1>1. TypeOK
  <2>1. NoConfig \in Config
    BY DEF NoConfig, Config
  <2>2. Others \in Commits /\ remote \in [Branches -> SUBSET Commits]
    BY DEF Commits, Others
  <2> QED BY <2>1, <2>2 DEF TypeOK, ExecutionSteps
<1>2. \A t \in Tasks : clone[t] = NoClone /\ saved[t] = NoSnapshot /\ ~IsPlanned(t)
  <2>1. \A t \in Tasks : \A k \in 1 .. MaxRuns[t] : at[<<t, k>>] = "off"
    BY RunsOf
  <2> QED BY <2>1 DEF IsPlanned
<1>3. \A c : InSome(remote, c) => c = Others
  BY DEF InSome, Others
<1>4. \A c : IsSomewhere(c) => c = Others
  BY <1>2, <1>3 DEF IsSomewhere, InSome
<1>5. CommitsAreMade
  BY <1>4, RunsAreOfTasks DEF CommitsAreMade
<1>6. WorkIsCloned
  BY <1>2 DEF WorkIsCloned
<1>7. SavedIsOlder
  BY <1>2 DEF SavedIsOlder
<1>8. HeadsAreRight
  BY <1>2 DEF HeadsAreRight, HeadOf, Branches
<1>9. BaseIsClean
  BY <1>1, <1>4, OnBaseIsSomewhere DEF BaseIsClean, MayBeOnBase
<1>10. CancelledIsCut /\ PublishedOrUnderWay
  BY <1>2, RunsAreOfTasks DEF CancelledIsCut, PublishedOrUnderWay
<1> QED BY <1>1, <1>5, <1>6, <1>7, <1>8, <1>9, <1>10 DEF RepositoryInv

\* The invariant the two theorems below rest on: where commits can be, and what is still to
\* happen to them.
THEOREM Invariance == Spec => []RepositoryInv
<1>1. RepositoryInv /\ [Next]_vars => RepositoryInv'
  BY TypeIsKept, CommitsStayMade, WorkStaysCloned, SavedStaysOlder, HeadsStayRight, BaseStaysClean,
     CancelledStaysCut, PublishingGoesOn
     DEF RepositoryInv
<1> QED BY InitialState, <1>1, PTL DEF Spec

\* The commits of a task with a work branch come to the base branch through a pull request
\* only, though every push is of all local branches (repo/manager.go:48-77, 113-131) and a
\* checkpoint or a copy of another task's workspace may bring an old state back.
THEOREM WorkOffBase == Spec => []WorkStaysOffBase
<1>1. RepositoryInv => WorkStaysOffBase
  <2> SUFFICES ASSUME RepositoryInv, NEW c \in remote[Base] \ merged, c[1] \in Tasks \ unbranched
               PROVE  ~config[c[1]].autoBranch
    BY DEF WorkStaysOffBase
  <2>1. c \in Commits /\ IsOnBase(c)
    BY DEF RepositoryInv, TypeOK, Branches, IsOnBase
  <2>2. c # Others
    BY RepositoryAssumption DEF Others
  <2> QED BY <2>1, <2>2 DEF RepositoryInv, BaseIsClean, MayBeOnBase, OnBase
<1> QED BY Invariance, <1>1, PTL

\* When a completed task is at rest, what it committed was pushed and offered as its settings
\* ask, or the event of the failure is there, unless a Stop came during those steps
\* (task/manager.go:835-875, postexec.go:23-68).
THEOREM Published == Spec => []PublishedOrReported
<1>1. RepositoryInv => PublishedOrReported
  <2> SUFFICES ASSUME RepositoryInv, NEW t \in Tasks \ (reported \cup cutShort),
                      row[t] = "completed", AtRest(t), config[t].autoCommit
               PROVE  /\ config[t].autoPush => Own(t) \subseteq remote[HeadOf(t)]
                      /\ config[t].autoPR /\ Own(t) # {} => HeadOf(t) \in offered
    BY DEF PublishedOrReported
  <2>1. clone[t] # NoClone
    BY DEF RepositoryInv, WorkIsCloned, IsPlanned
  <2>2. History(t) \subseteq Commits
    <3>1. clone[t] \in Clones
      BY DEF RepositoryInv, TypeOK
    <3> QED BY <2>1, <3>1, NoCloneIsNone DEF History, HeadOf
  <2>3. ASSUME NEW c \in Own(t)
        PROVE  c \in Runs /\ Task(c) = t /\ at[c] \in {"off", "over"} /\ c \in History(t)
    <3>1. c \in History(t) /\ c[1] = t /\ c \in Runs
      BY <2>2, RepositoryAssumption DEF Own, Commits, Others
    <3>2. c = <<t, c[2]>> /\ c[2] \in 1 .. MaxRuns[t]
      BY <3>1, RunsAreOfTasks DEF Task
    <3> QED BY <3>1, <3>2 DEF AtRest, Task
  <2>4. PublishedOrUnderWay
    BY DEF RepositoryInv
  <2> QED BY <2>1, <2>3, <2>4 DEF PublishedOrUnderWay
<1> QED BY Invariance, <1>1, PTL

===============================================================================
