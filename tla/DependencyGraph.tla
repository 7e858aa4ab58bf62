-------------------------- MODULE DependencyGraph --------------------------
(***************************************************************************)
(* task.DependencyGraph (internal/task/dependency.go) as operators on a    *)
(* graph `deps', which gives every subtask the set of those it depends on, *)
(* and a `status' of every subtask.  The recursions of the code are stated *)
(* by what they compute; DependencyGraphCode has them step by step.  That  *)
(* the two agree is checked on all small graphs by MCStructures and proved *)
(* for all graphs in OrchestratorProofs.                                   *)
(***************************************************************************)
Statuses == {"pending", "running", "completed", "failed", "skipped"}

Unfinished == {"pending", "running"}

\* As if a plan were always built from scratch.
BuildGraphAfresh(planStatus) == [s \in DOMAIN planStatus |-> "pending"]

\* BuildGraph keeps the status the plan has for a subtask.
BuildGraph(planStatus) == planStatus

\* As if the loop returned at the first dependency that is completed.
AnyDepCompleted(status, deps, s) ==
  deps[s] = {} \/ \E d \in deps[s] : status[d] = "completed"

AllDepsCompleted(status, deps, s) == \A d \in deps[s] : status[d] = "completed"

GetReady(status, deps) ==
  {s \in DOMAIN status : status[s] = "pending" /\ AllDepsCompleted(status, deps, s)}

MarkRunning(status, s) == [status EXCEPT ![s] = "running"]

Complete(status, s) == [status EXCEPT ![s] = "completed"]

\* S holds every unfinished subtask that depends on `failed' or on a member of S.
ClosedUnderDependents(status, deps, failed, S) ==
  \A s \in DOMAIN status :
    status[s] \in Unfinished /\ deps[s] \cap (S \cup {failed}) # {} => s \in S

\* As if only the direct dependents were skipped.
DirectDependents(status, deps, failed) ==
  {s \in DOMAIN status : status[s] \in Unfinished /\ failed \in deps[s]}

\* What skipDependents reaches: the least such set.
Dependents(status, deps, failed) ==
  {s \in DOMAIN status :
     \A S \in SUBSET DOMAIN status :
       ClosedUnderDependents(status, deps, failed, S) => s \in S}

Fail(status, deps, s) ==
  LET failed == [status EXCEPT ![s] = "failed"]
      skipped == Dependents(failed, deps, s)
  IN [t \in DOMAIN status |-> IF t \in skipped THEN "skipped" ELSE failed[t]]

AllCompleted(status) == \A s \in DOMAIN status : status[s] \notin Unfinished

\* As if a plan were never circular.
NoCycles(deps) == FALSE

\* Some subtasks can never start because each waits for another of them.
HasCycles(deps) ==
  \E S \in SUBSET DOMAIN deps : S # {} /\ \A s \in S : deps[s] \cap S # {}
=============================================================================
