------------------------ MODULE DependencyGraphCode ------------------------
(***************************************************************************)
(* task.DependencyGraph as the code runs it: the recursions of Fail and of *)
(* HasCycles step by step, over Go maps whose order is left open, with the *)
(* calls under way on a stack.  DependencyGraph says what they compute.    *)
(* The lock of the graph is held throughout each method, so that none      *)
(* begins while another is under way.                                      *)
(*                                                                         *)
(* No name here is one of Orchestrator, so that OrchestratorProofs can     *)
(* extend both.                                                            *)
(***************************************************************************)
EXTENDS Integers, Sequences, DependencyGraph

CONSTANT Nodes         \* the subtasks of the plan

VARIABLES
  edges,       \* what each depends on; never changes
  nodeStatus,  \* DependencyGraph.status
  skips,       \* the calls of skipDependents: [failed, left], with what is left of the range
  verdict,     \* HasCycles: "unasked", "searching", "cyclic" or "acyclic"
  color,       \* and its colours,
  visits,      \* its calls of dfs: [node, left],
  roots,       \* and what is left of its own range
  \* history, which no action reads:
  settled      \* the status as the last method that returned left it

searchVars == <<verdict, color, visits, roots>>
dependencyVars == <<edges, nodeStatus, skips, searchVars, settled>>

White == [s \in Nodes |-> "white"]

\* A graph of any shape, circular too, as BuildGraph makes it of a plan.  No plan has a
\* subtask that is "skipped": Fail alone makes one so, and the graph is never stored.
NewGraph ==
  /\ edges \in [Nodes -> SUBSET Nodes]
  /\ \E planStatus \in [Nodes -> Statuses \ {"skipped"}] : nodeStatus = BuildGraph(planStatus)
  /\ skips = <<>>
  /\ verdict = "unasked" /\ color = White /\ visits = <<>> /\ roots = {}
  /\ settled = nodeStatus

Unlocked == skips = <<>> /\ verdict # "searching"

Last(calls) == calls[Len(calls)]
Passed(calls, x) == [calls EXCEPT ![Len(calls)].left = @ \ {x}]
Returned(calls) == SubSeq(calls, 1, Len(calls) - 1)
-----------------------------------------------------------------------------
(***************************************************************************)
(* MarkRunning, Complete and Fail, called as Orchestrator.Run calls them   *)
(***************************************************************************)
MarkNode(s) ==
  /\ Unlocked
  /\ s \in GetReady(nodeStatus, edges)
  /\ nodeStatus' = MarkRunning(nodeStatus, s)
  /\ settled' = nodeStatus'
  /\ UNCHANGED <<edges, skips, searchVars>>

CompleteNode(s) ==
  /\ Unlocked
  /\ nodeStatus[s] = "running"
  /\ nodeStatus' = Complete(nodeStatus, s)
  /\ settled' = nodeStatus'
  /\ UNCHANGED <<edges, skips, searchVars>>

\* As if only the dependents of the failed subtask itself were skipped.
SkipNoFurther(calls, id) == IF calls = <<>> THEN <<[failed |-> id, left |-> Nodes]>> ELSE calls

SkipDependents(calls, id) == Append(calls, [failed |-> id, left |-> Nodes])

FailNode(s) ==
  /\ Unlocked
  /\ nodeStatus[s] = "running"
  /\ nodeStatus' = [nodeStatus EXCEPT ![s] = "failed"]
  /\ skips' = SkipDependents(skips, s)
  /\ UNCHANGED <<edges, searchVars, settled>>

\* The range goes on to some node, which is marked, and its own dependents before the
\* range goes on again.
SkipNext(id) ==
  /\ skips # <<>> /\ id \in Last(skips).left
  /\ IF nodeStatus[id] \in Unfinished /\ Last(skips).failed \in edges[id]
     THEN /\ nodeStatus' = [nodeStatus EXCEPT ![id] = "skipped"]
          /\ skips' = SkipDependents(Passed(skips, id), id)
     ELSE skips' = Passed(skips, id) /\ UNCHANGED nodeStatus
  /\ UNCHANGED <<edges, searchVars, settled>>

SkipReturns ==
  /\ skips # <<>> /\ Last(skips).left = {}
  /\ skips' = Returned(skips)
  /\ settled' = IF skips' = <<>> THEN nodeStatus ELSE settled
  /\ UNCHANGED <<edges, nodeStatus, searchVars>>
-----------------------------------------------------------------------------
(***************************************************************************)
(* HasCycles: a depth-first search with three colours                      *)
(***************************************************************************)
\* As if a node under way were taken for one that is done.
MeetsIgnoringGray(id) == FALSE
Meets(id) == color[id] = "gray"

AskForCycles ==
  /\ Unlocked /\ verdict = "unasked"
  /\ verdict' = "searching" /\ roots' = Nodes
  /\ UNCHANGED <<edges, nodeStatus, skips, color, visits, settled>>

Visit(calls, id) ==
  /\ color' = [color EXCEPT ![id] = "gray"]
  /\ visits' = Append(calls, [node |-> id, left |-> edges[id]])

VisitRoot(id) ==
  /\ verdict = "searching" /\ visits = <<>>
  /\ id \in roots /\ roots' = roots \ {id}
  /\ IF color[id] = "white" THEN Visit(visits, id) ELSE UNCHANGED <<color, visits>>
  /\ UNCHANGED <<edges, nodeStatus, skips, verdict, settled>>

Answer(v) == verdict' = v /\ color' = White /\ visits' = <<>> /\ roots' = {}

VisitNext(id) ==
  /\ visits # <<>> /\ id \in Last(visits).left
  /\ IF Meets(id) THEN Answer("cyclic")
     ELSE /\ IF color[id] = "white" THEN Visit(Passed(visits, id), id)
             ELSE visits' = Passed(visits, id) /\ UNCHANGED color
          /\ UNCHANGED <<verdict, roots>>
  /\ UNCHANGED <<edges, nodeStatus, skips, settled>>

VisitReturns ==
  /\ visits # <<>> /\ Last(visits).left = {}
  /\ color' = [color EXCEPT ![Last(visits).node] = "black"]
  /\ visits' = Returned(visits)
  /\ UNCHANGED <<edges, nodeStatus, skips, verdict, roots, settled>>

SearchEnds ==
  /\ verdict = "searching" /\ visits = <<>> /\ roots = {}
  /\ Answer("acyclic")
  /\ UNCHANGED <<edges, nodeStatus, skips, settled>>
-----------------------------------------------------------------------------
DependencyNext ==
  \/ \E s \in Nodes : \/ MarkNode(s) \/ CompleteNode(s) \/ FailNode(s) \/ SkipNext(s)
                      \/ VisitRoot(s) \/ VisitNext(s)
  \/ SkipReturns \/ AskForCycles \/ VisitReturns \/ SearchEnds

DependencySpec == NewGraph /\ [][DependencyNext]_dependencyVars
-----------------------------------------------------------------------------
(***************************************************************************)
(* Properties                                                              *)
(***************************************************************************)

\* When skipDependents is about to return to Fail it has reached what Dependents says,
\* in whatever order the nodes came and whatever was skipped, failed or completed before
\* (dependency.go:91-115).
SkipMatches ==
  Len(skips) = 1 /\ skips[1].left = {} => nodeStatus = Fail(settled, edges, skips[1].failed)

\* The three-colour search answers yes exactly when some subtasks wait for each other, a
\* subtask that depends on itself included (dependency.go:143-183).
CyclesMatch == verdict \in {"cyclic", "acyclic"} => (verdict = "cyclic" <=> HasCycles(edges))
=============================================================================
