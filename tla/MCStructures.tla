---------------------------- MODULE MCStructures ----------------------------
(***************************************************************************)
(* The two data structures that nobody waits in, one at a time: the ring   *)
(* buffer, and the dependency graph of a plan.  The buffer has few slots,  *)
(* and chunks shorter, as long and longer.  The graphs are all those on    *)
(* Nodes, circular ones too, in every status a plan can be rebuilt with,   *)
(* under the operations of the graph.                                      *)
(***************************************************************************)
EXTENDS RingBuffer, DependencyGraphCode, TLC

\* The graph of a plan without subtasks.
NoGraph ==
  /\ edges = <<>> /\ nodeStatus = <<>> /\ settled = <<>> /\ skips = <<>>
  /\ verdict = "acyclic" /\ color = <<>> /\ visits = <<>> /\ roots = {}

InitOneOf == NewRingBuffer /\ (NoGraph \/ NewGraph)

WriteBuffer == NoGraph /\ WriteChunk /\ UNCHANGED dependencyVars

NextOfGraph == ~NoGraph /\ DependencyNext /\ UNCHANGED ringVars

SpecOneOf == InitOneOf /\ [][WriteBuffer \/ NextOfGraph]_<<ringVars, dependencyVars>>

NodesAreAlike == Permutations(Nodes)
=============================================================================
