--------------------------- MODULE MCOrchestrator ---------------------------
(***************************************************************************)
(* Small instances of Orchestrator: three subtasks and two files.          *)
(***************************************************************************)
EXTENDS Orchestrator

CONSTANTS s1, s2, s3, f1, f2

Graph(of1, of2, of3) ==
  [s \in Subtasks |-> CASE s = s1 -> of1 [] s = s2 -> of2 [] s = s3 -> of3]

NoFiles == Graph({}, {}, {})

Chain == [deps |-> Graph({}, {s1}, {s2}), files |-> NoFiles, reviewer |-> FALSE]
Join == [deps |-> Graph({}, {}, {s1, s2}), files |-> Graph({f1}, {f1}, {f1}), reviewer |-> FALSE]
Fork == [deps |-> Graph({}, {s1}, {s1}), files |-> Graph({f1}, {f1, f2}, {f2}), reviewer |-> TRUE]
Circle == [deps |-> Graph({}, {s3}, {s2}), files |-> NoFiles, reviewer |-> FALSE]

Typical == {Chain, Join, Fork, Circle}
=============================================================================
