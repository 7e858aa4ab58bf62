------------------------ MODULE MCSequentialExecutor ------------------------
(***************************************************************************)
(* Two subtasks, the second of which depends on the first, listed in this  *)
(* order or in the other, and as many stops and resumes as the runs allow. *)
(***************************************************************************)
EXTENDS SequentialExecutor, TLC

CONSTANTS a, b

DependsOnDef == a :> {} @@ b :> {a}
OrdersDef == {<<a, b>>, <<b, a>>}
=============================================================================
