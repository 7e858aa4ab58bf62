--------------------------- MODULE MCCollaborative ---------------------------
(***************************************************************************)
(* Two subtasks; the manager may ask for one of them, for one twice, or    *)
(* for something that is not in the plan.                                  *)
(***************************************************************************)
EXTENDS Collaborative

CONSTANTS s1, s2, ghost

PlanDef == <<s1, s2>>
RequestsDef == {<<>>, <<ghost, s1, s1>>}
=============================================================================
