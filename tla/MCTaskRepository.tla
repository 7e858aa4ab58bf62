-------------------------- MODULE MCTaskRepository --------------------------
(***************************************************************************)
(* Two tasks; the first may be stopped once, and the second be relaunched  *)
(* from it.  Settings: a work branch with everything after it, with a      *)
(* memory; and commits pushed straight to the base branch, without.        *)
(***************************************************************************)
EXTENDS TaskRepository, TLC

CONSTANTS t1, t2

RunsDef == t1 :> 2 @@ t2 :> 1

Reviewed == [autoBranch |-> TRUE, autoCommit |-> TRUE, autoPush |-> TRUE, autoPR |-> TRUE, memory |-> TRUE]
Direct == [autoBranch |-> FALSE, autoCommit |-> TRUE, autoPush |-> TRUE, autoPR |-> FALSE, memory |-> FALSE]

BranchOrNot == {Reviewed, Direct}
=============================================================================
