---------------------------- MODULE MCCheckpoints ----------------------------
(***************************************************************************)
(* A goroutine that saves, the AutoSaver, a restore and a clean-up, with   *)
(* one file in the workspace.                                              *)
(***************************************************************************)
EXTENDS Checkpoints
=============================================================================
