-------------------------- MODULE MCTaskLifecycle --------------------------
(* TaskLifecycle on small instances; the constants are given in the .cfg files. *)
EXTENDS TaskLifecycle, TLC

Alike == {p @@ q : p \in Permutations(Users), q \in Permutations(Goroutines)}
==============================================================================
