----------------------------- MODULE FileLocks -----------------------------
(***************************************************************************)
(* task.FileLockService (internal/task/filelock.go) as operators on the    *)
(* map `locks', which gives every file its holder or Nobody.               *)
(***************************************************************************)
CONSTANTS Files, Nobody

NoLocks == [f \in Files |-> Nobody]

\* As if one free file were enough.
CanLockAny(locks, s, files) == files = {} \/ \E f \in files : locks[f] \in {Nobody, s}

\* A subtask that already holds a file takes it again.
CanLock(locks, s, files) == \A f \in files : locks[f] \in {Nobody, s}

Lock(locks, s, files) == [f \in Files |-> IF f \in files THEN s ELSE locks[f]]

\* As if the locks died with the run instead of with the subtask.
ReleaseNothing(locks, s) == locks

Release(locks, s) == [f \in Files |-> IF locks[f] = s THEN Nobody ELSE locks[f]]
=============================================================================
