----------------------------- MODULE Checkpoints -----------------------------
(***************************************************************************)
(* state.StateStore and state.AutoSaver (internal/state): the checkpoints  *)
(* of one task.  A checkpoint is a directory, written under a name ending  *)
(* in .tmp and renamed, and a row of the database that points to it.       *)
(* Saves and deletes hold StateStore.mu; restoring and listing do not.     *)
(* Several goroutines save: requests to stop the task, the executor, and   *)
(* the AutoSaver's own.  Agents go on writing to the workspace meanwhile.  *)
(* The process may crash between any two steps; the disk and the database  *)
(* stay as they were.                                                      *)
(*                                                                         *)
(* A failure to make the temporary directory ends a save before it has     *)
(* changed anything, and is a stuttering step.                             *)
(***************************************************************************)
EXTENDS Integers, FiniteSets

CONSTANTS
  Callers,         \* goroutines that call SaveCheckpoint
  AutoSaver,       \* the goroutine of the AutoSaver, which calls SaveCheckpointLive
  Readers,         \* requests to resume
  Cleaners,        \* goroutines that call Cleanup
  Files,           \* files of the workspace
  MaxCheckpoints,  \* config state.max_checkpoints; 0: keep all
  MaxSaves,        \* bound: saves begun
  MaxWork,         \* bound: changes of a file
  MaxCrashes       \* bound: crashes of the process

Savers == Callers \cup {AutoSaver}
Processes == Savers \cup Readers \cup Cleaners
Nobody == "nobody"
Ids == 1 .. MaxSaves
Missing == -1

ASSUME CheckpointsAssumption ==
  /\ MaxCheckpoints \in Nat /\ MaxSaves \in Nat /\ MaxWork \in Nat /\ MaxCrashes \in Nat
  /\ AutoSaver \notin Callers /\ Nobody \notin Processes
  /\ Readers \cap (Savers \cup Cleaners) = {} /\ Cleaners \cap Savers = {}

VARIABLES
  workspace,   \* the version of each file agents have written so far
  dir,         \* disk: a checkpoint's directory is absent, temporary or final
  content,     \* disk: the version of each file in it
  rows,        \* database: the checkpoints with a row
  createdAt,   \* when each was made: its created_at, and its directory's ModTime
  lock,        \* who holds StateStore.mu
  at,          \* how far each process has come
  job,         \* the checkpoint it is working on
  todo,        \* what a call of Cleanup has yet to delete
  cancelled,   \* the AutoSaver's context
  stopping,    \* a call of AutoSaver.Stop waits for the goroutine to end
  saves, crashes,  \* counters behind the bounds
  \* history, which no action reads:
  atStart,     \* the workspace as it was when each save began
  saved,       \* checkpoints whose save returned without an error
  known,       \* those of them that had a row when a restore began
  halfDeleted  \* checkpoints whose delete removed the directory but not (yet) the row

disk == <<dir, content>>
autosaver == <<cancelled, stopping>>
history == <<atStart, saved, known, halfDeleted>>
vars == <<workspace, disk, rows, createdAt, lock, at, job, todo, autosaver, saves, crashes, history>>

NoFiles == [f \in Files |-> Missing]
AtRest(p) == IF p = AutoSaver THEN "off" ELSE "idle"

Init ==
  /\ workspace = [f \in Files |-> 0]
  /\ dir = [i \in Ids |-> "none"]
  /\ content = [i \in Ids |-> NoFiles]
  /\ rows = {}
  /\ createdAt = [i \in Ids |-> 0]
  /\ lock = Nobody
  /\ at = [p \in Processes |-> AtRest(p)]
  /\ job = [p \in Processes |-> 0]
  /\ todo = [c \in Cleaners |-> {}]
  /\ cancelled = FALSE /\ stopping = FALSE
  /\ saves = 0 /\ crashes = 0
  /\ atStart = [i \in Ids |-> [f \in Files |-> 0]]
  /\ saved = {}
  /\ known = [r \in Readers |-> {}]
  /\ halfDeleted = {}

Newest(S) == CHOOSE i \in S : \A j \in S : createdAt[j] <= createdAt[i]

\* An agent writes a file of the workspace.
Write(f) ==
  /\ workspace[f] < MaxWork
  /\ workspace' = [workspace EXCEPT ![f] = @ + 1]
  /\ UNCHANGED <<disk, rows, createdAt, lock, at, job, todo, autosaver, saves, crashes, history>>
-----------------------------------------------------------------------------
\* As if doSaveCheckpoint were called without the mutex.
Unlocked == TRUE

Free == lock = Nobody

\* The mutex goes back, and the process to what it does between two calls.
Return(p) ==
  /\ lock' = Nobody
  /\ at' = [at EXCEPT ![p] = IF p = AutoSaver THEN "waiting" ELSE "idle"]
  /\ job' = [job EXCEPT ![p] = 0]

\* The ticker of the AutoSaver may be chosen although the context is cancelled as well.
BeginSave(p) ==
  /\ at[p] = IF p = AutoSaver THEN "waiting" ELSE "idle"
  /\ Free
  /\ saves < MaxSaves
  /\ lock' = p
  /\ saves' = saves + 1
  /\ job' = [job EXCEPT ![p] = saves + 1]
  /\ dir' = [dir EXCEPT ![saves + 1] = "tmp"]
  /\ at' = [at EXCEPT ![p] = "copying"]
  /\ atStart' = [atStart EXCEPT ![saves + 1] = workspace]
  /\ UNCHANGED <<workspace, content, rows, createdAt, todo, autosaver, crashes, saved, known, halfDeleted>>

CopyFile(p, f) ==
  /\ at[p] = "copying"
  /\ content[job[p]][f] = Missing
  /\ content' = [content EXCEPT ![job[p]][f] = workspace[f]]
  /\ UNCHANGED <<workspace, dir, rows, createdAt, lock, at, job, todo, autosaver, saves, crashes, history>>

\* All files are copied, or copying failed part-way, which is only logged.
EndCopy(p) ==
  /\ at[p] = "copying"
  /\ createdAt' = [createdAt EXCEPT ![job[p]] = 1 + Cardinality({i \in Ids : createdAt[i] > 0})]
  /\ at' = [at EXCEPT ![p] = "copied"]
  /\ UNCHANGED <<workspace, disk, rows, lock, job, todo, autosaver, saves, crashes, history>>

Rename(p) ==
  /\ at[p] = "copied"
  /\ dir' = [dir EXCEPT ![job[p]] = "final"]
  /\ at' = [at EXCEPT ![p] = "renamed"]
  /\ UNCHANGED <<workspace, content, rows, createdAt, lock, job, todo, autosaver, saves, crashes, history>>

\* plan-progress.json, checkpoint.json or the rename fails: the temporary directory goes.
AbortSave(p) ==
  /\ at[p] = "copied"
  /\ dir' = [dir EXCEPT ![job[p]] = "none"]
  /\ content' = [content EXCEPT ![job[p]] = NoFiles]
  /\ Return(p)
  /\ UNCHANGED <<workspace, rows, createdAt, todo, autosaver, saves, crashes, history>>

\* As if the row were inserted before the directory has its name.
CreateCheckpointFirst(p) ==
  /\ at[p] = "copied"
  /\ rows' = rows \cup {job[p]}
  /\ UNCHANGED <<workspace, disk, createdAt, lock, at, job, todo, autosaver, saves, crashes, history>>

CreateCheckpoint(p) ==
  /\ at[p] = "renamed"
  /\ p = AutoSaver => ~cancelled
  /\ rows' = rows \cup {job[p]}
  /\ saved' = saved \cup {job[p]}
  /\ Return(p)
  /\ UNCHANGED <<workspace, disk, createdAt, todo, autosaver, saves, crashes, atStart, known, halfDeleted>>

\* The database refuses, or the context is cancelled: the directory stays.
CreateCheckpointFails(p) ==
  /\ at[p] = "renamed"
  /\ Return(p)
  /\ UNCHANGED <<workspace, disk, rows, createdAt, todo, autosaver, saves, crashes, history>>
-----------------------------------------------------------------------------
StartAutoSave ==
  /\ at[AutoSaver] = "off"
  /\ at' = [at EXCEPT ![AutoSaver] = "waiting"]
  /\ UNCHANGED <<workspace, disk, rows, createdAt, lock, job, todo, autosaver, saves, crashes, history>>

\* The context of the task, from which the AutoSaver's is made, is cancelled.
CancelTask ==
  /\ at[AutoSaver] # "off" /\ ~cancelled
  /\ cancelled' = TRUE
  /\ UNCHANGED <<workspace, disk, rows, createdAt, lock, at, job, todo, stopping, saves, crashes, history>>

\* As if Stop cancelled nothing and only waited.
StopAutoSaveUncancelled ==
  /\ at[AutoSaver] # "off" /\ ~stopping
  /\ stopping' = TRUE
  /\ UNCHANGED <<workspace, disk, rows, createdAt, lock, at, job, todo, cancelled, saves, crashes, history>>

StopAutoSave ==
  /\ at[AutoSaver] # "off" /\ ~stopping
  /\ stopping' = TRUE
  /\ cancelled' = TRUE
  /\ UNCHANGED <<workspace, disk, rows, createdAt, lock, at, job, todo, saves, crashes, history>>

EndAutoSave ==
  /\ at[AutoSaver] = "waiting" /\ cancelled
  /\ at' = [at EXCEPT ![AutoSaver] = "ended"]
  /\ UNCHANGED <<workspace, disk, rows, createdAt, lock, job, todo, autosaver, saves, crashes, history>>

\* The channel `done' is closed, and Stop returns.
StopReturns ==
  /\ stopping /\ at[AutoSaver] = "ended"
  /\ stopping' = FALSE /\ cancelled' = FALSE
  /\ at' = [at EXCEPT ![AutoSaver] = "off"]
  /\ UNCHANGED <<workspace, disk, rows, createdAt, lock, job, todo, saves, crashes, history>>
-----------------------------------------------------------------------------
GetLatestCheckpoint(r) ==
  /\ at[r] = "idle" /\ rows # {}
  /\ job' = [job EXCEPT ![r] = Newest(rows)]
  /\ at' = [at EXCEPT ![r] = "found"]
  /\ known' = [known EXCEPT ![r] = saved \cap rows]
  /\ UNCHANGED <<workspace, disk, rows, createdAt, lock, todo, autosaver, saves, crashes, atStart, saved, halfDeleted>>

\* os.Stat finds the directory.
StatDirectory(r) ==
  /\ at[r] = "found"
  /\ dir[job[r]] = "final"
  /\ at' = [at EXCEPT ![r] = "restored"]
  /\ UNCHANGED <<workspace, disk, rows, createdAt, lock, job, todo, autosaver, saves, crashes, history>>

\* The restore is over: it failed, as the directory is not there, or is used.
EndRestore(r) ==
  /\ \/ at[r] = "found" /\ dir[job[r]] # "final"
     \/ at[r] = "restored"
  /\ at' = [at EXCEPT ![r] = "idle"]
  /\ job' = [job EXCEPT ![r] = 0]
  /\ known' = [known EXCEPT ![r] = {}]
  /\ UNCHANGED <<workspace, disk, rows, createdAt, lock, todo, autosaver, saves, crashes, atStart, saved, halfDeleted>>
-----------------------------------------------------------------------------
\* Every directory without the suffix .tmp, whether it has a row or not.
ListCheckpoints == {i \in Ids : dir[i] = "final"}

Rank(i) == Cardinality({j \in ListCheckpoints : createdAt[j] > createdAt[i]})

\* Cleanup lists, without the mutex, and decides: what is beyond max_checkpoints, and
\* what is older than the retention (made at or before some moment `cutoff').
BeginCleanup(c) ==
  /\ at[c] = "idle"
  /\ \E cutoff \in 0 .. MaxSaves :
       todo' = [todo EXCEPT ![c] =
                 {i \in ListCheckpoints : \/ MaxCheckpoints > 0 /\ Rank(i) >= MaxCheckpoints
                                          \/ createdAt[i] <= cutoff}]
  /\ at' = [at EXCEPT ![c] = "cleaning"]
  /\ UNCHANGED <<workspace, disk, rows, createdAt, lock, job, autosaver, saves, crashes, history>>

\* DeleteCheckpoint, newest first.
RemoveDirectory(c) ==
  /\ at[c] = "cleaning" /\ todo[c] # {} /\ Free
  /\ LET i == Newest(todo[c]) IN
       /\ dir' = [dir EXCEPT ![i] = "none"]
       /\ content' = [content EXCEPT ![i] = NoFiles]
       /\ halfDeleted' = halfDeleted \cup {i}
       /\ job' = [job EXCEPT ![c] = i]
       /\ todo' = [todo EXCEPT ![c] = @ \ {i}]
  /\ lock' = c
  /\ at' = [at EXCEPT ![c] = "removed"]
  /\ UNCHANGED <<workspace, rows, createdAt, autosaver, saves, crashes, atStart, saved, known>>

\* os.RemoveAll stops at a file it cannot remove; the row stays, and Cleanup goes on.
RemoveDirectoryFails(c) ==
  /\ at[c] = "cleaning" /\ todo[c] # {} /\ Free
  /\ LET i == Newest(todo[c]) IN
       /\ \E gone \in SUBSET Files :
            content' = [content EXCEPT ![i] = [f \in Files |-> IF f \in gone THEN Missing ELSE @[f]]]
       /\ halfDeleted' = halfDeleted \cup {i}
       /\ todo' = [todo EXCEPT ![c] = @ \ {i}]
  /\ UNCHANGED <<workspace, dir, rows, createdAt, lock, at, job, autosaver, saves, crashes, atStart, saved, known>>

BackToCleaning(c) ==
  /\ lock' = Nobody
  /\ at' = [at EXCEPT ![c] = "cleaning"]
  /\ job' = [job EXCEPT ![c] = 0]

DeleteRow(c) ==
  /\ at[c] = "removed"
  /\ rows' = rows \ {job[c]}
  /\ halfDeleted' = halfDeleted \ {job[c]}
  /\ BackToCleaning(c)
  /\ UNCHANGED <<workspace, disk, createdAt, todo, autosaver, saves, crashes, atStart, saved, known>>

\* Only logged.
DeleteRowFails(c) ==
  /\ at[c] = "removed"
  /\ BackToCleaning(c)
  /\ UNCHANGED <<workspace, disk, rows, createdAt, todo, autosaver, saves, crashes, history>>

EndCleanup(c) ==
  /\ at[c] = "cleaning" /\ todo[c] = {}
  /\ at' = [at EXCEPT ![c] = "idle"]
  /\ UNCHANGED <<workspace, disk, rows, createdAt, lock, job, todo, autosaver, saves, crashes, history>>

Crash ==
  /\ crashes < MaxCrashes
  /\ crashes' = crashes + 1
  /\ lock' = Nobody
  /\ at' = [p \in Processes |-> AtRest(p)]
  /\ job' = [p \in Processes |-> 0]
  /\ todo' = [c \in Cleaners |-> {}]
  /\ cancelled' = FALSE /\ stopping' = FALSE
  /\ known' = [r \in Readers |-> {}]
  /\ UNCHANGED <<workspace, disk, rows, createdAt, saves, atStart, saved, halfDeleted>>
-----------------------------------------------------------------------------
Save(p) ==
  \/ BeginSave(p) \/ EndCopy(p) \/ Rename(p) \/ AbortSave(p)
  \/ CreateCheckpoint(p) \/ CreateCheckpointFails(p)
  \/ \E f \in Files : CopyFile(p, f)

Restore(r) == GetLatestCheckpoint(r) \/ StatDirectory(r) \/ EndRestore(r)

Cleanup(c) ==
  \/ BeginCleanup(c) \/ RemoveDirectory(c) \/ RemoveDirectoryFails(c)
  \/ DeleteRow(c) \/ DeleteRowFails(c) \/ EndCleanup(c)

AutoSave == StartAutoSave \/ CancelTask \/ StopAutoSave \/ EndAutoSave \/ StopReturns

Next ==
  \/ \E f \in Files : Write(f)
  \/ \E p \in Savers : Save(p)
  \/ \E r \in Readers : Restore(r)
  \/ \E c \in Cleaners : Cleanup(c)
  \/ AutoSave
  \/ Crash

\* A save, once begun, and a delete go on to their end.  The select of the AutoSaver
\* chooses at random: it cannot take the ticker every time.
Fairness ==
  /\ \A p \in Savers : /\ WF_vars(EndCopy(p))
                       /\ WF_vars(Rename(p) \/ AbortSave(p))
                       /\ WF_vars(CreateCheckpoint(p) \/ CreateCheckpointFails(p))
  /\ \A c \in Cleaners : WF_vars(DeleteRow(c) \/ DeleteRowFails(c))
  /\ SF_vars(EndAutoSave)
  /\ WF_vars(StopReturns)

Spec == Init /\ [][Next]_vars
FairSpec == Spec /\ Fairness
-----------------------------------------------------------------------------
(***************************************************************************)
(* Properties                                                              *)
(***************************************************************************)
TypeOK ==
  /\ workspace \in [Files -> 0 .. MaxWork]
  /\ dir \in [Ids -> {"none", "tmp", "final"}]
  /\ content \in [Ids -> [Files -> Missing .. MaxWork]]
  /\ rows \subseteq Ids
  /\ createdAt \in [Ids -> 0 .. MaxSaves]
  /\ lock \in Processes \cup {Nobody}
  /\ at \in [Processes -> {"off", "waiting", "ended", "idle", "copying", "copied", "renamed",
                           "found", "restored", "cleaning", "removed"}]
  /\ job \in [Processes -> 0 .. MaxSaves]
  /\ todo \in [Cleaners -> SUBSET Ids]
  /\ cancelled \in BOOLEAN /\ stopping \in BOOLEAN
  /\ saves \in 0 .. MaxSaves /\ crashes \in 0 .. MaxCrashes
  /\ atStart \in [Ids -> [Files -> 0 .. MaxWork]]
  /\ saved \subseteq Ids /\ halfDeleted \subseteq Ids
  /\ known \in [Readers -> SUBSET Ids]

\* A row points to a directory that is there and has its final name, whatever saves,
\* deletes and crashes went before, unless a delete of that very checkpoint removed
\* the directory and then failed, crashed or is still at it (store.go:131-156, 374-380).
RowsHaveDirectories == \A i \in rows : dir[i] = "final" \/ i \in halfDeleted

\* What RestoreCheckpoint hands to Resume is no older, file by file, than the workspace
\* was when any save began that had returned when the restore did begin: two saves
\* at once cannot leave the older copy as the latest row (store.go:39-40, 99, 286-324).
\* A file whose copying failed is not in it at all (store.go:75-78).
RestoresTheLatest ==
  \A r \in Readers : at[r] = "restored" =>
    \A i \in known[r], f \in Files :
      content[job[r]][f] # Missing => content[job[r]][f] >= atStart[i][f]

\* Stop of the AutoSaver returns, although it waits for a goroutine that may have to
\* wait for the mutex, save once more, and choose between two channels (autosave.go:54-92).
\* Execute waits for it, and with it the goroutine that holds the task.
StopAutoSaveReturns == stopping ~> ~stopping
=============================================================================
