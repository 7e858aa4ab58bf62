--------------------------- MODULE CheckpointsProofs ---------------------------
(***************************************************************************)
(* Theorems about Checkpoints, for any number of processes, files, saves   *)
(* and crashes.                                                            *)
(***************************************************************************)
EXTENDS Checkpoints, FiniteSetTheorems, WellFoundedInduction, TLAPS

Saving == {"copying", "copied", "renamed"}
Stamped == {i \in Ids : createdAt[i] > 0}

\* A save or a delete under way holds the mutex.
LockIsHeld == \A p \in Processes : at[p] \in Saving \cup {"removed"} => lock = p

\* It is the last one begun, and has neither a row nor, before its end, a time stamp.
SavesAreNew ==
  /\ \A i \in Ids : i > saves => createdAt[i] = 0 /\ content[i] = NoFiles
  /\ \A i \in rows : i <= saves /\ createdAt[i] > 0
  /\ \A p \in Savers : at[p] \in Saving =>
       /\ job[p] = saves /\ saves \in Ids /\ saves \notin rows
       /\ at[p] = "copying" <=> createdAt[saves] = 0
       /\ at[p] = "renamed" => dir[saves] = "final"

\* Time stamps follow the order of the saves.
StampsAreOrdered ==
  /\ \A i \in Ids : createdAt[i] <= Cardinality(Stamped)
  /\ \A i, j \in Stamped : i < j => createdAt[i] < createdAt[j]

\* A copy of a file is no older than the file was when this or an earlier save began.
CopiesAreFresh ==
  \A f \in Files : \A i, j \in 1 .. saves :
    /\ atStart[i][f] <= workspace[f]
    /\ i <= j /\ content[j][f] # Missing => atStart[i][f] <= content[j][f]

\* The checkpoint a reader found was begun after all those it could have found.
FoundIsLast ==
  \A r \in Readers : at[r] \in {"found", "restored"} =>
    job[r] \in 1 .. saves /\ known[r] \subseteq 1 .. job[r]

CheckpointsInv ==
  /\ TypeOK /\ LockIsHeld /\ SavesAreNew /\ RowsHaveDirectories
  /\ StampsAreOrdered /\ CopiesAreFresh /\ FoundIsLast
-----------------------------------------------------------------------------
\* Newest finds an element with the greatest time stamp.
LEMMA NewestIsNewest ==
  ASSUME createdAt \in [Ids -> Nat], MaxSaves \in Nat, NEW S \in SUBSET Ids, S # {}
  PROVE  Newest(S) \in S /\ \A j \in S : createdAt[j] <= createdAt[Newest(S)]
<1> DEFINE Younger(i) == {j \in S : createdAt[j] > createdAt[i]}
           T == {Younger(i) : i \in S}
           R == StrictSubsetOrdering(S)
<1>1. IsFiniteSet(S)
  <2>1. IsFiniteSet(Ids)
    BY FS_Interval DEF Ids
  <2> QED BY <2>1, FS_Subset
<1>2. IsWellFoundedOn(R, FiniteSubsetsOf(S))
  BY FS_StrictSubsetOrderingWellFounded
<1>3. T \subseteq FiniteSubsetsOf(S) /\ T # {}
  <2>1. T \subseteq SUBSET S /\ T # {}
    OBVIOUS
  <2> QED BY <2>1, <1>1, FS_FiniteSubsetsOfFinite
<1>4. PICK U \in T : \A V \in T : ~(<<V, U>> \in R)
  <2> HIDE DEF T, R
  <2> QED BY <1>2, <1>3, WFMin
<1>5. PICK i \in S : U = Younger(i)
  OBVIOUS
<1>6. Younger(i) = {}
  <2> SUFFICES ASSUME NEW j \in Younger(i)
               PROVE  FALSE
    OBVIOUS
  <2>1. createdAt[i] \in Nat /\ createdAt[j] \in Nat /\ createdAt[j] > createdAt[i]
    OBVIOUS
  <2>2. Younger(j) \subseteq Younger(i) /\ j \notin Younger(j)
    <3> SUFFICES ASSUME NEW k \in S, createdAt[k] > createdAt[j]
                 PROVE  createdAt[k] > createdAt[i]
      BY <2>1
    <3> createdAt[k] \in Nat
      OBVIOUS
    <3> QED BY <2>1
  <2>3. <<Younger(j), Younger(i)>> \in R
    BY <2>2 DEF StrictSubsetOrdering
  <2> QED BY <2>3, <1>4, <1>5
<1>7. \A j \in S : createdAt[j] <= createdAt[i]
  <2> SUFFICES ASSUME NEW j \in S
               PROVE  createdAt[j] <= createdAt[i]
    OBVIOUS
  <2> createdAt[i] \in Nat /\ createdAt[j] \in Nat
    OBVIOUS
  <2> QED BY <1>6
<1> QED BY <1>7 DEF Newest

\* At most as many checkpoints are stamped as there are ids.
LEMMA StampsAreFew ==
  ASSUME MaxSaves \in Nat
  PROVE  /\ IsFiniteSet(Stamped) /\ Cardinality(Stamped) \in Nat
         /\ Cardinality(Stamped) <= MaxSaves
         /\ \A i \in Ids : i \notin Stamped =>
              /\ Cardinality(Stamped) + 1 <= MaxSaves
              /\ Cardinality(Stamped \cup {i}) = Cardinality(Stamped) + 1
<1>1. IsFiniteSet(Ids) /\ Cardinality(Ids) = MaxSaves
  BY FS_Interval DEF Ids
<1>2. Stamped \in SUBSET Ids
  BY DEF Stamped
<1>3. IsFiniteSet(Stamped) /\ Cardinality(Stamped) <= MaxSaves
  BY <1>1, <1>2, FS_Subset
<1>4. ASSUME NEW i \in Ids, i \notin Stamped
      PROVE  /\ Cardinality(Stamped) + 1 <= MaxSaves
             /\ Cardinality(Stamped \cup {i}) = Cardinality(Stamped) + 1
  <2>1. Cardinality(Stamped \cup {i}) = Cardinality(Stamped) + 1
    BY <1>3, <1>4, FS_AddElement
  <2>2. (Stamped \cup {i}) \in SUBSET Ids
    BY <1>2
  <2> HIDE DEF Stamped
  <2>3. Cardinality(Stamped \cup {i}) <= MaxSaves
    BY <1>1, <2>2, FS_Subset
  <2> QED BY <2>1, <2>3
<1> QED BY <1>3, <1>4, FS_CardinalityType
-----------------------------------------------------------------------------
\* The variables keep their types.
LEMMA Typed ==
  ASSUME CheckpointsInv, [Next]_vars
  PROVE  TypeOK'
<1> USE CheckpointsAssumption
        DEF CheckpointsInv, TypeOK, Processes, Savers, disk, autosaver, history
<1>1. ASSUME NEW f \in Files, Write(f)
      PROVE  TypeOK'
  BY <1>1 DEF Write
<1>2. ASSUME NEW p \in Savers, BeginSave(p)
      PROVE  TypeOK'
  <2>1. saves + 1 \in Ids
    BY <1>2 DEF BeginSave, Ids
  <2> QED BY <1>2, <2>1 DEF BeginSave
<1>3. ASSUME NEW p \in Savers, EndCopy(p)
      PROVE  TypeOK'
  <2>1. at[p] \in Saving
    BY <1>3 DEF EndCopy, Saving
  <2>2. job[p] \in Ids
    BY <2>1 DEF SavesAreNew
  <2>3. job[p] \notin Stamped
    BY <2>1, <1>3 DEF EndCopy, SavesAreNew, Stamped
  <2>4. Cardinality(Stamped) \in Nat /\ Cardinality(Stamped) + 1 <= MaxSaves
    <3>1. MaxSaves \in Nat
      OBVIOUS
    <3> QED BY ONLY <2>2, <2>3, <3>1, StampsAreFew
  <2>5. 1 + Cardinality(Stamped) \in 0 .. MaxSaves
    BY <2>4
  <2> QED BY <1>3, <2>2, <2>5 DEF EndCopy, Stamped
<1>4. ASSUME NEW p \in Savers, Rename(p)
      PROVE  TypeOK'
  BY <1>4 DEF Rename
<1>5. ASSUME NEW p \in Savers, AbortSave(p)
      PROVE  TypeOK'
  <2>1. NoFiles \in [Files -> Missing .. MaxWork]
    BY DEF NoFiles, Missing
  <2>2. content' \in [Ids -> [Files -> Missing .. MaxWork]]
    BY <1>5, <2>1 DEF AbortSave
  <2> QED BY <1>5, <2>2 DEF AbortSave, Return
<1>6. ASSUME NEW p \in Savers, CreateCheckpoint(p)
      PROVE  TypeOK'
  <2>1. at[p] \in Saving
    BY <1>6 DEF CreateCheckpoint, Saving
  <2>2. job[p] \in Ids
    BY <2>1 DEF SavesAreNew
  <2> QED BY <1>6, <2>2 DEF CreateCheckpoint, Return
<1>7. ASSUME NEW p \in Savers, CreateCheckpointFails(p)
      PROVE  TypeOK'
  BY <1>7 DEF CreateCheckpointFails, Return
<1>8. ASSUME NEW p \in Savers, NEW f \in Files, CopyFile(p, f)
      PROVE  TypeOK'
  <2>1. at[p] \in Saving
    BY <1>8 DEF CopyFile, Saving
  <2>2. job[p] \in Ids
    BY <2>1 DEF SavesAreNew
  <2>3. workspace[f] \in Missing .. MaxWork
    BY DEF Missing
  <2>4. [content[job[p]] EXCEPT ![f] = workspace[f]] \in [Files -> Missing .. MaxWork]
    BY <2>2, <2>3
  <2>5. content' \in [Ids -> [Files -> Missing .. MaxWork]]
    BY <1>8, <2>4 DEF CopyFile
  <2> QED BY <1>8, <2>5 DEF CopyFile
<1>9. ASSUME NEW r \in Readers, GetLatestCheckpoint(r)
      PROVE  TypeOK'
  <2>1. createdAt \in [Ids -> Nat] /\ MaxSaves \in Nat
    OBVIOUS
  <2>2. Newest(rows) \in Ids
    BY <1>9, <2>1, NewestIsNewest DEF GetLatestCheckpoint
  <2>3. Newest(rows) \in 0 .. MaxSaves
    BY <2>2 DEF Ids
  <2> QED BY <1>9, <2>3 DEF GetLatestCheckpoint
<1>10. ASSUME NEW r \in Readers, StatDirectory(r)
      PROVE  TypeOK'
  BY <1>10 DEF StatDirectory
<1>11. ASSUME NEW r \in Readers, EndRestore(r)
      PROVE  TypeOK'
  BY <1>11 DEF EndRestore
<1>12. ASSUME NEW c \in Cleaners, BeginCleanup(c)
      PROVE  TypeOK'
  <2>1. ListCheckpoints \subseteq Ids
    BY DEF ListCheckpoints
  <2> QED BY <1>12, <2>1 DEF BeginCleanup
<1>13. ASSUME NEW c \in Cleaners, RemoveDirectory(c)
      PROVE  TypeOK'
  <2> DEFINE i == Newest(todo[c])
  <2>1. createdAt \in [Ids -> Nat] /\ MaxSaves \in Nat
    OBVIOUS
  <2>2. i \in Ids
    BY <1>13, <2>1, NewestIsNewest DEF RemoveDirectory
  <2>3. i \in 0 .. MaxSaves /\ NoFiles \in [Files -> Missing .. MaxWork]
    BY <2>2 DEF Ids, NoFiles, Missing
  <2> HIDE DEF i
  <2> QED BY <1>13, <2>2, <2>3 DEF RemoveDirectory, i
<1>14. ASSUME NEW c \in Cleaners, RemoveDirectoryFails(c)
      PROVE  TypeOK'
  <2> DEFINE i == Newest(todo[c])
             Left(gone) == [f \in Files |-> IF f \in gone THEN Missing ELSE content[i][f]]
  <2>1. createdAt \in [Ids -> Nat] /\ MaxSaves \in Nat
    OBVIOUS
  <2>2. i \in Ids
    BY <1>14, <2>1, NewestIsNewest DEF RemoveDirectoryFails
  <2> HIDE DEF i
  <2>3. PICK gone \in SUBSET Files : content' = [content EXCEPT ![i] = Left(gone)]
    BY <1>14, <2>2 DEF RemoveDirectoryFails, i
  <2>4. Left(gone) \in [Files -> Missing .. MaxWork]
    BY <2>2 DEF Missing
  <2> HIDE DEF Left
  <2>5. content' \in [Ids -> [Files -> Missing .. MaxWork]]
    BY <2>3, <2>4
  <2> QED BY <1>14, <2>2, <2>5 DEF RemoveDirectoryFails, i
<1>15. ASSUME NEW c \in Cleaners, DeleteRow(c)
      PROVE  TypeOK'
  BY <1>15 DEF DeleteRow, BackToCleaning
<1>16. ASSUME NEW c \in Cleaners, DeleteRowFails(c)
      PROVE  TypeOK'
  BY <1>16 DEF DeleteRowFails, BackToCleaning
<1>17. ASSUME NEW c \in Cleaners, EndCleanup(c)
      PROVE  TypeOK'
  BY <1>17 DEF EndCleanup
<1>18. CASE StartAutoSave
  BY <1>18 DEF StartAutoSave
<1>19. CASE CancelTask
  BY <1>19 DEF CancelTask
<1>20. CASE StopAutoSave
  BY <1>20 DEF StopAutoSave
<1>21. CASE EndAutoSave
  BY <1>21 DEF EndAutoSave
<1>22. CASE StopReturns
  BY <1>22 DEF StopReturns
<1>23. CASE Crash
  <2>1. \A p \in Processes : AtRest(p) \in {"off", "idle"}
    BY DEF AtRest
  <2>2. at' \in [Processes -> {"off", "idle"}]
    BY <1>23, <2>1 DEF Crash
  <2>4. at' \in [Processes -> {"off", "waiting", "ended", "idle", "copying", "copied", "renamed",
                              "found", "restored", "cleaning", "removed"}]
    BY <2>2
  <2>5. job' \in [Processes -> 0 .. MaxSaves] /\ crashes' \in 0 .. MaxCrashes
    BY <1>23 DEF Crash
  <2>3. todo' \in [Cleaners -> SUBSET Ids] /\ known' \in [Readers -> SUBSET Ids]
    BY <1>23 DEF Crash
  <2> QED BY <1>23, <2>3, <2>4, <2>5 DEF Crash
<1>24. CASE UNCHANGED vars
  BY <1>24 DEF vars
<1> QED BY <1>1, <1>2, <1>3, <1>4, <1>5, <1>6, <1>7, <1>8, <1>9, <1>10, <1>11, <1>12, <1>13, <1>14,
           <1>15, <1>16, <1>17, <1>18, <1>19, <1>20, <1>21, <1>22, <1>23,
           <1>24 DEF Next, Save, Restore, Cleanup, AutoSave

\* Who takes the mutex found it free.
LEMMA LockStaysHeld ==
  ASSUME CheckpointsInv, [Next]_vars
  PROVE  LockIsHeld'
<1> USE CheckpointsAssumption
        DEF CheckpointsInv, TypeOK, Processes, Savers, Saving, Free, disk, autosaver,
            history, Return, BackToCleaning, AtRest, LockIsHeld
<1>1. ASSUME NEW f \in Files, Write(f)
      PROVE  LockIsHeld'
  BY <1>1 DEF Write
<1>2. ASSUME NEW p \in Savers, BeginSave(p)
      PROVE  LockIsHeld'
  BY <1>2 DEF BeginSave
<1>3. ASSUME NEW p \in Savers, EndCopy(p)
      PROVE  LockIsHeld'
  BY <1>3 DEF EndCopy
<1>4. ASSUME NEW p \in Savers, Rename(p)
      PROVE  LockIsHeld'
  BY <1>4 DEF Rename
<1>5. ASSUME NEW p \in Savers, AbortSave(p)
      PROVE  LockIsHeld'
  BY <1>5 DEF AbortSave
<1>6. ASSUME NEW p \in Savers, CreateCheckpoint(p)
      PROVE  LockIsHeld'
  BY <1>6 DEF CreateCheckpoint
<1>7. ASSUME NEW p \in Savers, CreateCheckpointFails(p)
      PROVE  LockIsHeld'
  BY <1>7 DEF CreateCheckpointFails
<1>8. ASSUME NEW p \in Savers, NEW f \in Files, CopyFile(p, f)
      PROVE  LockIsHeld'
  BY <1>8 DEF CopyFile
<1>9. ASSUME NEW r \in Readers, GetLatestCheckpoint(r)
      PROVE  LockIsHeld'
  BY <1>9 DEF GetLatestCheckpoint
<1>10. ASSUME NEW r \in Readers, StatDirectory(r)
      PROVE  LockIsHeld'
  BY <1>10 DEF StatDirectory
<1>11. ASSUME NEW r \in Readers, EndRestore(r)
      PROVE  LockIsHeld'
  BY <1>11 DEF EndRestore
<1>12. ASSUME NEW c \in Cleaners, BeginCleanup(c)
      PROVE  LockIsHeld'
  BY <1>12 DEF BeginCleanup
<1>13. ASSUME NEW c \in Cleaners, RemoveDirectory(c)
      PROVE  LockIsHeld'
  BY <1>13 DEF RemoveDirectory
<1>14. ASSUME NEW c \in Cleaners, RemoveDirectoryFails(c)
      PROVE  LockIsHeld'
  BY <1>14 DEF RemoveDirectoryFails
<1>15. ASSUME NEW c \in Cleaners, DeleteRow(c)
      PROVE  LockIsHeld'
  BY <1>15 DEF DeleteRow
<1>16. ASSUME NEW c \in Cleaners, DeleteRowFails(c)
      PROVE  LockIsHeld'
  BY <1>16 DEF DeleteRowFails
<1>17. ASSUME NEW c \in Cleaners, EndCleanup(c)
      PROVE  LockIsHeld'
  BY <1>17 DEF EndCleanup
<1>18. CASE StartAutoSave
  BY <1>18 DEF StartAutoSave
<1>19. CASE CancelTask
  BY <1>19 DEF CancelTask
<1>20. CASE StopAutoSave
  BY <1>20 DEF StopAutoSave
<1>21. CASE EndAutoSave
  BY <1>21 DEF EndAutoSave
<1>22. CASE StopReturns
  BY <1>22 DEF StopReturns
<1>23. CASE Crash
  BY <1>23 DEF Crash
<1>24. CASE UNCHANGED vars
  BY <1>24 DEF vars
<1> QED BY <1>1, <1>2, <1>3, <1>4, <1>5, <1>6, <1>7, <1>8, <1>9, <1>10, <1>11, <1>12, <1>13, <1>14,
           <1>15, <1>16, <1>17, <1>18, <1>19, <1>20, <1>21, <1>22, <1>23,
           <1>24 DEF Next, Save, Restore, Cleanup, AutoSave

\* A save works on a checkpoint that nobody else touches.
LEMMA SavesStayNew ==
  ASSUME CheckpointsInv, [Next]_vars
  PROVE  SavesAreNew'
<1> USE CheckpointsAssumption
        DEF CheckpointsInv, TypeOK, Processes, Savers, Saving, Free, disk, autosaver,
            history, Return, BackToCleaning, AtRest, LockIsHeld, SavesAreNew, Ids
<1>1. ASSUME NEW f \in Files, Write(f)
      PROVE  SavesAreNew'
  BY <1>1 DEF Write
<1>2. ASSUME NEW p \in Savers, BeginSave(p)
      PROVE  SavesAreNew'
  BY <1>2 DEF BeginSave
<1>3. ASSUME NEW p \in Savers, EndCopy(p)
      PROVE  SavesAreNew'
  <2>1. at[p] \in Saving /\ job[p] = saves /\ saves \in Ids
    BY <1>3 DEF EndCopy
  <2>2. PICK n : createdAt' = [createdAt EXCEPT ![saves] = n] /\ n > 0
    <3>1. 1 + Cardinality(Stamped) > 0
      <4>1. MaxSaves \in Nat
        OBVIOUS
      <4>2. Cardinality(Stamped) \in Nat
        BY ONLY <4>1, StampsAreFew
      <4> QED BY <4>2
    <3> QED BY <1>3, <2>1, <3>1 DEF EndCopy, Stamped
  <2>3. \A q \in Savers : at[q] \in Saving => q = p
    BY <2>1
  <2>4. /\ at' = [at EXCEPT ![p] = "copied"]
        /\ UNCHANGED <<dir, content, rows, job, saves>>
    BY <1>3 DEF EndCopy
  <2>5. createdAt'[saves] # 0 /\ \A i \in Ids : i # saves => createdAt'[i] = createdAt[i]
    BY <2>1, <2>2
  <2>6. \A q \in Savers : at'[q] \in Saving => q = p
    BY <2>3, <2>4
  <2>7. \A i \in Ids : i > saves' => createdAt'[i] = 0 /\ content'[i] = NoFiles
    BY <2>4, <2>5
  <2>8. \A i \in rows' : i <= saves' /\ createdAt'[i] > 0
    BY <2>1, <2>4, <2>5
  <2> QED BY <2>1, <2>4, <2>5, <2>6, <2>7, <2>8
<1>4. ASSUME NEW p \in Savers, Rename(p)
      PROVE  SavesAreNew'
  BY <1>4 DEF Rename
<1>5. ASSUME NEW p \in Savers, AbortSave(p)
      PROVE  SavesAreNew'
  BY <1>5 DEF AbortSave
<1>6. ASSUME NEW p \in Savers, CreateCheckpoint(p)
      PROVE  SavesAreNew'
  BY <1>6 DEF CreateCheckpoint
<1>7. ASSUME NEW p \in Savers, CreateCheckpointFails(p)
      PROVE  SavesAreNew'
  BY <1>7 DEF CreateCheckpointFails
<1>8. ASSUME NEW p \in Savers, NEW f \in Files, CopyFile(p, f)
      PROVE  SavesAreNew'
  BY <1>8 DEF CopyFile
<1>9. ASSUME NEW r \in Readers, GetLatestCheckpoint(r)
      PROVE  SavesAreNew'
  BY <1>9 DEF GetLatestCheckpoint
<1>10. ASSUME NEW r \in Readers, StatDirectory(r)
      PROVE  SavesAreNew'
  BY <1>10 DEF StatDirectory
<1>11. ASSUME NEW r \in Readers, EndRestore(r)
      PROVE  SavesAreNew'
  BY <1>11 DEF EndRestore
<1>12. ASSUME NEW c \in Cleaners, BeginCleanup(c)
      PROVE  SavesAreNew'
  BY <1>12 DEF BeginCleanup
<1>13. ASSUME NEW c \in Cleaners, RemoveDirectory(c)
      PROVE  SavesAreNew'
  BY <1>13 DEF RemoveDirectory
<1>14. ASSUME NEW c \in Cleaners, RemoveDirectoryFails(c)
      PROVE  SavesAreNew'
  <2> DEFINE j == Newest(todo[c])
  <2>1. PICK gone \in SUBSET Files :
          content' = [content EXCEPT ![j] = [f \in Files |-> IF f \in gone THEN Missing ELSE @[f]]]
    BY <1>14 DEF RemoveDirectoryFails
  <2> HIDE DEF j
  <2>2. ASSUME NEW i \in Ids, content[i] = NoFiles
        PROVE  content'[i] = NoFiles
    BY <2>1, <2>2 DEF NoFiles
  <2> QED BY <1>14, <2>2 DEF RemoveDirectoryFails
<1>15. ASSUME NEW c \in Cleaners, DeleteRow(c)
      PROVE  SavesAreNew'
  BY <1>15 DEF DeleteRow
<1>16. ASSUME NEW c \in Cleaners, DeleteRowFails(c)
      PROVE  SavesAreNew'
  BY <1>16 DEF DeleteRowFails
<1>17. ASSUME NEW c \in Cleaners, EndCleanup(c)
      PROVE  SavesAreNew'
  BY <1>17 DEF EndCleanup
<1>18. CASE StartAutoSave
  BY <1>18 DEF StartAutoSave
<1>19. CASE CancelTask
  BY <1>19 DEF CancelTask
<1>20. CASE StopAutoSave
  BY <1>20 DEF StopAutoSave
<1>21. CASE EndAutoSave
  BY <1>21 DEF EndAutoSave
<1>22. CASE StopReturns
  BY <1>22 DEF StopReturns
<1>23. CASE Crash
  BY <1>23 DEF Crash
<1>24. CASE UNCHANGED vars
  BY <1>24 DEF vars
<1> QED BY <1>1, <1>2, <1>3, <1>4, <1>5, <1>6, <1>7, <1>8, <1>9, <1>10, <1>11, <1>12, <1>13, <1>14,
           <1>15, <1>16, <1>17, <1>18, <1>19, <1>20, <1>21, <1>22, <1>23,
           <1>24 DEF Next, Save, Restore, Cleanup, AutoSave

\* The directory of a row is the business of the deletes only.
LEMMA RowsStay ==
  ASSUME CheckpointsInv, [Next]_vars
  PROVE  RowsHaveDirectories'
<1> USE CheckpointsAssumption
        DEF CheckpointsInv, TypeOK, Processes, Savers, Saving, Free, disk, autosaver,
            history, Return, BackToCleaning, AtRest, LockIsHeld, SavesAreNew,
            RowsHaveDirectories
<1>1. ASSUME NEW f \in Files, Write(f)
      PROVE  RowsHaveDirectories'
  BY <1>1 DEF Write
<1>2. ASSUME NEW p \in Savers, BeginSave(p)
      PROVE  RowsHaveDirectories'
  BY <1>2 DEF BeginSave
<1>3. ASSUME NEW p \in Savers, EndCopy(p)
      PROVE  RowsHaveDirectories'
  BY <1>3 DEF EndCopy
<1>4. ASSUME NEW p \in Savers, Rename(p)
      PROVE  RowsHaveDirectories'
  BY <1>4 DEF Rename
<1>5. ASSUME NEW p \in Savers, AbortSave(p)
      PROVE  RowsHaveDirectories'
  BY <1>5 DEF AbortSave
<1>6. ASSUME NEW p \in Savers, CreateCheckpoint(p)
      PROVE  RowsHaveDirectories'
  BY <1>6 DEF CreateCheckpoint
<1>7. ASSUME NEW p \in Savers, CreateCheckpointFails(p)
      PROVE  RowsHaveDirectories'
  BY <1>7 DEF CreateCheckpointFails
<1>8. ASSUME NEW p \in Savers, NEW f \in Files, CopyFile(p, f)
      PROVE  RowsHaveDirectories'
  BY <1>8 DEF CopyFile
<1>9. ASSUME NEW r \in Readers, GetLatestCheckpoint(r)
      PROVE  RowsHaveDirectories'
  BY <1>9 DEF GetLatestCheckpoint
<1>10. ASSUME NEW r \in Readers, StatDirectory(r)
      PROVE  RowsHaveDirectories'
  BY <1>10 DEF StatDirectory
<1>11. ASSUME NEW r \in Readers, EndRestore(r)
      PROVE  RowsHaveDirectories'
  BY <1>11 DEF EndRestore
<1>12. ASSUME NEW c \in Cleaners, BeginCleanup(c)
      PROVE  RowsHaveDirectories'
  BY <1>12 DEF BeginCleanup
<1>13. ASSUME NEW c \in Cleaners, RemoveDirectory(c)
      PROVE  RowsHaveDirectories'
  BY <1>13 DEF RemoveDirectory
<1>14. ASSUME NEW c \in Cleaners, RemoveDirectoryFails(c)
      PROVE  RowsHaveDirectories'
  BY <1>14 DEF RemoveDirectoryFails
<1>15. ASSUME NEW c \in Cleaners, DeleteRow(c)
      PROVE  RowsHaveDirectories'
  BY <1>15 DEF DeleteRow
<1>16. ASSUME NEW c \in Cleaners, DeleteRowFails(c)
      PROVE  RowsHaveDirectories'
  BY <1>16 DEF DeleteRowFails
<1>17. ASSUME NEW c \in Cleaners, EndCleanup(c)
      PROVE  RowsHaveDirectories'
  BY <1>17 DEF EndCleanup
<1>18. CASE StartAutoSave
  BY <1>18 DEF StartAutoSave
<1>19. CASE CancelTask
  BY <1>19 DEF CancelTask
<1>20. CASE StopAutoSave
  BY <1>20 DEF StopAutoSave
<1>21. CASE EndAutoSave
  BY <1>21 DEF EndAutoSave
<1>22. CASE StopReturns
  BY <1>22 DEF StopReturns
<1>23. CASE Crash
  BY <1>23 DEF Crash
<1>24. CASE UNCHANGED vars
  BY <1>24 DEF vars
<1> QED BY <1>1, <1>2, <1>3, <1>4, <1>5, <1>6, <1>7, <1>8, <1>9, <1>10, <1>11, <1>12, <1>13, <1>14,
           <1>15, <1>16, <1>17, <1>18, <1>19, <1>20, <1>21, <1>22, <1>23,
           <1>24 DEF Next, Save, Restore, Cleanup, AutoSave

\* A restore finds the last of the checkpoints with a row.
LEMMA FoundStaysLast ==
  ASSUME CheckpointsInv, [Next]_vars
  PROVE  FoundIsLast'
<1> USE CheckpointsAssumption
        DEF CheckpointsInv, TypeOK, Processes, Savers, Saving, Free, disk, autosaver,
            history, Return, BackToCleaning, AtRest, SavesAreNew, FoundIsLast, Ids
<1>1. ASSUME NEW f \in Files, Write(f)
      PROVE  FoundIsLast'
  BY <1>1 DEF Write
<1>2. ASSUME NEW p \in Savers, BeginSave(p)
      PROVE  FoundIsLast'
  BY <1>2 DEF BeginSave
<1>3. ASSUME NEW p \in Savers, EndCopy(p)
      PROVE  FoundIsLast'
  BY <1>3 DEF EndCopy
<1>4. ASSUME NEW p \in Savers, Rename(p)
      PROVE  FoundIsLast'
  BY <1>4 DEF Rename
<1>5. ASSUME NEW p \in Savers, AbortSave(p)
      PROVE  FoundIsLast'
  BY <1>5 DEF AbortSave
<1>6. ASSUME NEW p \in Savers, CreateCheckpoint(p)
      PROVE  FoundIsLast'
  BY <1>6 DEF CreateCheckpoint
<1>7. ASSUME NEW p \in Savers, CreateCheckpointFails(p)
      PROVE  FoundIsLast'
  BY <1>7 DEF CreateCheckpointFails
<1>8. ASSUME NEW p \in Savers, NEW f \in Files, CopyFile(p, f)
      PROVE  FoundIsLast'
  BY <1>8 DEF CopyFile
<1>9. ASSUME NEW r \in Readers, GetLatestCheckpoint(r)
      PROVE  FoundIsLast'
  <2>1. rows \in SUBSET Ids /\ rows # {} /\ createdAt \in [Ids -> Nat] /\ MaxSaves \in Nat
    BY <1>9 DEF GetLatestCheckpoint
  <2>2. Newest(rows) \in rows /\ \A j \in rows : createdAt[j] <= createdAt[Newest(rows)]
    BY ONLY <2>1, NewestIsNewest
  <2> DEFINE n == Newest(rows)
  <2> HIDE DEF n
  <2>3. ASSUME NEW j \in rows
        PROVE  j <= n
    <3>1. j \in Ids /\ n \in Ids /\ createdAt[j] <= createdAt[n]
      BY <2>1, <2>2 DEF n
    <3>2. j \in Stamped /\ n \in Stamped
      BY <2>2, <3>1 DEF Stamped, n
    <3> QED BY <3>1, <3>2 DEF StampsAreOrdered
  <2>4. n \in 1 .. saves
    <3>1. n \in rows /\ n \in 1 .. MaxSaves
      BY <2>1, <2>2 DEF n
    <3>2. n <= saves
      BY <3>1
    <3> QED BY <3>1, <3>2
  <2>5. saved \cap rows \subseteq 1 .. n
    BY <2>1, <2>3, <2>4
  <2>6. job'[r] = n /\ known'[r] = saved \cap rows
    BY <1>9 DEF GetLatestCheckpoint, n
  <2> QED BY <1>9, <2>4, <2>5, <2>6 DEF GetLatestCheckpoint
<1>10. ASSUME NEW r \in Readers, StatDirectory(r)
      PROVE  FoundIsLast'
  BY <1>10 DEF StatDirectory
<1>11. ASSUME NEW r \in Readers, EndRestore(r)
      PROVE  FoundIsLast'
  BY <1>11 DEF EndRestore
<1>12. ASSUME NEW c \in Cleaners, BeginCleanup(c)
      PROVE  FoundIsLast'
  BY <1>12 DEF BeginCleanup
<1>13. ASSUME NEW c \in Cleaners, RemoveDirectory(c)
      PROVE  FoundIsLast'
  BY <1>13 DEF RemoveDirectory
<1>14. ASSUME NEW c \in Cleaners, RemoveDirectoryFails(c)
      PROVE  FoundIsLast'
  BY <1>14 DEF RemoveDirectoryFails
<1>15. ASSUME NEW c \in Cleaners, DeleteRow(c)
      PROVE  FoundIsLast'
  BY <1>15 DEF DeleteRow
<1>16. ASSUME NEW c \in Cleaners, DeleteRowFails(c)
      PROVE  FoundIsLast'
  BY <1>16 DEF DeleteRowFails
<1>17. ASSUME NEW c \in Cleaners, EndCleanup(c)
      PROVE  FoundIsLast'
  BY <1>17 DEF EndCleanup
<1>18. CASE StartAutoSave
  BY <1>18 DEF StartAutoSave
<1>19. CASE CancelTask
  BY <1>19 DEF CancelTask
<1>20. CASE StopAutoSave
  BY <1>20 DEF StopAutoSave
<1>21. CASE EndAutoSave
  BY <1>21 DEF EndAutoSave
<1>22. CASE StopReturns
  BY <1>22 DEF StopReturns
<1>23. CASE Crash
  BY <1>23 DEF Crash
<1>24. CASE UNCHANGED vars
  BY <1>24 DEF vars
<1> QED BY <1>1, <1>2, <1>3, <1>4, <1>5, <1>6, <1>7, <1>8, <1>9, <1>10, <1>11, <1>12, <1>13, <1>14,
           <1>15, <1>16, <1>17, <1>18, <1>19, <1>20, <1>21, <1>22, <1>23,
           <1>24 DEF Next, Save, Restore, Cleanup, AutoSave

\* The save under way is stamped after all others.
LEMMA StampsStayOrdered ==
  ASSUME CheckpointsInv, [Next]_vars
  PROVE  StampsAreOrdered'
<1> USE CheckpointsAssumption
        DEF CheckpointsInv, TypeOK, Processes, Savers, Saving, Free, disk, autosaver,
            history, Return, BackToCleaning, AtRest, SavesAreNew, StampsAreOrdered, Stamped
<1>1. ASSUME NEW f \in Files, Write(f)
      PROVE  StampsAreOrdered'
  BY <1>1 DEF Write
<1>2. ASSUME NEW p \in Savers, BeginSave(p)
      PROVE  StampsAreOrdered'
  BY <1>2 DEF BeginSave
<1>3. ASSUME NEW p \in Savers, EndCopy(p)
      PROVE  StampsAreOrdered'
  <2> DEFINE n == 1 + Cardinality({i \in Ids : createdAt[i] > 0})
  <2>1. saves \in Ids /\ createdAt[saves] = 0 /\ createdAt' = [createdAt EXCEPT ![saves] = n]
    BY <1>3 DEF EndCopy
  <2>2. n \in Nat /\ Cardinality(Stamped \cup {saves}) = n
    <3> HIDE DEF Stamped
    <3>1. MaxSaves \in Nat /\ saves \notin Stamped
      BY <2>1 DEF Stamped
    <3>2. /\ Cardinality(Stamped) \in Nat
          /\ Cardinality(Stamped \cup {saves}) = Cardinality(Stamped) + 1
      BY ONLY <2>1, <3>1, StampsAreFew
    <3>3. n = Cardinality(Stamped) + 1
      BY <3>2 DEF Stamped
    <3> QED BY <3>2, <3>3
  <2>3. \A i \in Ids : createdAt[i] < n
    <3>1. MaxSaves \in Nat
      OBVIOUS
    <3>2. Cardinality(Stamped) \in Nat
      BY ONLY <3>1, StampsAreFew
    <3> QED BY <2>1, <3>2
  <2> HIDE DEF n
  <2>4. Stamped' = Stamped \cup {saves}
    BY <2>1, <2>2, <2>3
  <2>5. \A i \in Ids : createdAt'[i] <= Cardinality(Stamped')
    <3>1. Cardinality(Stamped') = n
      BY <2>2, <2>4
    <3>2. \A i \in Ids : createdAt'[i] <= n
      <4> \A i \in Ids : createdAt[i] \in Nat
        OBVIOUS
      <4> QED BY <2>1, <2>2, <2>3
    <3> HIDE DEF Stamped
    <3> QED BY <3>1, <3>2
  <2>6. \A i \in Stamped : i <= saves
    BY <2>1 DEF Ids
  <2>7. \A i, j \in Stamped' : i < j => createdAt'[i] < createdAt'[j]
    BY <2>1, <2>3, <2>4, <2>6
  <2> QED BY <2>5, <2>7
<1>4. ASSUME NEW p \in Savers, Rename(p)
      PROVE  StampsAreOrdered'
  BY <1>4 DEF Rename
<1>5. ASSUME NEW p \in Savers, AbortSave(p)
      PROVE  StampsAreOrdered'
  BY <1>5 DEF AbortSave
<1>6. ASSUME NEW p \in Savers, CreateCheckpoint(p)
      PROVE  StampsAreOrdered'
  BY <1>6 DEF CreateCheckpoint
<1>7. ASSUME NEW p \in Savers, CreateCheckpointFails(p)
      PROVE  StampsAreOrdered'
  BY <1>7 DEF CreateCheckpointFails
<1>8. ASSUME NEW p \in Savers, NEW f \in Files, CopyFile(p, f)
      PROVE  StampsAreOrdered'
  BY <1>8 DEF CopyFile
<1>9. ASSUME NEW r \in Readers, GetLatestCheckpoint(r)
      PROVE  StampsAreOrdered'
  BY <1>9 DEF GetLatestCheckpoint
<1>10. ASSUME NEW r \in Readers, StatDirectory(r)
      PROVE  StampsAreOrdered'
  BY <1>10 DEF StatDirectory
<1>11. ASSUME NEW r \in Readers, EndRestore(r)
      PROVE  StampsAreOrdered'
  BY <1>11 DEF EndRestore
<1>12. ASSUME NEW c \in Cleaners, BeginCleanup(c)
      PROVE  StampsAreOrdered'
  BY <1>12 DEF BeginCleanup
<1>13. ASSUME NEW c \in Cleaners, RemoveDirectory(c)
      PROVE  StampsAreOrdered'
  BY <1>13 DEF RemoveDirectory
<1>14. ASSUME NEW c \in Cleaners, RemoveDirectoryFails(c)
      PROVE  StampsAreOrdered'
  BY <1>14 DEF RemoveDirectoryFails
<1>15. ASSUME NEW c \in Cleaners, DeleteRow(c)
      PROVE  StampsAreOrdered'
  BY <1>15 DEF DeleteRow
<1>16. ASSUME NEW c \in Cleaners, DeleteRowFails(c)
      PROVE  StampsAreOrdered'
  BY <1>16 DEF DeleteRowFails
<1>17. ASSUME NEW c \in Cleaners, EndCleanup(c)
      PROVE  StampsAreOrdered'
  BY <1>17 DEF EndCleanup
<1>18. CASE StartAutoSave
  BY <1>18 DEF StartAutoSave
<1>19. CASE CancelTask
  BY <1>19 DEF CancelTask
<1>20. CASE StopAutoSave
  BY <1>20 DEF StopAutoSave
<1>21. CASE EndAutoSave
  BY <1>21 DEF EndAutoSave
<1>22. CASE StopReturns
  BY <1>22 DEF StopReturns
<1>23. CASE Crash
  BY <1>23 DEF Crash
<1>24. CASE UNCHANGED vars
  BY <1>24 DEF vars
<1> QED BY <1>1, <1>2, <1>3, <1>4, <1>5, <1>6, <1>7, <1>8, <1>9, <1>10, <1>11, <1>12, <1>13, <1>14,
           <1>15, <1>16, <1>17, <1>18, <1>19, <1>20, <1>21, <1>22, <1>23,
           <1>24 DEF Next, Save, Restore, Cleanup, AutoSave

\* A file is copied as it is now, and files only get newer.
LEMMA CopiesStayFresh ==
  ASSUME CheckpointsInv, [Next]_vars
  PROVE  CopiesAreFresh'
<1> USE CheckpointsAssumption
        DEF CheckpointsInv, TypeOK, Processes, Savers, Saving, Free, disk, autosaver,
            history, Return, BackToCleaning, AtRest, SavesAreNew, CopiesAreFresh, Ids
<1>1. ASSUME NEW f \in Files, Write(f)
      PROVE  CopiesAreFresh'
  BY <1>1 DEF Write
<1>2. ASSUME NEW p \in Savers, BeginSave(p)
      PROVE  CopiesAreFresh'
  <2>1. /\ saves' = saves + 1 /\ saves' \in Ids /\ UNCHANGED <<content, workspace>>
        /\ atStart' = [atStart EXCEPT ![saves'] = workspace]
    BY <1>2 DEF BeginSave
  <2>2. \A f \in Files : content'[saves'][f] = Missing
    BY <2>1 DEF NoFiles
  <2>3. \A i \in 1 .. saves' : i = saves' \/ i \in 1 .. saves
    BY <2>1
  <2>4. \A i \in 1 .. saves : i \in Ids /\ i # saves' /\ atStart'[i] = atStart[i]
    BY <2>1
  <2>5. \A f \in Files : workspace[f] \in Nat
    OBVIOUS
  <2>6. ASSUME NEW f \in Files, NEW i \in 1 .. saves', NEW j \in 1 .. saves'
        PROVE  /\ atStart'[i][f] <= workspace'[f]
               /\ i <= j /\ content'[j][f] # Missing => atStart'[i][f] <= content'[j][f]
    <3>1. CASE i = saves'
      <4>1. atStart'[i][f] = workspace[f]
        BY <2>1, <3>1
      <4>2. i <= j => j = saves'
        BY <3>1
      <4> QED BY <4>1, <4>2, <2>1, <2>2, <2>5
    <3>2. CASE i \in 1 .. saves
      <4>1. atStart'[i][f] = atStart[i][f] /\ atStart[i][f] <= workspace[f]
        BY <3>2, <2>4
      <4>2. CASE j = saves'
        BY ONLY <4>1, <4>2, <2>1, <2>2
      <4>3. CASE j \in 1 .. saves
        BY <4>1, <4>3, <3>2, <2>1
      <4> QED BY <4>2, <4>3, <2>3
    <3> QED BY <3>1, <3>2, <2>3
  <2> QED BY <2>6
<1>3. ASSUME NEW p \in Savers, EndCopy(p)
      PROVE  CopiesAreFresh'
  BY <1>3 DEF EndCopy
<1>4. ASSUME NEW p \in Savers, Rename(p)
      PROVE  CopiesAreFresh'
  BY <1>4 DEF Rename
<1>5. ASSUME NEW p \in Savers, AbortSave(p)
      PROVE  CopiesAreFresh'
  <2>1. job[p] \in Ids /\ UNCHANGED <<saves, atStart, workspace>>
    BY <1>5 DEF AbortSave
  <2>2. \A j \in Ids : content'[j] = content[j] \/ \A f \in Files : content'[j][f] = Missing
    BY <1>5, <2>1 DEF AbortSave, NoFiles
  <2>3. ASSUME NEW f \in Files, NEW i \in 1 .. saves, NEW j \in 1 .. saves
        PROVE  /\ atStart[i][f] <= workspace[f]
               /\ i <= j /\ content'[j][f] # Missing => atStart[i][f] <= content'[j][f]
    <3>1. j \in Ids /\ atStart[i][f] <= workspace[f]
      OBVIOUS
    <3>2. i <= j /\ content[j][f] # Missing => atStart[i][f] <= content[j][f]
      OBVIOUS
    <3> QED BY ONLY <2>2, <3>1, <3>2
  <2> QED BY <2>1, <2>3
<1>6. ASSUME NEW p \in Savers, CreateCheckpoint(p)
      PROVE  CopiesAreFresh'
  BY <1>6 DEF CreateCheckpoint
<1>7. ASSUME NEW p \in Savers, CreateCheckpointFails(p)
      PROVE  CopiesAreFresh'
  BY <1>7 DEF CreateCheckpointFails
<1>8. ASSUME NEW p \in Savers, NEW f \in Files, CopyFile(p, f)
      PROVE  CopiesAreFresh'
  <2>1. /\ job[p] = saves /\ saves \in Ids /\ UNCHANGED <<saves, atStart, workspace>>
        /\ content' = [content EXCEPT ![saves][f] = workspace[f]]
    BY <1>8 DEF CopyFile
  <2>2. /\ content'[saves][f] = workspace[f]
        /\ \A g \in Files \ {f} : content'[saves][g] = content[saves][g]
        /\ \A j \in Ids \ {saves} : content'[j] = content[j]
    BY <2>1
  <2>3. ASSUME NEW g \in Files, NEW i \in 1 .. saves, NEW j \in 1 .. saves
        PROVE  /\ atStart[i][g] <= workspace[g]
               /\ i <= j /\ content'[j][g] # Missing => atStart[i][g] <= content'[j][g]
    <3>1. j \in Ids /\ atStart[i][g] <= workspace[g]
      OBVIOUS
    <3>2. i <= j /\ content[j][g] # Missing => atStart[i][g] <= content[j][g]
      OBVIOUS
    <3> QED BY ONLY <2>2, <3>1, <3>2
  <2> QED BY <2>1, <2>3
<1>9. ASSUME NEW r \in Readers, GetLatestCheckpoint(r)
      PROVE  CopiesAreFresh'
  BY <1>9 DEF GetLatestCheckpoint
<1>10. ASSUME NEW r \in Readers, StatDirectory(r)
      PROVE  CopiesAreFresh'
  BY <1>10 DEF StatDirectory
<1>11. ASSUME NEW r \in Readers, EndRestore(r)
      PROVE  CopiesAreFresh'
  BY <1>11 DEF EndRestore
<1>12. ASSUME NEW c \in Cleaners, BeginCleanup(c)
      PROVE  CopiesAreFresh'
  BY <1>12 DEF BeginCleanup
<1>13. ASSUME NEW c \in Cleaners, RemoveDirectory(c)
      PROVE  CopiesAreFresh'
  <2> DEFINE k == Newest(todo[c])
  <2>1. content' = [content EXCEPT ![k] = NoFiles] /\ UNCHANGED <<saves, atStart, workspace>>
    BY <1>13 DEF RemoveDirectory
  <2> HIDE DEF k
  <2>2. \A j \in Ids : content'[j] = content[j] \/ \A f \in Files : content'[j][f] = Missing
    BY <2>1 DEF NoFiles
  <2>3. ASSUME NEW f \in Files, NEW i \in 1 .. saves, NEW j \in 1 .. saves
        PROVE  /\ atStart[i][f] <= workspace[f]
               /\ i <= j /\ content'[j][f] # Missing => atStart[i][f] <= content'[j][f]
    <3>1. j \in Ids /\ atStart[i][f] <= workspace[f]
      OBVIOUS
    <3>2. i <= j /\ content[j][f] # Missing => atStart[i][f] <= content[j][f]
      OBVIOUS
    <3> QED BY ONLY <2>2, <3>1, <3>2
  <2> QED BY <2>1, <2>3
<1>14. ASSUME NEW c \in Cleaners, RemoveDirectoryFails(c)
      PROVE  CopiesAreFresh'
  <2> DEFINE k == Newest(todo[c])
  <2>1. PICK gone \in SUBSET Files :
          /\ content' = [content EXCEPT ![k] = [f \in Files |-> IF f \in gone THEN Missing ELSE @[f]]]
          /\ UNCHANGED <<saves, atStart, workspace>>
    BY <1>14 DEF RemoveDirectoryFails
  <2> HIDE DEF k
  <2>2. \A j \in Ids, f \in Files : content'[j][f] \in {content[j][f], Missing}
    BY <2>1
  <2>3. ASSUME NEW f \in Files, NEW i \in 1 .. saves, NEW j \in 1 .. saves
        PROVE  /\ atStart[i][f] <= workspace[f]
               /\ i <= j /\ content'[j][f] # Missing => atStart[i][f] <= content'[j][f]
    <3>1. j \in Ids /\ atStart[i][f] <= workspace[f]
      OBVIOUS
    <3>2. i <= j /\ content[j][f] # Missing => atStart[i][f] <= content[j][f]
      OBVIOUS
    <3> QED BY ONLY <2>2, <3>1, <3>2
  <2> QED BY <2>1, <2>3
<1>15. ASSUME NEW c \in Cleaners, DeleteRow(c)
      PROVE  CopiesAreFresh'
  BY <1>15 DEF DeleteRow
<1>16. ASSUME NEW c \in Cleaners, DeleteRowFails(c)
      PROVE  CopiesAreFresh'
  BY <1>16 DEF DeleteRowFails
<1>17. ASSUME NEW c \in Cleaners, EndCleanup(c)
      PROVE  CopiesAreFresh'
  BY <1>17 DEF EndCleanup
<1>18. CASE StartAutoSave
  BY <1>18 DEF StartAutoSave
<1>19. CASE CancelTask
  BY <1>19 DEF CancelTask
<1>20. CASE StopAutoSave
  BY <1>20 DEF StopAutoSave
<1>21. CASE EndAutoSave
  BY <1>21 DEF EndAutoSave
<1>22. CASE StopReturns
  BY <1>22 DEF StopReturns
<1>23. CASE Crash
  BY <1>23 DEF Crash
<1>24. CASE UNCHANGED vars
  BY <1>24 DEF vars
<1> QED BY <1>1, <1>2, <1>3, <1>4, <1>5, <1>6, <1>7, <1>8, <1>9, <1>10, <1>11, <1>12, <1>13, <1>14,
           <1>15, <1>16, <1>17, <1>18, <1>19, <1>20, <1>21, <1>22, <1>23,
           <1>24 DEF Next, Save, Restore, Cleanup, AutoSave
-----------------------------------------------------------------------------
\* A disk and a database without checkpoints satisfy the invariant.
LEMMA InitialState ==
  ASSUME Init
  PROVE  CheckpointsInv
<1> USE CheckpointsAssumption DEF Init
<1>1. TypeOK
  <2>1. 0 \in 0 .. MaxWork /\ Missing \in Missing .. MaxWork /\ 0 \in 0 .. MaxSaves /\ 0 \in 0 .. MaxCrashes
    BY DEF Missing
  <2>2. content \in [Ids -> [Files -> Missing .. MaxWork]]
    BY <2>1 DEF NoFiles
  <2>3. at \in [Processes -> {"off", "waiting", "ended", "idle", "copying", "copied", "renamed",
                             "found", "restored", "cleaning", "removed"}]
    BY DEF AtRest
  <2>4. lock \in Processes \cup {Nobody}
    OBVIOUS
  <2>5. workspace \in [Files -> 0 .. MaxWork] /\ atStart \in [Ids -> [Files -> 0 .. MaxWork]]
    BY <2>1
  <2>6. createdAt \in [Ids -> 0 .. MaxSaves] /\ job \in [Processes -> 0 .. MaxSaves]
    BY <2>1
  <2> QED BY <2>1, <2>2, <2>3, <2>4, <2>5, <2>6 DEF TypeOK
<1>2. LockIsHeld /\ SavesAreNew /\ FoundIsLast
  BY DEF LockIsHeld, SavesAreNew, FoundIsLast, Saving, AtRest, Processes, Savers, Ids
<1>3. RowsHaveDirectories /\ CopiesAreFresh
  BY DEF RowsHaveDirectories, CopiesAreFresh
<1>4. StampsAreOrdered
  <2>1. \A i \in Ids : createdAt[i] = 0
    OBVIOUS
  <2>2. Stamped = {}
    BY <2>1 DEF Stamped
  <2>3. Cardinality(Stamped) \in Nat
    BY StampsAreFew
  <2> QED BY ONLY <2>1, <2>2, <2>3 DEF StampsAreOrdered
<1> QED BY <1>1, <1>2, <1>3, <1>4 DEF CheckpointsInv

\* In every reachable state, whatever saves, deletes, restores and crashes interleave,
\* the mutex is held by the save or delete under way, its checkpoint is the youngest,
\* time stamps follow the order of the saves, and no copy is older than a save that
\* began before it (store.go:38-156, 286-380).
THEOREM Invariance == Spec => []CheckpointsInv
<1>1. CheckpointsInv /\ [Next]_vars => CheckpointsInv'
  <2> SUFFICES ASSUME CheckpointsInv, [Next]_vars
               PROVE  CheckpointsInv'
    OBVIOUS
  <2>1. TypeOK' /\ LockIsHeld' /\ SavesAreNew' /\ RowsHaveDirectories'
    BY ONLY CheckpointsInv, [Next]_vars, Typed, LockStaysHeld, SavesStayNew, RowsStay
  <2>2. StampsAreOrdered' /\ CopiesAreFresh' /\ FoundIsLast'
    BY ONLY CheckpointsInv, [Next]_vars, StampsStayOrdered, CopiesStayFresh, FoundStaysLast
  <2> QED BY <2>1, <2>2 DEF CheckpointsInv
<1> QED BY <1>1, InitialState, PTL DEF Spec

\* The variables have their types.
THEOREM TypeCorrect == Spec => []TypeOK
BY Invariance, PTL DEF CheckpointsInv

\* A row of the database never points to a directory that is not there under its final
\* name, unless a delete of that checkpoint removed it and did not come to the row
\* (store.go:131-156, 374-380): for any number of savers, cleaners, files and crashes.
THEOREM RowsLead == Spec => []RowsHaveDirectories
BY Invariance, PTL DEF CheckpointsInv

\* What a restore uses is no older than the workspace was when any save began that had
\* returned before the restore began (store.go:39-40, 99, 286-324).
THEOREM RestoresLatest == Spec => []RestoresTheLatest
<1>1. CheckpointsInv => RestoresTheLatest
  <2> SUFFICES ASSUME CheckpointsInv,
                      NEW r \in Readers, at[r] = "restored",
                      NEW i \in known[r], NEW f \in Files,
                      content[job[r]][f] # Missing
               PROVE  content[job[r]][f] >= atStart[i][f]
    BY DEF RestoresTheLatest
  <2>1. job[r] \in 1 .. saves /\ i \in 1 .. job[r] /\ saves \in Nat
    BY DEF CheckpointsInv, FoundIsLast, TypeOK
  <2>2. i \in 1 .. saves /\ i <= job[r]
    BY <2>1
  <2>3. atStart[i][f] <= content[job[r]][f]
    BY <2>1, <2>2 DEF CheckpointsInv, CopiesAreFresh
  <2>4. job[r] \in Ids /\ i \in Ids
    BY <2>1, <2>2, CheckpointsAssumption DEF CheckpointsInv, TypeOK, Ids
  <2>5. atStart[i][f] \in Int /\ content[job[r]][f] \in Int
    BY <2>4, CheckpointsAssumption DEF CheckpointsInv, TypeOK, Missing
  <2> QED BY <2>3, <2>5
<1> QED BY <1>1, Invariance, PTL
-----------------------------------------------------------------------------
(***************************************************************************)
(* The safety half of StopAutoSaveReturns: what Stop waits for can come.   *)
(***************************************************************************)
\* The mutex is not lost: whoever holds it is between two steps of a save or a delete, all of
\* which can be taken.  A goroutine that Stop waits for was told to end and is there.
StopCanReturn ==
  /\ lock # Nobody => at[lock] \in Saving \cup {"removed"}
  /\ at[AutoSaver] \in Saving \cup {"off", "waiting", "ended"}
  /\ stopping => cancelled /\ at[AutoSaver] # "off"

LEMMA StopStaysPossible ==
  ASSUME CheckpointsInv, StopCanReturn, [Next]_vars
  PROVE  StopCanReturn'
<1> USE CheckpointsAssumption
        DEF CheckpointsInv, TypeOK, Processes, Savers, Saving, Free, disk, autosaver,
            history, Return, BackToCleaning, AtRest, LockIsHeld, StopCanReturn
<1>1. ASSUME NEW f \in Files, Write(f)
      PROVE  StopCanReturn'
  BY <1>1 DEF Write
<1>2. ASSUME NEW p \in Savers, BeginSave(p)
      PROVE  StopCanReturn'
  BY <1>2 DEF BeginSave
<1>3. ASSUME NEW p \in Savers, EndCopy(p)
      PROVE  StopCanReturn'
  BY <1>3 DEF EndCopy
<1>4. ASSUME NEW p \in Savers, Rename(p)
      PROVE  StopCanReturn'
  BY <1>4 DEF Rename
<1>5. ASSUME NEW p \in Savers,
             AbortSave(p) \/ CreateCheckpoint(p) \/ CreateCheckpointFails(p)
      PROVE  StopCanReturn'
  BY <1>5 DEF AbortSave, CreateCheckpoint, CreateCheckpointFails
<1>6. ASSUME NEW p \in Savers, NEW f \in Files, CopyFile(p, f)
      PROVE  StopCanReturn'
  BY <1>6 DEF CopyFile
<1>7. ASSUME NEW r \in Readers, GetLatestCheckpoint(r) \/ StatDirectory(r) \/ EndRestore(r)
      PROVE  StopCanReturn'
  BY <1>7 DEF GetLatestCheckpoint, StatDirectory, EndRestore
<1>8. ASSUME NEW c \in Cleaners, BeginCleanup(c)
      PROVE  StopCanReturn'
  BY <1>8 DEF BeginCleanup
<1>9. ASSUME NEW c \in Cleaners, RemoveDirectory(c)
      PROVE  StopCanReturn'
  BY <1>9 DEF RemoveDirectory
<1>10. ASSUME NEW c \in Cleaners, RemoveDirectoryFails(c)
      PROVE  StopCanReturn'
  BY <1>10 DEF RemoveDirectoryFails
<1>11. ASSUME NEW c \in Cleaners, DeleteRow(c) \/ DeleteRowFails(c)
      PROVE  StopCanReturn'
  BY <1>11 DEF DeleteRow, DeleteRowFails
<1>12. ASSUME NEW c \in Cleaners, EndCleanup(c)
      PROVE  StopCanReturn'
  BY <1>12 DEF EndCleanup
<1>13. CASE StartAutoSave
  BY <1>13 DEF StartAutoSave
<1>14. CASE CancelTask
  BY <1>14 DEF CancelTask
<1>15. CASE StopAutoSave \/ StopReturns
  BY <1>15 DEF StopAutoSave, StopReturns
<1>16. CASE EndAutoSave
  BY <1>16 DEF EndAutoSave
<1>17. CASE Crash
  BY <1>17 DEF Crash
<1>18. CASE UNCHANGED vars
  BY <1>18 DEF vars
<1> QED
  BY <1>1, <1>2, <1>3, <1>4, <1>5, <1>6, <1>7, <1>8, <1>9, <1>10, <1>11, <1>12, <1>13, <1>14,
     <1>15, <1>16, <1>17, <1>18 DEF Next, Save, Restore, Cleanup, AutoSave

\* Whatever fails and whoever saves, every path gives the mutex back, and AutoSaver.Stop waits
\* only for a goroutine whose context is cancelled (autosave.go:54-92, store.go:39-40, 131-132).
THEOREM StopIsAnswerable == Spec => []StopCanReturn
<1>1. Init => StopCanReturn
  BY DEF Init, StopCanReturn, AtRest, Processes, Savers
<1>2. CheckpointsInv /\ StopCanReturn /\ [Next]_vars => StopCanReturn'
  BY StopStaysPossible
<1> QED
  BY <1>1, <1>2, Invariance, PTL DEF Spec
=============================================================================
