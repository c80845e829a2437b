-------------------------- MODULE JobBackupProofs --------------------------
(***************************************************************************)
(* Theorems about JobBackup.tla, for any jobs, payloads and faults: what   *)
(* was saved survives crashes, is worked on as it was, and once unless the *)
(* program died in between.                                                *)
(***************************************************************************)
EXTENDS JobBackup, TLAPS

-----------------------------------------------------------------------------
(* The inductive invariant.                                                *)

\* What save() was given is in the file of the job, or its save() has failed.
Written(j) == disk[j] = original[j] \/ original[j] \in unwritten

\* What load() finds.
Loaded(j) ==
  \/ data_[j] = IF temporary_file_[j] /\ disk[j] # NoFile THEN disk[j]
                ELSE IF temporary_file_[j] THEN Empty ELSE original[j]
  \/ data_[j] = Empty /\ original[j] \in unread

\* A job alone: where its data is in each of its states.
Life(j) ==
  /\ state[j] = "none" => disk[j] = NoFile /\ result[j] = NoFile
  /\ ~Alive(j) => ~temporary_file_[j]
  /\ Alive(j) =>
       /\ result[j] = NoFile
       /\ data_[j] \in {original[j], Empty}
       /\ IF temporary_file_[j] THEN disk[j] \in {original[j], Empty, NoFile} ELSE disk[j] = NoFile
  /\ state[j] = "new" => ~temporary_file_[j]
  /\ state[j] = "opened" => temporary_file_[j] /\ data_[j] # Empty
  /\ state[j] \in {"new", "opened"} => data_[j] = original[j]
  /\ state[j] \in {"ready", "queued"} =>
       IF temporary_file_[j] THEN data_[j] = Empty ELSE data_[j] = original[j]
  /\ state[j] \in {"loaded", "worked"} => Loaded(j)
  /\ state[j] \in {"ready", "queued", "loaded", "worked"} /\ temporary_file_[j] => Written(j)
  /\ state[j] = "worked" => data_[j] \in worked \cup {Empty}
  /\ j \in misread => state[j] # "none" /\ original[j] \in unwritten \cup unread

\* A file alone: uncompleted_jobs() has read it, or it is still on the disk, or
\* it is the one in its hand, or it could not be removed.
File(f) ==
  /\ f \in listed => disk[f] # NoFile /\ result[f] = NoFile
  /\ f = hand =>
       /\ disk[f] # NoFile /\ f \notin listed
       /\ result[f] = disk[f] \/ (result[f] = NoFile /\ disk[f] \in unread \cup {Empty})
  /\ disk[f] # NoFile /\ result[f] # NoFile => f = hand \/ disk[f] \in left \cup {Empty}

Recovery ==
  /\ hand # None \/ listed # {} => recovering
  /\ recovering => \A j \in Job : ~Alive(j)

\* The job, or the file that a job has left behind, that will be worked on.
Carries(j, p) == IF Alive(j) THEN original[j] = p ELSE p \in {disk[j], result[j]}

\* Each payload is with one job or file, has not been cancelled, and was not
\* worked on but by the job that is about to remove its file, or before a crash,
\* unless a file with it could not be removed.
Carried(j, p) ==
  /\ p \in submitted
  /\ \/ p \in left
     \/ p \notin cancelled /\ (p \in worked => p \in interrupted \/ state[j] = "worked")

Carriers ==
  \A p \in Payload : \A j \in Job : Carries(j, p) =>
    /\ Carried(j, p)
    /\ p \notin left => \A k \in Job : Carries(k, p) => k = j

Histories == worked \subseteq submitted /\ cancelled \subseteq submitted

BInv ==
  /\ BTypeOK
  /\ \A j \in Job : Life(j)
  /\ \A j \in Job : File(j)
  /\ Recovery
  /\ Carriers
  /\ Histories
  /\ SavedJobSurvives
  /\ WorkedOnceUnlessInterrupted

-----------------------------------------------------------------------------
(* Types, jobs and files, one by one.                                      *)

LEMMA TypeNext ==
  ASSUME BTypeOK, \A j \in Job : Life(j), [BNext]_backupVars
  PROVE  BTypeOK'
<1> USE BackupAssumption DEF BTypeOK, Data, jobVars, recoveryVars, ghosts, Life, Alive
<1>1. ASSUME NEW j \in Job, NEW p \in Payload, Construct(j, p)
      PROVE  BTypeOK'
  BY <1>1 DEF Construct, New, Moves
<1>2. ASSUME NEW j \in Job, NEW f \in Job, Rebuild(j, f)
      PROVE  BTypeOK'
  BY <1>2 DEF Rebuild, New, Moves
<1>3. ASSUME NEW j \in Job, SaveSkips(j)
      PROVE  BTypeOK'
  BY <1>3 DEF SaveSkips, Moves
<1>4. ASSUME NEW j \in Job, SaveOpen(j)
      PROVE  BTypeOK'
  BY <1>4 DEF SaveOpen, Moves
<1>5. ASSUME NEW j \in Job, SaveWrite(j)
      PROVE  BTypeOK'
  BY <1>5, ZenonT(60) DEF SaveWrite, Moves
<1>6. ASSUME NEW j \in Job, SaveFails(j)
      PROVE  BTypeOK'
  BY <1>6, ZenonT(60) DEF SaveFails, Moves
<1>7. ASSUME NEW j \in Job, Push(j)
      PROVE  BTypeOK'
  BY <1>7 DEF Push, Moves
<1>8. ASSUME NEW j \in Job, Load(j)
      PROVE  BTypeOK'
  BY <1>8 DEF Load, Moves
<1>9. ASSUME NEW j \in Job, Work(j)
      PROVE  BTypeOK'
  BY <1>9 DEF Work, Moves
<1>10. ASSUME NEW j \in Job, EndWork(j)
      PROVE  BTypeOK'
  BY <1>10 DEF EndWork, Destroy, Remove, Moves
<1>11. ASSUME NEW j \in Job, ClearJob(j)
      PROVE  BTypeOK'
  BY <1>11, ZenonT(60) DEF ClearJob, Destroy, Remove, Moves
<1>12. ASSUME NEW f \in Job, RecoverRead(f)
      PROVE  BTypeOK'
  BY <1>12 DEF RecoverRead
<1>13. CASE ClearBegin
  BY <1>13 DEF ClearBegin
<1>14. CASE ClearEnd
  BY <1>14 DEF ClearEnd
<1>15. ASSUME NEW p \in Priority, ClearPriority(p)
      PROVE  BTypeOK'
  BY <1>15 DEF ClearPriority
<1>16. CASE RecoverBegin
  BY <1>16 DEF RecoverBegin
<1>17. CASE RecoverRemove
  BY <1>17 DEF RecoverRemove, Remove
<1>18. CASE RecoverEnd
  BY <1>18 DEF RecoverEnd
<1>19. CASE Crash
  <2>1. interrupted' \subseteq Payload /\ doomed' \subseteq Payload
    BY <1>19 DEF Crash, Recovered, Unsaved, OnDisk
  <2> QED  BY <1>19, <2>1 DEF Crash
<1>20. CASE UNCHANGED backupVars
  BY <1>20 DEF backupVars
<1>21. ASSUME NEW j \in Job, LoadFails(j)
      PROVE  BTypeOK'
  BY <1>21 DEF LoadFails, Moves
<1>22. ASSUME NEW f \in Job, RecoverReadFails(f)
      PROVE  BTypeOK'
  BY <1>22 DEF RecoverReadFails
<1> QED  BY <1>1, <1>2, <1>3, <1>4, <1>5, <1>6, <1>7, <1>8, <1>9, <1>10, <1>11, <1>12, <1>13,
          <1>14, <1>15, <1>16, <1>17, <1>18, <1>19, <1>20, <1>21, <1>22 DEF BNext

\* Each job keeps its data where its state says.
LEMMA LifeNext ==
  ASSUME BInv, [BNext]_backupVars, NEW k \in Job
  PROVE  Life(k)'
<1>l. \A i \in Job : Life(i) /\ File(i)
  BY DEF BInv
<1>k. Life(k) /\ File(k) /\ BTypeOK /\ Recovery
  BY DEF BInv
<1> USE BackupAssumption DEF BTypeOK, Data, jobVars, recoveryVars, ghosts, File, Recovery, Life,
          Alive, Written, Loaded
<1>1. ASSUME NEW j \in Job, NEW p \in Payload, Construct(j, p)
      PROVE  Life(k)'
  <2>1. Life(j) /\ File(j)
    BY <1>l
  <2> QED  BY <1>1, <1>k, <2>1, ZenonT(60) DEF Construct, New, Moves
<1>2. ASSUME NEW j \in Job, NEW f \in Job, Rebuild(j, f)
      PROVE  Life(k)'
  <2>1. Life(j) /\ File(j)
    BY <1>l
  <2> QED  BY <1>2, <1>k, <2>1, ZenonT(60) DEF Rebuild, New, Moves
<1>3. ASSUME NEW j \in Job, SaveSkips(j)
      PROVE  Life(k)'
  <2>1. Life(j) /\ File(j)
    BY <1>l
  <2> QED  BY <1>3, <1>k, <2>1 DEF SaveSkips, Moves
<1>4. ASSUME NEW j \in Job, SaveOpen(j)
      PROVE  Life(k)'
  <2>1. Life(j) /\ File(j)
    BY <1>l
  <2> QED  BY <1>4, <1>k, <2>1, ZenonT(60) DEF SaveOpen, Moves
<1>5. ASSUME NEW j \in Job, SaveWrite(j)
      PROVE  Life(k)'
  <2>1. Life(j) /\ File(j)
    BY <1>l
  <2>2. CASE k = j
    <3>1. /\ state'[j] = "ready" /\ data_'[j] = Empty /\ disk'[j] = original[j]
          /\ temporary_file_'[j] /\ result'[j] = NoFile /\ original'[j] = original[j]
          /\ misread' = misread /\ unwritten' = unwritten /\ unread' = unread /\ Alive(j)
      BY <1>5, <1>k, <2>1 DEF SaveWrite, Moves
    <3> QED  BY <1>k, <2>1, <2>2, <3>1
  <2>3. CASE k # j
    BY <1>5, <1>k, <2>3 DEF SaveWrite, Moves
  <2> QED  BY <2>2, <2>3
<1>6. ASSUME NEW j \in Job, SaveFails(j)
      PROVE  Life(k)'
  <2>1. Life(j) /\ File(j)
    BY <1>l
  <2>2. CASE k = j
    <3>1. /\ state'[j] = "ready" /\ data_'[j] = Empty /\ disk'[j] = disk[j]
          /\ temporary_file_'[j] /\ result'[j] = NoFile /\ original'[j] = original[j]
          /\ misread' = misread /\ original[j] \in unwritten' /\ unread' = unread
          /\ state[j] = "opened"
      BY <1>6, <1>k, <2>1 DEF SaveFails, Moves
    <3> QED  BY <1>k, <2>1, <2>2, <3>1
  <2>3. CASE k # j
    BY <1>6, <1>k, <2>3 DEF SaveFails, Moves
  <2> QED  BY <2>2, <2>3
<1>7. ASSUME NEW j \in Job, Push(j)
      PROVE  Life(k)'
  <2>1. Life(j) /\ File(j)
    BY <1>l
  <2> QED  BY <1>7, <1>k, <2>1 DEF Push, Moves
<1>8. ASSUME NEW j \in Job, Load(j)
      PROVE  Life(k)'
  <2>1. Life(j) /\ File(j)
    BY <1>l
  <2>2. /\ data_'[j] = IF ~temporary_file_[j] THEN data_[j]
                       ELSE IF disk[j] = NoFile THEN Empty ELSE disk[j]
        /\ \A i \in Job \ {j} : data_'[i] = data_[i]
    BY <1>8, <1>k DEF Load
  <2>3. CASE k = j
    BY <1>8, <1>k, <2>1, <2>2, <2>3, ZenonT(60) DEF Load, Moves
  <2>4. CASE k # j
    BY <1>8, <1>k, <2>2, <2>4 DEF Load, Moves
  <2> QED  BY <2>3, <2>4
<1>9. ASSUME NEW j \in Job, Work(j)
      PROVE  Life(k)'
  <2>1. Life(j) /\ File(j)
    BY <1>l
  <2>2. /\ UNCHANGED <<data_, temporary_file_, original, disk, result, unwritten, unread>>
        /\ worked' = worked \cup ({original[j]} \cap {data_[j]} \cap Payload)
        /\ \A i \in Job \ {j} : state'[i] = state[i] /\ (i \in misread' => i \in misread)
    BY <1>9, <1>k DEF Work, Moves
  <2>3. CASE k = j
    <3>1. /\ state[j] = "loaded" /\ state'[j] = "worked"
          /\ j \in misread' => j \in misread \/ data_[j] # original[j]
      BY <1>9, <1>k DEF Work, Moves
    <3>2. data_[j] \in {original[j], Empty} /\ original[j] \in Payload \cup {Empty}
      BY <1>k, <2>1, <3>1
    <3>3. data_[j] \in worked' \cup {Empty}
      BY <2>2, <3>2
    <3>4. Loaded(j) /\ (temporary_file_[j] => Written(j)) /\ original[j] # NoFile
      BY <2>1, <3>1, <3>2
    <3>5. data_[j] = original[j] \/ original[j] \in unwritten \cup unread
      BY <3>4
    <3>6. j \in misread' => original[j] \in unwritten \cup unread
      BY <2>1, <3>1, <3>5
    <3> QED  BY <2>1, <2>2, <2>3, <3>1, <3>3, <3>4, <3>6
  <2>4. CASE k # j
    BY <1>k, <2>2, <2>4
  <2> QED  BY <2>3, <2>4
<1>10. ASSUME NEW j \in Job, EndWork(j)
      PROVE  Life(k)'
  <2>1. Life(j) /\ File(j)
    BY <1>l
  <2>2. CASE k = j
    <3>1. /\ state'[j] = "over" /\ state[j] = "worked"
          /\ data_'[j] = data_[j] /\ ~temporary_file_'[j] /\ result'[j] = result[j]
          /\ original'[j] = original[j] /\ misread' = misread
          /\ unwritten' = unwritten /\ unread' = unread
      BY <1>10, <1>k DEF EndWork, Destroy, Remove, Moves
    <3> QED  BY <1>k, <2>2, <3>1
  <2>3. CASE k # j
    <3>1. /\ state'[k] = state[k] /\ data_'[k] = data_[k]
          /\ temporary_file_'[k] = temporary_file_[k] /\ disk'[k] = disk[k]
          /\ result'[k] = result[k] /\ original'[k] = original[k]
          /\ misread' = misread /\ unwritten' = unwritten /\ unread' = unread
          /\ worked' = worked
      BY <1>10, <1>k, <2>3 DEF EndWork, Destroy, Remove, Moves
    <3> QED  BY <1>k, <3>1
  <2> QED  BY <2>2, <2>3
<1>11. ASSUME NEW j \in Job, ClearJob(j)
      PROVE  Life(k)'
  <2>1. Life(j) /\ File(j)
    BY <1>l
  <2>2. CASE k = j
    <3>1. /\ state'[j] = "over" /\ state[j] = "queued"
          /\ data_'[j] = data_[j] /\ ~temporary_file_'[j] /\ result'[j] = result[j]
          /\ original'[j] = original[j] /\ misread' = misread
          /\ unwritten' = unwritten /\ unread' = unread
      BY <1>11, <1>k DEF ClearJob, Destroy, Remove, Moves
    <3> QED  BY <1>k, <2>2, <3>1
  <2>3. CASE k # j
    <3>1. /\ state'[k] = state[k] /\ data_'[k] = data_[k]
          /\ temporary_file_'[k] = temporary_file_[k] /\ disk'[k] = disk[k]
          /\ result'[k] = result[k] /\ original'[k] = original[k]
          /\ misread' = misread /\ unwritten' = unwritten /\ unread' = unread
          /\ worked' = worked
      BY <1>11, <1>k, <2>3 DEF ClearJob, Destroy, Remove, Moves
    <3> QED  BY <1>k, <3>1
  <2> QED  BY <2>2, <2>3
<1>12. ASSUME NEW f \in Job, RecoverRead(f)
      PROVE  Life(k)'
  <2>1. Life(f) /\ File(f)
    BY <1>l
  <2> QED  BY <1>12, <1>k, <2>1 DEF RecoverRead
<1>13. CASE ClearBegin
  BY <1>13, <1>k DEF ClearBegin
<1>14. CASE ClearEnd
  BY <1>14, <1>k DEF ClearEnd
<1>15. ASSUME NEW p \in Priority, ClearPriority(p)
      PROVE  Life(k)'
  BY <1>15, <1>k DEF ClearPriority
<1>16. CASE RecoverBegin
  BY <1>16, <1>k DEF RecoverBegin
<1>17. CASE RecoverRemove
  BY <1>17, <1>k DEF RecoverRemove, Remove
<1>18. CASE RecoverEnd
  BY <1>18, <1>k DEF RecoverEnd
<1>19. CASE Crash
  BY <1>19, <1>k DEF Crash, Recovered, Unsaved, OnDisk
<1>20. CASE UNCHANGED backupVars
  BY <1>20, <1>k DEF backupVars
<1>21. ASSUME NEW j \in Job, LoadFails(j)
      PROVE  Life(k)'
  <2>1. Life(j) /\ File(j)
    BY <1>l
  <2> QED  BY <1>21, <1>k, <2>1, ZenonT(60) DEF LoadFails, Moves
<1>22. ASSUME NEW f \in Job, RecoverReadFails(f)
      PROVE  Life(k)'
  <2>1. Life(f) /\ File(f)
    BY <1>l
  <2> QED  BY <1>22, <1>k, <2>1 DEF RecoverReadFails
<1> QED  BY <1>1, <1>2, <1>3, <1>4, <1>5, <1>6, <1>7, <1>8, <1>9, <1>10, <1>11, <1>12, <1>13,
          <1>14, <1>15, <1>16, <1>17, <1>18, <1>19, <1>20, <1>21, <1>22 DEF BNext

\* Each file is listed, in the hand of uncompleted_jobs(), or read.
LEMMA FileNext ==
  ASSUME BInv, [BNext]_backupVars, NEW k \in Job
  PROVE  File(k)'
<1>l. \A i \in Job : Life(i) /\ File(i)
  BY DEF BInv
<1>k. Life(k) /\ File(k) /\ BTypeOK /\ Recovery
  BY DEF BInv
<1> USE BackupAssumption DEF BTypeOK, Data, jobVars, recoveryVars, ghosts, File, Recovery, Life,
          Alive
<1>1. ASSUME NEW j \in Job, NEW p \in Payload, Construct(j, p)
      PROVE  File(k)'
  <2>1. Life(j) /\ File(j)
    BY <1>l
  <2> QED  BY <1>1, <1>k, <2>1 DEF Construct, New, Moves
<1>2. ASSUME NEW j \in Job, NEW f \in Job, Rebuild(j, f)
      PROVE  File(k)'
  <2>1. Life(j) /\ File(j)
    BY <1>l
  <2> QED  BY <1>2, <1>k, <2>1 DEF Rebuild, New, Moves
<1>3. ASSUME NEW j \in Job, SaveSkips(j)
      PROVE  File(k)'
  <2>1. Life(j) /\ File(j)
    BY <1>l
  <2> QED  BY <1>3, <1>k, <2>1 DEF SaveSkips, Moves
<1>4. ASSUME NEW j \in Job, SaveOpen(j)
      PROVE  File(k)'
  <2>1. Life(j) /\ File(j)
    BY <1>l
  <2> QED  BY <1>4, <1>k, <2>1 DEF SaveOpen, Moves
<1>5. ASSUME NEW j \in Job, SaveWrite(j)
      PROVE  File(k)'
  <2>1. Life(j) /\ File(j)
    BY <1>l
  <2> QED  BY <1>5, <1>k, <2>1 DEF SaveWrite, Moves
<1>6. ASSUME NEW j \in Job, SaveFails(j)
      PROVE  File(k)'
  <2>1. Life(j) /\ File(j)
    BY <1>l
  <2> QED  BY <1>6, <1>k, <2>1 DEF SaveFails, Moves
<1>7. ASSUME NEW j \in Job, Push(j)
      PROVE  File(k)'
  <2>1. Life(j) /\ File(j)
    BY <1>l
  <2> QED  BY <1>7, <1>k, <2>1 DEF Push, Moves
<1>8. ASSUME NEW j \in Job, Load(j)
      PROVE  File(k)'
  <2>1. Life(j) /\ File(j)
    BY <1>l
  <2> QED  BY <1>8, <1>k, <2>1 DEF Load, Moves
<1>9. ASSUME NEW j \in Job, Work(j)
      PROVE  File(k)'
  <2>1. Life(j) /\ File(j)
    BY <1>l
  <2> QED  BY <1>9, <1>k, <2>1 DEF Work, Moves
<1>10. ASSUME NEW j \in Job, EndWork(j)
      PROVE  File(k)'
  <2>1. Life(j) /\ File(j)
    BY <1>l
  <2> QED  BY <1>10, <1>k, <2>1, ZenonT(60) DEF EndWork, Destroy, Remove, Moves
<1>11. ASSUME NEW j \in Job, ClearJob(j)
      PROVE  File(k)'
  <2>1. Life(j) /\ File(j)
    BY <1>l
  <2> QED  BY <1>11, <1>k, <2>1, ZenonT(60) DEF ClearJob, Destroy, Remove, Moves
<1>12. ASSUME NEW f \in Job, RecoverRead(f)
      PROVE  File(k)'
  <2>1. Life(f) /\ File(f)
    BY <1>l
  <2> QED  BY <1>12, <1>k, <2>1 DEF RecoverRead
<1>13. CASE ClearBegin
  BY <1>13, <1>k DEF ClearBegin
<1>14. CASE ClearEnd
  BY <1>14, <1>k DEF ClearEnd
<1>15. ASSUME NEW p \in Priority, ClearPriority(p)
      PROVE  File(k)'
  BY <1>15, <1>k DEF ClearPriority
<1>16. CASE RecoverBegin
  BY <1>16, <1>k DEF RecoverBegin
<1>17. CASE RecoverRemove
  BY <1>17, <1>k DEF RecoverRemove, Remove
<1>18. CASE RecoverEnd
  BY <1>18, <1>k DEF RecoverEnd
<1>19. CASE Crash
  BY <1>19, <1>k DEF Crash, Recovered, Unsaved, OnDisk
<1>20. CASE UNCHANGED backupVars
  BY <1>20, <1>k DEF backupVars
<1>21. ASSUME NEW j \in Job, LoadFails(j)
      PROVE  File(k)'
  <2>1. Life(j) /\ File(j)
    BY <1>l
  <2> QED  BY <1>21, <1>k, <2>1 DEF LoadFails, Moves
<1>22. ASSUME NEW f \in Job, RecoverReadFails(f)
      PROVE  File(k)'
  <2>1. Life(f) /\ File(f)
    BY <1>l
  <2> QED  BY <1>22, <1>k, <2>1 DEF RecoverReadFails
<1> QED  BY <1>1, <1>2, <1>3, <1>4, <1>5, <1>6, <1>7, <1>8, <1>9, <1>10, <1>11, <1>12, <1>13,
          <1>14, <1>15, <1>16, <1>17, <1>18, <1>19, <1>20, <1>21, <1>22 DEF BNext

\* uncompleted_jobs() meets no job that is alive.
LEMMA RecoveryNext ==
  ASSUME BInv, [BNext]_backupVars
  PROVE  Recovery'
<1> USE BackupAssumption DEF BTypeOK, Data, jobVars, recoveryVars, ghosts, Recovery, Alive, BInv,
          Life
<1>1. ASSUME NEW j \in Job, NEW p \in Payload, Construct(j, p)
      PROVE  Recovery'
  BY <1>1 DEF Construct, New, Moves
<1>2. ASSUME NEW j \in Job, NEW f \in Job, Rebuild(j, f)
      PROVE  Recovery'
  BY <1>2 DEF Rebuild, New, Moves
<1>3. ASSUME NEW j \in Job, SaveSkips(j)
      PROVE  Recovery'
  BY <1>3 DEF SaveSkips, Moves
<1>4. ASSUME NEW j \in Job, SaveOpen(j)
      PROVE  Recovery'
  BY <1>4 DEF SaveOpen, Moves
<1>5. ASSUME NEW j \in Job, SaveWrite(j)
      PROVE  Recovery'
  BY <1>5 DEF SaveWrite, Moves
<1>6. ASSUME NEW j \in Job, SaveFails(j)
      PROVE  Recovery'
  BY <1>6 DEF SaveFails, Moves
<1>7. ASSUME NEW j \in Job, Push(j)
      PROVE  Recovery'
  BY <1>7 DEF Push, Moves
<1>8. ASSUME NEW j \in Job, Load(j)
      PROVE  Recovery'
  BY <1>8 DEF Load, Moves
<1>9. ASSUME NEW j \in Job, Work(j)
      PROVE  Recovery'
  BY <1>9 DEF Work, Moves
<1>10. ASSUME NEW j \in Job, EndWork(j)
      PROVE  Recovery'
  BY <1>10 DEF EndWork, Destroy, Remove, Moves
<1>11. ASSUME NEW j \in Job, ClearJob(j)
      PROVE  Recovery'
  BY <1>11 DEF ClearJob, Destroy, Remove, Moves
<1>12. ASSUME NEW f \in Job, RecoverRead(f)
      PROVE  Recovery'
  BY <1>12 DEF RecoverRead
<1>13. CASE ClearBegin
  BY <1>13 DEF ClearBegin
<1>14. CASE ClearEnd
  BY <1>14 DEF ClearEnd
<1>15. ASSUME NEW p \in Priority, ClearPriority(p)
      PROVE  Recovery'
  BY <1>15 DEF ClearPriority
<1>16. CASE RecoverBegin
  BY <1>16 DEF RecoverBegin
<1>17. CASE RecoverRemove
  BY <1>17 DEF RecoverRemove, Remove
<1>18. CASE RecoverEnd
  BY <1>18 DEF RecoverEnd
<1>19. CASE Crash
  BY <1>19 DEF Crash, Recovered, Unsaved, OnDisk
<1>20. CASE UNCHANGED backupVars
  BY <1>20 DEF backupVars
<1>21. ASSUME NEW j \in Job, LoadFails(j)
      PROVE  Recovery'
  BY <1>21 DEF LoadFails, Moves
<1>22. ASSUME NEW f \in Job, RecoverReadFails(f)
      PROVE  Recovery'
  BY <1>22 DEF RecoverReadFails
<1> QED  BY <1>1, <1>2, <1>3, <1>4, <1>5, <1>6, <1>7, <1>8, <1>9, <1>10, <1>11, <1>12, <1>13,
          <1>14, <1>15, <1>16, <1>17, <1>18, <1>19, <1>20, <1>21, <1>22 DEF BNext

-----------------------------------------------------------------------------
(* Who carries a payload.  Only the making of a job adds a carrier.        *)

LEMMA NoNewCarrier ==
  ASSUME BInv, [BNext]_backupVars, NEW q \in Payload, NEW k \in Job, Carries(k, q)',
         ~\E j \in Job : (\E p \in Payload : Construct(j, p)) \/ (\E f \in Job : Rebuild(j, f))
  PROVE  Carries(k, q) /\ Carried(k, q)'
<1>l. \A i \in Job : Life(i) /\ File(i)
  BY DEF BInv
<1>k. /\ Life(k) /\ File(k) /\ BTypeOK /\ Recovery /\ Histories
      /\ Carries(k, q) => Carried(k, q)
      /\ \A i \in Job : Carries(i, q) => (Carries(k, q) => q \in left \/ i = k)
  BY DEF BInv, Carriers
<1> USE BackupAssumption DEF BTypeOK, Data, jobVars, recoveryVars, ghosts, File, Recovery, Life,
          Alive, Histories, Carries, Carried, Written, Loaded
<1>3. ASSUME NEW j \in Job, SaveSkips(j)
      PROVE  Carries(k, q) /\ Carried(k, q)'
  <2>1. Life(j) /\ File(j)
    BY <1>l
  <2> QED  BY <1>3, <1>k, <2>1, ZenonT(60) DEF SaveSkips, Moves
<1>4. ASSUME NEW j \in Job, SaveOpen(j)
      PROVE  Carries(k, q) /\ Carried(k, q)'
  <2>1. Life(j) /\ File(j)
    BY <1>l
  <2> QED  BY <1>4, <1>k, <2>1, ZenonT(60) DEF SaveOpen, Moves
<1>5. ASSUME NEW j \in Job, SaveWrite(j)
      PROVE  Carries(k, q) /\ Carried(k, q)'
  <2>1. Life(j) /\ File(j)
    BY <1>l
  <2> QED  BY <1>5, <1>k, <2>1, ZenonT(60) DEF SaveWrite, Moves
<1>6. ASSUME NEW j \in Job, SaveFails(j)
      PROVE  Carries(k, q) /\ Carried(k, q)'
  <2>1. Life(j) /\ File(j)
    BY <1>l
  <2> QED  BY <1>6, <1>k, <2>1 DEF SaveFails, Moves
<1>7. ASSUME NEW j \in Job, Push(j)
      PROVE  Carries(k, q) /\ Carried(k, q)'
  <2>1. Life(j) /\ File(j)
    BY <1>l
  <2> QED  BY <1>7, <1>k, <2>1, ZenonT(60) DEF Push, Moves
<1>8. ASSUME NEW j \in Job, Load(j)
      PROVE  Carries(k, q) /\ Carried(k, q)'
  <2>1. Life(j) /\ File(j)
    BY <1>l
  <2>2. /\ UNCHANGED <<original, disk, result, submitted, left, cancelled, worked, interrupted>>
        /\ state[j] = "queued" /\ state'[j] = "loaded"
        /\ \A i \in Job \ {j} : state'[i] = state[i]
    BY <1>8, <1>k DEF Load, Moves
  <2>3. (Alive(k) <=> Alive(k)') /\ (state'[k] = "worked" <=> state[k] = "worked")
    BY <2>2
  <2>4. Carries(k, q)
    BY <2>2, <2>3
  <2> QED  BY <1>k, <2>2, <2>3, <2>4
<1>9. ASSUME NEW j \in Job, Work(j)
      PROVE  Carries(k, q) /\ Carried(k, q)'
  <2>1. Life(j) /\ File(j)
    BY <1>l
  <2> QED  BY <1>9, <1>k, <2>1, ZenonT(60) DEF Work, Moves
<1>10. ASSUME NEW j \in Job, EndWork(j)
      PROVE  Carries(k, q) /\ Carried(k, q)'
  <2>1. Life(j) /\ File(j)
    BY <1>l
  <2> QED  BY <1>10, <1>k, <2>1, ZenonT(60) DEF EndWork, Destroy, Remove, Moves
<1>11. ASSUME NEW j \in Job, ClearJob(j)
      PROVE  Carries(k, q) /\ Carried(k, q)'
  <2>1. Life(j) /\ File(j)
    BY <1>l
  <2> QED  BY <1>11, <1>k, <2>1, ZenonT(60) DEF ClearJob, Destroy, Remove, Moves
<1>12. ASSUME NEW f \in Job, RecoverRead(f)
      PROVE  Carries(k, q) /\ Carried(k, q)'
  <2>1. Life(f) /\ File(f)
    BY <1>l
  <2> QED  BY <1>12, <1>k, <2>1 DEF RecoverRead
<1>13. CASE ClearBegin
  BY <1>13, <1>k DEF ClearBegin
<1>14. CASE ClearEnd
  BY <1>14, <1>k DEF ClearEnd
<1>15. ASSUME NEW p \in Priority, ClearPriority(p)
      PROVE  Carries(k, q) /\ Carried(k, q)'
  BY <1>15, <1>k DEF ClearPriority
<1>16. CASE RecoverBegin
  BY <1>16, <1>k DEF RecoverBegin
<1>17. CASE RecoverRemove
  BY <1>17, <1>k DEF RecoverRemove, Remove
<1>18. CASE RecoverEnd
  BY <1>18, <1>k DEF RecoverEnd
<1>19. CASE Crash
  <2>1. disk[k] = q /\ state[k] # "none"
    BY <1>19, <1>k DEF Crash
  <2>2. Carries(k, q)
    BY <1>k, <2>1
  <2>3. q \in worked => q \in interrupted' \cup left
    BY <1>19, <1>k, <2>1, <2>2 DEF Crash
  <2> QED  BY <1>19, <1>k, <2>2, <2>3 DEF Crash
<1>20. CASE UNCHANGED backupVars
  BY <1>20, <1>k DEF backupVars
<1>21. ASSUME NEW j \in Job, LoadFails(j)
      PROVE  Carries(k, q) /\ Carried(k, q)'
  <2>1. Life(j) /\ File(j)
    BY <1>l
  <2> QED  BY <1>21, <1>k, <2>1, ZenonT(60) DEF LoadFails, Moves
<1>22. ASSUME NEW f \in Job, RecoverReadFails(f)
      PROVE  Carries(k, q) /\ Carried(k, q)'
  <2>1. Life(f) /\ File(f)
    BY <1>l
  <2> QED  BY <1>22, <1>k, <2>1 DEF RecoverReadFails
<1> QED  BY <1>3, <1>4, <1>5, <1>6, <1>7, <1>8, <1>9, <1>10, <1>11, <1>12, <1>13, <1>14, <1>15,
          <1>16, <1>17, <1>18, <1>19, <1>20, <1>21, <1>22 DEF BNext

\* Nothing is worked on or cancelled that was not submitted.
LEMMA HistoriesNext ==
  ASSUME BInv, [BNext]_backupVars
  PROVE  Histories'
<1> USE BackupAssumption DEF BTypeOK, Data, jobVars, recoveryVars, ghosts, BInv, Histories
<1>1. ASSUME NEW j \in Job, NEW p \in Payload, Construct(j, p)
      PROVE  Histories'
  BY <1>1 DEF Construct, New, Moves
<1>2. ASSUME NEW j \in Job, NEW f \in Job, Rebuild(j, f)
      PROVE  Histories'
  BY <1>2 DEF Rebuild, New, Moves
<1>3. ASSUME NEW j \in Job, SaveSkips(j)
      PROVE  Histories'
  BY <1>3 DEF SaveSkips, Moves
<1>4. ASSUME NEW j \in Job, SaveOpen(j)
      PROVE  Histories'
  BY <1>4 DEF SaveOpen, Moves
<1>5. ASSUME NEW j \in Job, SaveWrite(j)
      PROVE  Histories'
  BY <1>5 DEF SaveWrite, Moves
<1>6. ASSUME NEW j \in Job, SaveFails(j)
      PROVE  Histories'
  BY <1>6 DEF SaveFails, Moves
<1>7. ASSUME NEW j \in Job, Push(j)
      PROVE  Histories'
  BY <1>7 DEF Push, Moves
<1>8. ASSUME NEW j \in Job, Load(j)
      PROVE  Histories'
  BY <1>8 DEF Load, Moves
<1>9. ASSUME NEW j \in Job, Work(j)
      PROVE  Histories'
  <2>1. original[j] \in Payload => original[j] \in submitted
    BY <1>9 DEF Work, Moves, Alive, Carriers, Carries, Carried
  <2> QED  BY <1>9, <2>1 DEF Work
<1>10. ASSUME NEW j \in Job, EndWork(j)
      PROVE  Histories'
  BY <1>10 DEF EndWork, Destroy, Remove, Moves
<1>11. ASSUME NEW j \in Job, ClearJob(j)
      PROVE  Histories'
  <2>1. original[j] \in Payload => original[j] \in submitted
    BY <1>11 DEF ClearJob, Destroy, Remove, Moves, Alive, Carriers, Carries, Carried
  <2> QED  BY <1>11, <2>1 DEF ClearJob
<1>12. ASSUME NEW f \in Job, RecoverRead(f)
      PROVE  Histories'
  BY <1>12 DEF RecoverRead
<1>13. CASE ClearBegin
  BY <1>13 DEF ClearBegin
<1>14. CASE ClearEnd
  BY <1>14 DEF ClearEnd
<1>15. ASSUME NEW p \in Priority, ClearPriority(p)
      PROVE  Histories'
  BY <1>15 DEF ClearPriority
<1>16. CASE RecoverBegin
  BY <1>16 DEF RecoverBegin
<1>17. CASE RecoverRemove
  BY <1>17 DEF RecoverRemove, Remove
<1>18. CASE RecoverEnd
  BY <1>18 DEF RecoverEnd
<1>19. CASE Crash
  BY <1>19 DEF Crash, Recovered, Unsaved, OnDisk
<1>20. CASE UNCHANGED backupVars
  BY <1>20 DEF backupVars
<1>21. ASSUME NEW j \in Job, LoadFails(j)
      PROVE  Histories'
  BY <1>21 DEF LoadFails, Moves
<1>22. ASSUME NEW f \in Job, RecoverReadFails(f)
      PROVE  Histories'
  BY <1>22 DEF RecoverReadFails
<1> QED  BY <1>1, <1>2, <1>3, <1>4, <1>5, <1>6, <1>7, <1>8, <1>9, <1>10, <1>11, <1>12, <1>13,
          <1>14, <1>15, <1>16, <1>17, <1>18, <1>19, <1>20, <1>21, <1>22 DEF BNext

\* Nothing is ever taken out of the histories that excuse repeated work.
LEMMA LeftStays ==
  ASSUME [BNext]_backupVars
  PROVE  left \subseteq left' /\ interrupted \subseteq interrupted'
BY DEF BNext, Construct, Rebuild, SaveSkips, SaveOpen, SaveWrite, SaveFails, Push, Load, LoadFails,
   Work, EndWork, ClearJob, Destroy, Remove, RecoverRead, RecoverReadFails, ClearBegin, ClearEnd,
   ClearPriority, RecoverBegin, RecoverRemove, RecoverEnd, Crash, backupVars, ghosts

\* A new payload has no carrier, and a job made from a result takes the payload over from
\* the file, which has been removed.
LEMMA CarriersNext ==
  ASSUME BInv, [BNext]_backupVars
  PROVE  Carriers'
<1> USE BackupAssumption DEF BTypeOK, Data, jobVars, recoveryVars, ghosts, Recovery, Life, File,
          Alive, Histories, Carries, Carried
<1>l. \A i \in Job : Life(i) /\ File(i)
  BY DEF BInv
<1>h. BTypeOK /\ Recovery /\ Histories
  BY DEF BInv
<1>c. \A q \in Payload : \A k \in Job :
        q \notin left /\ Carries(k, q) => \A i \in Job : Carries(i, q) => i = k
  BY DEF BInv, Carriers
<1>f. left \subseteq left'
  BY LeftStays
<1>1. ASSUME NEW j \in Job, NEW p \in Payload, Construct(j, p)
      PROVE  Carriers'
  <2>1. \A i \in Job : ~Carries(i, p)
    BY <1>1 DEF Construct, BInv, Carriers
  <2>2. ASSUME NEW q \in Payload, NEW k \in Job, Carries(k, q)'
        PROVE  Carried(k, q)' /\ (IF q = p THEN k = j ELSE Carries(k, q))
    <3>1. Life(k) /\ File(k) /\ Life(j) /\ (q = p => ~Carries(k, q))
      BY <1>l, <2>1
    <3>2. Carries(k, q) => Carried(k, q)
      BY DEF BInv, Carriers
    <3>3. CASE k = j
      <4>1. q = p /\ p \notin submitted
        BY <1>1, <1>h, <2>2, <3>1, <3>3 DEF Construct, New, Moves
      <4> QED  BY <1>1, <1>h, <3>3, <4>1 DEF Construct
    <3>4. CASE k # j
      <4>1. Carries(k, q) /\ state'[k] = state[k]
        BY <1>1, <1>h, <2>2, <3>1, <3>4 DEF Construct, New, Moves
      <4> QED  BY <1>1, <1>h, <3>1, <3>2, <4>1 DEF Construct
    <3> QED  BY <3>3, <3>4
  <2>3. \A q \in Payload : \A k \in Job : Carries(k, q)' =>
          Carried(k, q)' /\ (IF q = p THEN k = j ELSE Carries(k, q))
    BY <2>2
  <2> HIDE DEF Carries, Carried
  <2> SUFFICES ASSUME NEW q \in Payload, NEW k \in Job, Carries(k, q)',
                      NEW i \in Job, Carries(i, q)'
               PROVE  Carried(k, q)' /\ (q \notin left' => i = k)
    BY DEF Carriers
  <2>4. Carried(k, q)'
    BY <2>3
  <2>5. ASSUME q \notin left' PROVE i = k
    <3>1. q \notin left
      BY <1>f, <2>5
    <3>2. IF q = p THEN k = j /\ i = j ELSE Carries(k, q) /\ Carries(i, q)
      BY <2>3
    <3> QED  BY <1>c, <3>1, <3>2
  <2> QED  BY <2>4, <2>5
<1>2. ASSUME NEW j \in Job, NEW f \in Job, Rebuild(j, f)
      PROVE  Carriers'
  <2> DEFINE d == result[f]
  <2>1. Life(j) /\ File(j) /\ Life(f) /\ File(f)
    BY <1>l
  <2>2. /\ ~Alive(f) /\ d # NoFile /\ state[j] = "none" /\ f # j
        /\ disk[f] \in left \cup {Empty, NoFile}
    BY <1>2, <1>h, <2>1 DEF Rebuild, New, Moves
  <2>3. ASSUME NEW q \in Payload, NEW k \in Job, Carries(k, q)'
        PROVE  Carried(k, q)' /\ (q \notin left => IF q = d THEN k = j ELSE Carries(k, q))
    <3>1. /\ Life(k) /\ File(k) /\ (Carries(k, q) => Carried(k, q))
          /\ q = d => Carried(f, q) /\ (Carries(k, q) => q \in left \/ k = f)
      <4>1. Life(k) /\ File(k)
        BY <1>l
      <4>2. Carries(k, q) => Carried(k, q)
        BY DEF BInv, Carriers
      <4>3. q = d => Carries(f, q)
        BY <2>2
      <4>4. q = d => Carried(f, q) /\ (Carries(k, q) => q \in left \/ k = f)
        BY <4>3 DEF BInv, Carriers
      <4> QED  BY <4>1, <4>2, <4>4
    <3> QED  BY <1>2, <1>h, <2>1, <2>2, <2>3, <3>1, ZenonT(60) DEF Rebuild, New, Moves
  <2>4. \A q \in Payload : \A k \in Job : Carries(k, q)' =>
          Carried(k, q)' /\ (q \notin left => IF q = d THEN k = j ELSE Carries(k, q))
    BY <2>3
  <2> HIDE DEF Carries, Carried, d
  <2> SUFFICES ASSUME NEW q \in Payload, NEW k \in Job, Carries(k, q)',
                      NEW i \in Job, Carries(i, q)'
               PROVE  Carried(k, q)' /\ (q \notin left' => i = k)
    BY DEF Carriers
  <2>5. Carried(k, q)'
    BY <2>4
  <2>6. ASSUME q \notin left' PROVE i = k
    <3>1. q \notin left
      BY <1>f, <2>6
    <3>2. IF q = d THEN k = j /\ i = j ELSE Carries(k, q) /\ Carries(i, q)
      BY <2>4, <3>1
    <3> QED  BY <1>c, <3>1, <3>2
  <2> QED  BY <2>5, <2>6
<1>3. CASE ~\E j \in Job : (\E p \in Payload : Construct(j, p)) \/ (\E f \in Job : Rebuild(j, f))
  <2>1. \A q \in Payload : \A k \in Job : Carries(k, q)' => Carries(k, q) /\ Carried(k, q)'
    BY <1>3, NoNewCarrier
  <2> HIDE DEF Carries, Carried
  <2> QED  BY <2>1, <1>c, <1>f DEF Carriers
<1> QED  BY <1>1, <1>2, <1>3

\* Only work repeats, and the job that works carries the payload.
LEMMA WorkedOnceNext ==
  ASSUME BInv, [BNext]_backupVars
  PROVE  WorkedOnceUnlessInterrupted'
<1>1. /\ again \subseteq interrupted \cup left
      /\ left \subseteq left' /\ interrupted \subseteq interrupted'
  BY LeftStays DEF BInv, WorkedOnceUnlessInterrupted
<1>2. ASSUME NEW j \in Job, Work(j)
      PROVE  worked \cap {original[j]} \subseteq interrupted \cup left
  <2>1. state[j] = "loaded"
    BY <1>2 DEF Work, Moves
  <2>2. original[j] \in Payload => (Carries(j, original[j]) => Carried(j, original[j]))
    BY DEF BInv, Carriers
  <2>3. worked \subseteq Payload
    BY DEF BInv, BTypeOK
  <2> QED  BY <2>1, <2>2, <2>3 DEF Carries, Carried, Alive
<1>3. CASE \E j \in Job : Work(j)
  BY <1>1, <1>2, <1>3 DEF Work, WorkedOnceUnlessInterrupted
<1>4. CASE ~\E j \in Job : Work(j)
  <2>1. again' = again
    BY <1>4 DEF BNext, Construct, Rebuild, SaveSkips, SaveOpen, SaveWrite, SaveFails, Push, Load,
         LoadFails, EndWork, ClearJob, RecoverRead, RecoverReadFails, ClearBegin, ClearEnd,
         ClearPriority, RecoverBegin, RecoverRemove, RecoverEnd, Crash, backupVars, ghosts
  <2> QED  BY <1>1, <2>1 DEF WorkedOnceUnlessInterrupted
<1> QED  BY <1>3, <1>4

-----------------------------------------------------------------------------
(* Where a payload is.                                                     *)

\* Where a payload is, and what has become of it.
Place(j, p) == disk[j] = p \/ result[j] = p \/ (Alive(j) /\ data_[j] = p)

Settled(p) == p \in worked \cup cancelled \cup dropped \cup doomed \cup unwritten \cup unread

LEMMA SurvivesMeans ==
  ASSUME BTypeOK
  PROVE  SavedJobSurvives <=> \A p \in saved : Settled(p) \/ \E j \in Job : Place(j, p)
BY DEF BTypeOK, SavedJobSurvives, OnDisk, InMemory, Recovered, Settled, Place

\* What has become of a payload stays.
LEMMA SettledForGood ==
  ASSUME [BNext]_backupVars, NEW p, Settled(p)
  PROVE  Settled(p)'
<1> USE DEF Settled, jobVars, recoveryVars, ghosts
<1>1. ASSUME NEW j \in Job, NEW x \in Payload, Construct(j, x)
      PROVE  Settled(p)'
  BY <1>1 DEF Construct, New, Moves
<1>2. ASSUME NEW j \in Job, NEW f \in Job, Rebuild(j, f)
      PROVE  Settled(p)'
  BY <1>2 DEF Rebuild, New, Moves
<1>3. ASSUME NEW j \in Job, SaveSkips(j)
      PROVE  Settled(p)'
  BY <1>3 DEF SaveSkips, Moves
<1>4. ASSUME NEW j \in Job, SaveOpen(j)
      PROVE  Settled(p)'
  BY <1>4 DEF SaveOpen, Moves
<1>5. ASSUME NEW j \in Job, SaveWrite(j)
      PROVE  Settled(p)'
  BY <1>5 DEF SaveWrite, Moves
<1>6. ASSUME NEW j \in Job, SaveFails(j)
      PROVE  Settled(p)'
  BY <1>6 DEF SaveFails, Moves
<1>7. ASSUME NEW j \in Job, Push(j)
      PROVE  Settled(p)'
  BY <1>7 DEF Push, Moves
<1>8. ASSUME NEW j \in Job, Load(j)
      PROVE  Settled(p)'
  BY <1>8 DEF Load, Moves
<1>9. ASSUME NEW j \in Job, Work(j)
      PROVE  Settled(p)'
  BY <1>9 DEF Work, Moves
<1>10. ASSUME NEW j \in Job, EndWork(j)
      PROVE  Settled(p)'
  BY <1>10 DEF EndWork, Destroy, Remove, Moves
<1>11. ASSUME NEW j \in Job, ClearJob(j)
      PROVE  Settled(p)'
  BY <1>11 DEF ClearJob, Destroy, Remove, Moves
<1>12. ASSUME NEW f \in Job, RecoverRead(f)
      PROVE  Settled(p)'
  BY <1>12 DEF RecoverRead
<1>13. CASE ClearBegin
  BY <1>13 DEF ClearBegin
<1>14. CASE ClearEnd
  BY <1>14 DEF ClearEnd
<1>15. ASSUME NEW x \in Priority, ClearPriority(x)
      PROVE  Settled(p)'
  BY <1>15 DEF ClearPriority
<1>16. CASE RecoverBegin
  BY <1>16 DEF RecoverBegin
<1>17. CASE RecoverRemove
  BY <1>17 DEF RecoverRemove, Remove
<1>18. CASE RecoverEnd
  BY <1>18 DEF RecoverEnd
<1>19. CASE Crash
  BY <1>19 DEF Crash, Recovered, Unsaved, OnDisk
<1>20. CASE UNCHANGED backupVars
  BY <1>20 DEF backupVars
<1>21. ASSUME NEW j \in Job, LoadFails(j)
      PROVE  Settled(p)'
  BY <1>21 DEF LoadFails, Moves
<1>22. ASSUME NEW f \in Job, RecoverReadFails(f)
      PROVE  Settled(p)'
  BY <1>22 DEF RecoverReadFails
<1> QED  BY <1>1, <1>2, <1>3, <1>4, <1>5, <1>6, <1>7, <1>8, <1>9, <1>10, <1>11, <1>12, <1>13,
          <1>14, <1>15, <1>16, <1>17, <1>18, <1>19, <1>20, <1>21, <1>22 DEF BNext

\* A payload that leaves a place is in another, or settled.
LEMMA PlacesNext ==
  ASSUME BInv, [BNext]_backupVars, NEW q \in Payload, NEW k \in Job, Place(k, q)
  PROVE  Settled(q)' \/ \E i \in Job : Place(i, q)'
<1>l. \A i \in Job : Life(i) /\ File(i)
  BY DEF BInv
<1>k. Life(k) /\ File(k) /\ BTypeOK /\ Recovery
  BY DEF BInv
<1> USE BackupAssumption DEF BTypeOK, Data, jobVars, recoveryVars, ghosts, File, Recovery, Life,
          Alive, Settled, Place, Written, Loaded
<1>1. ASSUME NEW j \in Job, NEW p \in Payload, Construct(j, p)
      PROVE  Settled(q)' \/ \E i \in Job : Place(i, q)'
  <2>1. Life(j) /\ File(j)
    BY <1>l
  <2>2. Settled(q)' \/ Place(k, q)'
    BY <1>1, <1>k, <2>1, ZenonT(60) DEF Construct, New, Moves
  <2> QED  BY <2>2
<1>2. ASSUME NEW j \in Job, NEW f \in Job, Rebuild(j, f)
      PROVE  Settled(q)' \/ \E i \in Job : Place(i, q)'
  <2>1. Life(j) /\ File(j) /\ Life(f) /\ File(f)
    BY <1>l
  <2>2. CASE k = f /\ result[f] = q
    <3>1. Place(j, q)'
      BY <1>2, <1>k, <2>1, <2>2 DEF Rebuild, New, Moves
    <3> QED  BY <3>1
  <2>3. CASE ~(k = f /\ result[f] = q)
    <3>1. Place(k, q)'
      BY <1>2, <1>k, <2>1, <2>3, ZenonT(60) DEF Rebuild, New, Moves
    <3> QED  BY <3>1
  <2> QED  BY <2>2, <2>3
<1>3. ASSUME NEW j \in Job, SaveSkips(j)
      PROVE  Settled(q)' \/ \E i \in Job : Place(i, q)'
  <2>1. Life(j) /\ File(j)
    BY <1>l
  <2>2. Settled(q)' \/ Place(k, q)'
    BY <1>3, <1>k, <2>1, ZenonT(60) DEF SaveSkips, Moves
  <2> QED  BY <2>2
<1>4. ASSUME NEW j \in Job, SaveOpen(j)
      PROVE  Settled(q)' \/ \E i \in Job : Place(i, q)'
  <2>1. Life(j) /\ File(j)
    BY <1>l
  <2>2. Settled(q)' \/ Place(k, q)'
    BY <1>4, <1>k, <2>1, ZenonT(60) DEF SaveOpen, Moves
  <2> QED  BY <2>2
<1>5. ASSUME NEW j \in Job, SaveWrite(j)
      PROVE  Settled(q)' \/ \E i \in Job : Place(i, q)'
  <2>1. Life(j) /\ File(j)
    BY <1>l
  <2>2. Settled(q)' \/ Place(k, q)'
    BY <1>5, <1>k, <2>1, ZenonT(60) DEF SaveWrite, Moves
  <2> QED  BY <2>2
<1>6. ASSUME NEW j \in Job, SaveFails(j)
      PROVE  Settled(q)' \/ \E i \in Job : Place(i, q)'
  <2>1. Life(j) /\ File(j)
    BY <1>l
  <2>2. Settled(q)' \/ Place(k, q)'
    BY <1>6, <1>k, <2>1, ZenonT(60) DEF SaveFails, Moves
  <2> QED  BY <2>2
<1>7. ASSUME NEW j \in Job, Push(j)
      PROVE  Settled(q)' \/ \E i \in Job : Place(i, q)'
  <2>1. Life(j) /\ File(j)
    BY <1>l
  <2>2. Settled(q)' \/ Place(k, q)'
    BY <1>7, <1>k, <2>1, ZenonT(60) DEF Push, Moves
  <2> QED  BY <2>2
<1>8. ASSUME NEW j \in Job, Load(j)
      PROVE  Settled(q)' \/ \E i \in Job : Place(i, q)'
  <2>1. Life(j) /\ File(j)
    BY <1>l
  <2>2. Place(k, q)'
    <3>1. CASE k = j
      <4>1. data_[j] = q => ~temporary_file_[j]
        BY <1>8, <1>k, <2>1 DEF Load, Moves
      <4>2. CASE temporary_file_[j]
        BY <1>8, <1>k, <2>1, <3>1, <4>1, <4>2 DEF Load, Moves
      <4>3. CASE ~temporary_file_[j]
        BY <1>8, <1>k, <2>1, <3>1, <4>3 DEF Load, Moves
      <4> QED  BY <4>2, <4>3
    <3>2. CASE k # j
      BY <1>8, <1>k, <3>2 DEF Load, Moves
    <3> QED  BY <3>1, <3>2
  <2> QED  BY <2>2
<1>9. ASSUME NEW j \in Job, Work(j)
      PROVE  Settled(q)' \/ \E i \in Job : Place(i, q)'
  <2>1. Life(j) /\ File(j)
    BY <1>l
  <2>2. Settled(q)' \/ Place(k, q)'
    BY <1>9, <1>k, <2>1, ZenonT(60) DEF Work, Moves
  <2> QED  BY <2>2
<1>10. ASSUME NEW j \in Job, EndWork(j)
      PROVE  Settled(q)' \/ \E i \in Job : Place(i, q)'
  <2>1. Life(j) /\ File(j)
    BY <1>l
  <2>2. CASE k = j
    <3>1. q \in worked \cup unread
      BY <1>10, <1>k, <2>1, <2>2, ZenonT(60) DEF EndWork, Destroy, Remove, Moves
    <3> QED  BY <1>10, <3>1 DEF EndWork
  <2>3. CASE k # j
    <3>1. Place(k, q)'
      BY <1>10, <1>k, <2>3 DEF EndWork, Destroy, Remove, Moves
    <3> QED  BY <3>1
  <2> QED  BY <2>2, <2>3
<1>11. ASSUME NEW j \in Job, ClearJob(j)
      PROVE  Settled(q)' \/ \E i \in Job : Place(i, q)'
  <2>1. Life(j) /\ File(j)
    BY <1>l
  <2>2. CASE k = j
    <3>1. original[j] = q
      BY <1>11, <1>k, <2>1, <2>2 DEF ClearJob, Destroy, Remove, Moves
    <3> QED  BY <1>11, <3>1 DEF ClearJob
  <2>3. CASE k # j
    <3>1. Place(k, q)'
      BY <1>11, <1>k, <2>3 DEF ClearJob, Destroy, Remove, Moves
    <3> QED  BY <3>1
  <2> QED  BY <2>2, <2>3
<1>12. ASSUME NEW f \in Job, RecoverRead(f)
      PROVE  Settled(q)' \/ \E i \in Job : Place(i, q)'
  <2>1. Life(f) /\ File(f)
    BY <1>l
  <2>2. Settled(q)' \/ Place(k, q)'
    BY <1>12, <1>k, <2>1, ZenonT(60) DEF RecoverRead
  <2> QED  BY <2>2
<1>13. CASE ClearBegin
  BY <1>13, <1>k DEF ClearBegin
<1>14. CASE ClearEnd
  BY <1>14, <1>k DEF ClearEnd
<1>15. ASSUME NEW p \in Priority, ClearPriority(p)
      PROVE  Settled(q)' \/ \E i \in Job : Place(i, q)'
  <2>1. CASE state[k] = "queued" /\ priority[k] = p /\ data_[k] = q
    <3>1. original[k] = q
      BY <1>k, <2>1
    <3>2. q \in dropped'
      BY <1>15, <2>1, <3>1 DEF ClearPriority
    <3> QED  BY <3>2
  <2>2. CASE ~(state[k] = "queued" /\ priority[k] = p /\ data_[k] = q)
    <3>1. Place(k, q)'
      BY <1>15, <1>k, <2>2 DEF ClearPriority
    <3> QED  BY <3>1
  <2> QED  BY <2>1, <2>2
<1>16. CASE RecoverBegin
  BY <1>16, <1>k DEF RecoverBegin
<1>17. CASE RecoverRemove
  BY <1>17, <1>k DEF RecoverRemove, Remove
<1>18. CASE RecoverEnd
  BY <1>18, <1>k DEF RecoverEnd
<1>19. CASE Crash
  <2>1. CASE q \in OnDisk
    <3>1. PICK i \in Job : disk[i] = q
      BY <2>1 DEF OnDisk
    <3>2. Place(i, q)'
      BY <1>19, <3>1 DEF Crash
    <3> QED  BY <3>2
  <2>2. CASE q \notin OnDisk /\ result[k] = q
    <3>1. q \in Recovered
      BY <2>2 DEF Recovered
    <3> QED  BY <1>19, <2>2, <3>1 DEF Crash
  <2>3. CASE q \notin OnDisk /\ Alive(k) /\ data_[k] = q
    <3>1. disk[k] # q
      BY <2>3 DEF OnDisk
    <3>2. temporary_file_[k] => state[k] = "opened"
      BY <1>k, <2>3, <3>1
    <3>3. q \in Unsaved
      BY <2>3, <3>2 DEF Unsaved
    <3> QED  BY <1>19, <2>3, <3>3 DEF Crash
  <2> QED  BY <2>1, <2>2, <2>3 DEF OnDisk
<1>20. CASE UNCHANGED backupVars
  BY <1>20, <1>k DEF backupVars
<1>21. ASSUME NEW j \in Job, LoadFails(j)
      PROVE  Settled(q)' \/ \E i \in Job : Place(i, q)'
  <2>1. Life(j) /\ File(j)
    BY <1>l
  <2>2. Settled(q)' \/ Place(k, q)'
    BY <1>21, <1>k, <2>1, ZenonT(60) DEF LoadFails, Moves
  <2> QED  BY <2>2
<1>22. ASSUME NEW f \in Job, RecoverReadFails(f)
      PROVE  Settled(q)' \/ \E i \in Job : Place(i, q)'
  <2>1. Life(f) /\ File(f)
    BY <1>l
  <2>2. Settled(q)' \/ Place(k, q)'
    BY <1>22, <1>k, <2>1 DEF RecoverReadFails
  <2> QED  BY <2>2
<1> QED  BY <1>1, <1>2, <1>3, <1>4, <1>5, <1>6, <1>7, <1>8, <1>9, <1>10, <1>11, <1>12, <1>13,
          <1>14, <1>15, <1>16, <1>17, <1>18, <1>19, <1>20, <1>21, <1>22 DEF BNext

\* A payload becomes saved when it is in its file.
LEMMA SavedNext ==
  ASSUME BInv, [BNext]_backupVars, NEW q \in saved', q \notin saved
  PROVE  \E i \in Job : Place(i, q)'
<1> USE BackupAssumption DEF BTypeOK, Data, jobVars, recoveryVars, ghosts, BInv, Life, Alive,
          Place
<1>1. ASSUME NEW j \in Job, NEW p \in Payload, Construct(j, p)
      PROVE  \E i \in Job : Place(i, q)'
  BY <1>1 DEF Construct, New, Moves
<1>2. ASSUME NEW j \in Job, NEW f \in Job, Rebuild(j, f)
      PROVE  \E i \in Job : Place(i, q)'
  BY <1>2 DEF Rebuild, New, Moves
<1>3. ASSUME NEW j \in Job, SaveSkips(j)
      PROVE  \E i \in Job : Place(i, q)'
  BY <1>3 DEF SaveSkips, Moves
<1>4. ASSUME NEW j \in Job, SaveOpen(j)
      PROVE  \E i \in Job : Place(i, q)'
  BY <1>4 DEF SaveOpen, Moves
<1>5. ASSUME NEW j \in Job, SaveWrite(j)
      PROVE  \E i \in Job : Place(i, q)'
  <2>1. Place(j, q)'
    BY <1>5 DEF SaveWrite, Moves
  <2> QED  BY <2>1
<1>6. ASSUME NEW j \in Job, SaveFails(j)
      PROVE  \E i \in Job : Place(i, q)'
  BY <1>6 DEF SaveFails, Moves
<1>7. ASSUME NEW j \in Job, Push(j)
      PROVE  \E i \in Job : Place(i, q)'
  BY <1>7 DEF Push, Moves
<1>8. ASSUME NEW j \in Job, Load(j)
      PROVE  \E i \in Job : Place(i, q)'
  BY <1>8 DEF Load, Moves
<1>9. ASSUME NEW j \in Job, Work(j)
      PROVE  \E i \in Job : Place(i, q)'
  BY <1>9 DEF Work, Moves
<1>10. ASSUME NEW j \in Job, EndWork(j)
      PROVE  \E i \in Job : Place(i, q)'
  BY <1>10 DEF EndWork, Destroy, Remove, Moves
<1>11. ASSUME NEW j \in Job, ClearJob(j)
      PROVE  \E i \in Job : Place(i, q)'
  BY <1>11 DEF ClearJob, Destroy, Remove, Moves
<1>12. ASSUME NEW f \in Job, RecoverRead(f)
      PROVE  \E i \in Job : Place(i, q)'
  BY <1>12 DEF RecoverRead
<1>13. CASE ClearBegin
  BY <1>13 DEF ClearBegin
<1>14. CASE ClearEnd
  BY <1>14 DEF ClearEnd
<1>15. ASSUME NEW p \in Priority, ClearPriority(p)
      PROVE  \E i \in Job : Place(i, q)'
  BY <1>15 DEF ClearPriority
<1>16. CASE RecoverBegin
  BY <1>16 DEF RecoverBegin
<1>17. CASE RecoverRemove
  BY <1>17 DEF RecoverRemove, Remove
<1>18. CASE RecoverEnd
  BY <1>18 DEF RecoverEnd
<1>19. CASE Crash
  BY <1>19 DEF Crash, Recovered, Unsaved, OnDisk
<1>20. CASE UNCHANGED backupVars
  BY <1>20 DEF backupVars
<1>21. ASSUME NEW j \in Job, LoadFails(j)
      PROVE  \E i \in Job : Place(i, q)'
  BY <1>21 DEF LoadFails, Moves
<1>22. ASSUME NEW f \in Job, RecoverReadFails(f)
      PROVE  \E i \in Job : Place(i, q)'
  BY <1>22 DEF RecoverReadFails
<1> QED  BY <1>1, <1>2, <1>3, <1>4, <1>5, <1>6, <1>7, <1>8, <1>9, <1>10, <1>11, <1>12, <1>13,
          <1>14, <1>15, <1>16, <1>17, <1>18, <1>19, <1>20, <1>21, <1>22 DEF BNext

LEMMA SurvivesNext ==
  ASSUME BInv, BTypeOK', [BNext]_backupVars
  PROVE  SavedJobSurvives'
<1>1. /\ BTypeOK /\ \A p \in saved : Settled(p) \/ \E j \in Job : Place(j, p)
      /\ saved \subseteq Payload
  BY SurvivesMeans DEF BInv, BTypeOK
<1>2. ASSUME NEW q \in saved'
      PROVE  Settled(q)' \/ \E i \in Job : Place(i, q)'
  <2>1. CASE q \notin saved
    BY <2>1, SavedNext
  <2>2. CASE q \in saved /\ Settled(q)
    BY <2>2, SettledForGood
  <2>3. CASE q \in saved /\ ~Settled(q)
    <3>1. PICK k \in Job : Place(k, q)
      BY <1>1, <2>3
    <3> QED  BY <1>1, <2>3, <3>1, PlacesNext
  <2> QED  BY <2>1, <2>2, <2>3
<1>3. \A q \in saved' : Settled(q)' \/ \E i \in Job : Place(i, q)'
  BY <1>2
<1> QED  BY <1>3 DEF BTypeOK, SavedJobSurvives, OnDisk, InMemory, Recovered, Settled, Place

-----------------------------------------------------------------------------
(* The theorems.                                                           *)

LEMMA BInit_BInv == BInit => BInv
BY BackupAssumption, ZenonT(60) DEF BInit, BInv, BTypeOK, Data, Life, File, Recovery, Carriers,
   Carries, Histories, SavedJobSurvives, WorkedOnceUnlessInterrupted, Alive, Written, Loaded

LEMMA BNext_BInv == BInv /\ [BNext]_backupVars => BInv'
<1> SUFFICES ASSUME BInv, [BNext]_backupVars
             PROVE  BInv'
  OBVIOUS
<1>1. BTypeOK'
  BY TypeNext DEF BInv
<1>2. \A k \in Job : Life(k)' /\ File(k)'
  BY LifeNext, FileNext
<1>3. Recovery' /\ Carriers' /\ Histories'
  BY RecoveryNext, CarriersNext, HistoriesNext
<1>4. SavedJobSurvives' /\ WorkedOnceUnlessInterrupted'
  BY <1>1, SurvivesNext, WorkedOnceNext
<1> QED  BY <1>1, <1>2, <1>3, <1>4 DEF BInv

\* A payload that was saved is not lost before it is worked on, cancelled or
\* dropped, whatever crashes, but for those in the gap between the removal of
\* its file and the next save(), and files that cannot be written or opened.
THEOREM BackupSurvives == BSpec => []SavedJobSurvives
<1>1. BInv => SavedJobSurvives
  BY DEF BInv
<1> QED  BY <1>1, BInit_BInv, BNext_BInv, PTL DEF BSpec

\* Work is repeated only after a crash between the work and the removal of the
\* file, or when a file with that payload could not be removed.
THEOREM BackupWorksOnce == BSpec => []WorkedOnceUnlessInterrupted
<1>1. BInv => WorkedOnceUnlessInterrupted
  BY DEF BInv
<1> QED  BY <1>1, BInit_BInv, BNext_BInv, PTL DEF BSpec

\* A job works on the data it was made with, unless its file could not be
\* written or opened.
THEOREM BackupKeepsData == BSpec => []WorksOnItsData
<1>1. BInv => WorksOnItsData
  BY DEF BInv, BTypeOK, WorksOnItsData, Life
<1> QED  BY <1>1, BInit_BInv, BNext_BInv, PTL DEF BSpec

\* What clear() has removed is not worked on, even after a crash inside clear(),
\* unless a file with its data could not be removed.
THEOREM BackupStaysCancelled == BSpec => []CancelledStaysCancelled
<1>1. BInv => CancelledStaysCancelled
  <2> SUFFICES ASSUME BInv, NEW j \in Job, state[j] = "loaded",
                      original[j] \in cancelled \ left
               PROVE  FALSE
    BY DEF CancelledStaysCancelled
  <2>1. original[j] \in Payload /\ Carries(j, original[j])
    BY DEF BInv, BTypeOK, Carries, Alive
  <2> QED  BY <2>1 DEF BInv, Carriers, Carried
<1> QED  BY <1>1, BInit_BInv, BNext_BInv, PTL DEF BSpec
=============================================================================
