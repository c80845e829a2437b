----------------------------- MODULE JobBackup -----------------------------
(***************************************************************************)
(* The backup files of jobs: Thread::Job::save, load, work and destroy     *)
(* (src/ThreadPool/Job.cpp), and JobPool::clear and uncompleted_jobs       *)
(* (src/ThreadPool/JobPool.cpp), over crashes and restarts of the program. *)
(*                                                                         *)
(* A job may save its data in a file of its own, whose name is new for     *)
(* each job; work() loads it again and removes it at the end.  After a     *)
(* restart the program asks for the files that are left, and builds a job  *)
(* from each.  A file is written in two steps (open truncates it), and     *)
(* recovered in two (read, remove).  Jobs are worked on by any threads:    *)
(* their steps interleave freely.  The program is supposed to recover the  *)
(* files before it makes jobs: nothing in the code makes it do so.         *)
(***************************************************************************)
EXTENDS Naturals

CONSTANTS
  Job,       \* the job objects, in every life of the program
  Payload,   \* what the program wants done: the data of its jobs
  Empty,     \* the empty data, and the content of a file that is not, or not all, written
  NoFile,
  Priority, LongTerm,
  priority,
  Faults     \* what may happen, see below

(***************************************************************************)
(* "crash"          the program dies and is started again                  *)
(* "full disk"      a write fails, which save() does not notice            *)
(* "no open"        a file cannot be opened, to be written or to be read   *)
(* "no remove"      a file cannot be removed                               *)
(* "clear priority" clear(priority) is called, as remove_workers does      *)
(***************************************************************************)
None == "none"

ASSUME BackupAssumption ==
  /\ Empty \notin Payload /\ NoFile \notin Payload \cup {Empty}
  /\ None \notin Job
  /\ LongTerm \in Priority
  /\ priority \in [Job -> Priority]
  /\ Faults \subseteq {"crash", "full disk", "no open", "no remove", "clear priority"}

VARIABLES
  data_,
  temporary_file_,  \* TRUE when the name of the job's file is set
  disk,             \* the content of each job's file
  state,            \* how far each job is
  clearing,         \* clear() is running
  recovering,       \* uncompleted_jobs() is running
  listed,           \* the files that its directory iterator still has to visit
  hand,             \* the file that it has read and not removed
  result,           \* the contents it has collected, or returned to the program
  original,         \* (history) the data each job was constructed with
  submitted, saved, worked, again,  \* (history) of the payloads
  cancelled,        \* (history) destroyed by clear()
  dropped,          \* (history) removed by clear(priority)
  interrupted,      \* (history) worked on, but not destroyed before a crash
  doomed,           \* (history) only in memory at a crash
  unwritten,        \* (history) only in memory at a save() that failed
  unread,           \* (history) in a file that could not be opened to be read
  left,             \* (history) in a file that could not be removed
  misread           \* (history) the jobs that worked on other data

jobVars == <<data_, temporary_file_, state, original>>
recoveryVars == <<recovering, listed, hand, result>>
ghosts == <<submitted, saved, worked, again, cancelled, dropped, interrupted, doomed, unwritten,
            unread, left, misread>>
backupVars == <<jobVars, disk, clearing, recoveryVars, ghosts>>

Data == Payload \cup {Empty}

BTypeOK ==
  /\ data_ \in [Job -> Data]
  /\ temporary_file_ \in [Job -> BOOLEAN]
  /\ disk \in [Job -> Data \cup {NoFile}]
  /\ state \in [Job -> {"none", "new", "opened", "ready", "queued", "loaded", "worked", "over"}]
  /\ clearing \in BOOLEAN
  /\ recovering \in BOOLEAN
  /\ listed \subseteq Job
  /\ hand \in Job \cup {None}
  /\ result \in [Job -> Data \cup {NoFile}]
  /\ original \in [Job -> Data]
  /\ submitted \subseteq Payload /\ saved \subseteq Payload /\ worked \subseteq Payload
  /\ again \subseteq Payload /\ cancelled \subseteq Payload /\ dropped \subseteq Payload
  /\ interrupted \subseteq Payload /\ doomed \subseteq Payload /\ unwritten \subseteq Payload
  /\ unread \subseteq Payload /\ left \subseteq Payload
  /\ misread \subseteq Job

BInit ==
  /\ data_ = [j \in Job |-> Empty]
  /\ temporary_file_ = [j \in Job |-> FALSE]
  /\ disk = [j \in Job |-> NoFile]
  /\ state = [j \in Job |-> "none"]
  /\ clearing = FALSE
  /\ recovering = FALSE
  /\ listed = {}
  /\ hand = None
  /\ result = [j \in Job |-> NoFile]
  /\ original = [j \in Job |-> Empty]
  /\ submitted = {} /\ saved = {} /\ worked = {} /\ again = {} /\ cancelled = {} /\ dropped = {}
  /\ interrupted = {} /\ doomed = {} /\ unwritten = {} /\ unread = {} /\ left = {}
  /\ misread = {}

Moves(j, from, to) == state[j] = from /\ state' = [state EXCEPT ![j] = to]

Alive(j) == state[j] \notin {"none", "over"}

-----------------------------------------------------------------------------
(* The program makes jobs, for new payloads and for recovered ones.        *)

New(j, d) ==
  /\ Moves(j, "none", "new")
  /\ data_' = [data_ EXCEPT ![j] = d]
  /\ original' = [original EXCEPT ![j] = d]
  /\ UNCHANGED temporary_file_

Construct(j, p) ==
  /\ ~recovering
  /\ p \notin submitted
  /\ New(j, p)
  /\ submitted' = submitted \cup {p}
  /\ UNCHANGED <<disk, clearing, recoveryVars, saved, worked, again, cancelled, dropped,
                 interrupted, doomed, unwritten, unread, left, misread>>

Rebuild(j, f) ==
  /\ ~recovering /\ result[f] # NoFile
  /\ New(j, result[f])
  /\ result' = [result EXCEPT ![f] = NoFile]
  /\ UNCHANGED <<disk, clearing, recovering, listed, hand, ghosts>>

-----------------------------------------------------------------------------
(* save(folder_name), which a class derived from Job may call.             *)

HasExtension(j) == priority[j] # LongTerm

SaveSkips(j) ==
  /\ Moves(j, "new", "ready")
  /\ data_[j] = Empty \/ ~HasExtension(j)
  /\ UNCHANGED <<data_, temporary_file_, original, disk, clearing, recoveryVars, ghosts>>

\* The name is set before the file is opened; save() does not look at what open() returns.
SaveOpen(j) ==
  /\ Moves(j, "new", "opened")
  /\ data_[j] # Empty /\ HasExtension(j)
  /\ temporary_file_' = [temporary_file_ EXCEPT ![j] = TRUE]
  /\ \/ disk' = [disk EXCEPT ![j] = Empty]
     \/ "no open" \in Faults /\ UNCHANGED disk
  /\ UNCHANGED <<data_, original, clearing, recoveryVars, ghosts>>

\* (Faulty variant: clears the data before it is written.)
SaveWriteCleared(j) ==
  /\ Moves(j, "opened", "ready")
  /\ data_' = [data_ EXCEPT ![j] = Empty]
  /\ disk' = [disk EXCEPT ![j] = data_'[j]]
  /\ saved' = saved \cup {original[j]}
  /\ UNCHANGED <<temporary_file_, original, clearing, recoveryVars, submitted, worked, again,
                 cancelled, dropped, interrupted, doomed, unwritten, unread, left, misread>>

SaveWrite(j) ==
  /\ Moves(j, "opened", "ready") /\ disk[j] # NoFile
  /\ disk' = [disk EXCEPT ![j] = data_[j]]
  /\ data_' = [data_ EXCEPT ![j] = Empty]
  /\ saved' = saved \cup {original[j]}
  /\ UNCHANGED <<temporary_file_, original, clearing, recoveryVars, submitted, worked, again,
                 cancelled, dropped, interrupted, doomed, unwritten, unread, left, misread>>

\* write_bytes() refuses a file that is not open and does not look at the stream
\* after its write, and save() not at what write_bytes() returns: the data is
\* cleared all the same.
SaveFails(j) ==
  /\ Moves(j, "opened", "ready")
  /\ disk[j] = NoFile \/ "full disk" \in Faults
  /\ data_' = [data_ EXCEPT ![j] = Empty]
  /\ unwritten' = unwritten \cup {original[j]}
  /\ UNCHANGED <<temporary_file_, original, disk, clearing, recoveryVars, submitted, saved, worked,
                 again, cancelled, dropped, interrupted, doomed, unread, left, misread>>

-----------------------------------------------------------------------------
(* The pool and its workers.                                               *)

Push(j) ==
  /\ Moves(j, "ready", "queued")
  /\ ~clearing
  /\ UNCHANGED <<data_, temporary_file_, original, disk, clearing, recoveryVars, ghosts>>

\* pop() and the load() with which work() begins; a missing file loads nothing.
Load(j) ==
  /\ ~clearing
  /\ Moves(j, "queued", "loaded")
  /\ data_' = [data_ EXCEPT ![j] = IF ~temporary_file_[j] THEN @
                                   ELSE IF disk[j] = NoFile THEN Empty ELSE disk[j]]
  /\ UNCHANGED <<temporary_file_, original, disk, clearing, recoveryVars, ghosts>>

\* The file cannot be opened: load() clears the data, and work() goes on.
LoadFails(j) ==
  /\ "no open" \in Faults
  /\ ~clearing
  /\ Moves(j, "queued", "loaded")
  /\ temporary_file_[j] /\ disk[j] # NoFile
  /\ data_' = [data_ EXCEPT ![j] = Empty]
  /\ unread' = unread \cup ({disk[j]} \cap Payload)
  /\ UNCHANGED <<temporary_file_, original, disk, clearing, recoveryVars, submitted, saved, worked,
                 again, cancelled, dropped, interrupted, doomed, unwritten, left, misread>>

\* The callback or working(), whether it succeeds or not.
Work(j) ==
  /\ Moves(j, "loaded", "worked")
  /\ worked' = worked \cup ({original[j]} \cap {data_[j]} \cap Payload)
  /\ again' = again \cup (worked \cap {original[j]})
  /\ misread' = IF data_[j] = original[j] THEN misread ELSE misread \cup {j}
  /\ UNCHANGED <<data_, temporary_file_, original, disk, clearing, recoveryVars, submitted, saved,
                 cancelled, dropped, interrupted, doomed, unwritten, unread, left>>

\* std::filesystem::remove(): an error is logged, and nothing else is done about it.
Remove(f) ==
  \/ disk' = [disk EXCEPT ![f] = NoFile] /\ UNCHANGED left
  \/ /\ "no remove" \in Faults /\ disk[f] # NoFile
     /\ left' = left \cup ({disk[f]} \cap Payload)
     /\ UNCHANGED disk

\* (Faulty variant: the file is forgotten and not removed.)
DestroyKeepsFile(j, from) ==
  /\ Moves(j, from, "over")
  /\ temporary_file_' = [temporary_file_ EXCEPT ![j] = FALSE]
  /\ UNCHANGED <<data_, original, disk, left>>

\* destroy(): the name is forgotten, whether the file could be removed or not.
Destroy(j, from) ==
  /\ Moves(j, from, "over")
  /\ IF temporary_file_[j] THEN Remove(j) ELSE UNCHANGED <<disk, left>>
  /\ temporary_file_' = [temporary_file_ EXCEPT ![j] = FALSE]
  /\ UNCHANGED <<data_, original>>

EndWork(j) ==
  /\ Destroy(j, "worked")
  /\ UNCHANGED <<clearing, recoveryVars, submitted, saved, worked, again, cancelled, dropped,
                 interrupted, doomed, unwritten, unread, misread>>

\* clear() destroys the queued jobs one by one; nobody else gets at the queues.
ClearBegin ==
  /\ ~clearing /\ \E j \in Job : state[j] = "queued"
  /\ clearing' = TRUE
  /\ UNCHANGED <<jobVars, disk, recoveryVars, ghosts>>

ClearJob(j) ==
  /\ clearing
  /\ Destroy(j, "queued")
  /\ cancelled' = cancelled \cup ({original[j]} \ {Empty})
  /\ UNCHANGED <<clearing, recoveryVars, submitted, saved, worked, again, dropped, interrupted,
                 doomed, unwritten, unread, misread>>

ClearEnd ==
  /\ clearing /\ \A j \in Job : state[j] # "queued"
  /\ clearing' = FALSE
  /\ UNCHANGED <<jobVars, disk, recoveryVars, ghosts>>

\* clear(priority) drops the jobs without destroying them.
ClearPriority(p) ==
  LET victims == {j \in Job : state[j] = "queued" /\ priority[j] = p}
  IN  /\ "clear priority" \in Faults /\ ~clearing /\ victims # {}
      /\ state' = [j \in Job |-> IF j \in victims THEN "over" ELSE state[j]]
      /\ temporary_file_' = [j \in Job |-> j \notin victims /\ temporary_file_[j]]
      /\ dropped' = dropped \cup {q \in Payload : \E j \in victims : original[j] = q}
      /\ UNCHANGED <<data_, original, disk, clearing, recoveryVars, submitted, saved, worked, again,
                     cancelled, interrupted, doomed, unwritten, unread, left, misread>>

-----------------------------------------------------------------------------
(* uncompleted_jobs(backup_folder), in the folder that save() writes to.   *)

RecoverBegin ==
  /\ ~recovering /\ \A f \in Job : result[f] = NoFile
  /\ \A j \in Job : ~Alive(j)
  /\ recovering' = TRUE
  /\ listed' = {f \in Job : disk[f] # NoFile}
  /\ listed' # {}
  /\ UNCHANGED <<jobVars, disk, clearing, hand, result, ghosts>>

RecoverRead(f) ==
  /\ recovering /\ hand = None
  /\ f \in listed
  /\ listed' = listed \ {f}
  /\ hand' = f
  /\ result' = [result EXCEPT ![f] = disk[f]]
  /\ UNCHANGED <<jobVars, disk, clearing, recovering, ghosts>>

\* A file that cannot be opened has no data to return, and is removed all the same.
RecoverReadFails(f) ==
  /\ "no open" \in Faults
  /\ recovering /\ hand = None
  /\ f \in listed
  /\ listed' = listed \ {f}
  /\ hand' = f
  /\ unread' = unread \cup ({disk[f]} \cap Payload)
  /\ UNCHANGED <<jobVars, disk, clearing, recovering, result, submitted, saved, worked, again,
                 cancelled, dropped, interrupted, doomed, unwritten, left, misread>>

\* (Faulty variant: the data of the file is forgotten.)
RecoverRemoveForgets ==
  /\ hand # None
  /\ Remove(hand)
  /\ result' = [result EXCEPT ![hand] = NoFile]
  /\ hand' = None
  /\ UNCHANGED <<jobVars, clearing, recovering, listed, submitted, saved, worked, again, cancelled,
                 dropped, interrupted, doomed, unwritten, unread, misread>>

\* The data is returned, whether the file could be removed or not.
RecoverRemove ==
  /\ hand # None
  /\ Remove(hand)
  /\ hand' = None
  /\ UNCHANGED <<jobVars, clearing, recovering, listed, result, submitted, saved, worked, again,
                 cancelled, dropped, interrupted, doomed, unwritten, unread, misread>>

RecoverEnd ==
  /\ recovering /\ hand = None /\ listed = {}
  /\ recovering' = FALSE
  /\ UNCHANGED <<jobVars, disk, clearing, listed, hand, result, ghosts>>

-----------------------------------------------------------------------------
OnDisk == {disk[j] : j \in Job} \cap Payload

Recovered == {result[f] : f \in Job} \cap Payload

\* The data of the jobs that have no file, or one that is not written yet.
Unsaved ==
  {data_[j] : j \in {k \in Job : Alive(k) /\ (temporary_file_[k] => state[k] = "opened")}}
    \cap Payload

\* The memory of the program is gone; the files stay.
Crash ==
  /\ "crash" \in Faults
  /\ \E j \in Job : Alive(j) \/ result[j] # NoFile
  /\ state' = [j \in Job |-> IF state[j] = "none" THEN "none" ELSE "over"]
  /\ data_' = [j \in Job |-> Empty]
  /\ temporary_file_' = [j \in Job |-> FALSE]
  /\ clearing' = FALSE
  /\ recovering' = FALSE /\ listed' = {} /\ hand' = None
  /\ result' = [f \in Job |-> NoFile]
  /\ interrupted' = interrupted
                       \cup {p \in Payload : \E j \in Job : state[j] = "worked" /\ original[j] = p}
  /\ doomed' = doomed \cup ((Recovered \cup Unsaved) \ OnDisk)
  /\ UNCHANGED <<original, disk, submitted, saved, worked, again, cancelled, dropped, unwritten,
                 unread, left, misread>>

BNext ==
  \/ \E j \in Job :
       \/ \E p \in Payload : Construct(j, p)
       \/ \E f \in Job : Rebuild(j, f)
       \/ SaveSkips(j) \/ SaveOpen(j) \/ SaveWrite(j) \/ SaveFails(j)
       \/ Push(j) \/ Load(j) \/ LoadFails(j) \/ Work(j) \/ EndWork(j)
       \/ ClearJob(j)
       \/ RecoverRead(j) \/ RecoverReadFails(j)
  \/ ClearBegin \/ ClearEnd
  \/ \E p \in Priority : ClearPriority(p)
  \/ RecoverBegin \/ RecoverRemove \/ RecoverEnd
  \/ Crash

BSpec == BInit /\ [][BNext]_backupVars

-----------------------------------------------------------------------------
(* Properties.                                                             *)

InMemory == {data_[j] : j \in {k \in Job : Alive(k)}} \cap Payload

\* A payload that was saved once is never lost before it is worked on, cancelled
\* or dropped: it is in a file, in a job or in what uncompleted_jobs() returns.
\* The exceptions are a crash while it is only in memory, from the removal of
\* its file by uncompleted_jobs() to the end of the next save() (for ever, if
\* the job made from it has the priority LongTerm), a failure of that save, and
\* a file that load() or uncompleted_jobs() could not open: both remove it.
SavedJobSurvives ==
  saved \subseteq worked \cup cancelled \cup dropped \cup doomed \cup unwritten \cup unread
             \cup OnDisk \cup InMemory \cup Recovered

\* A job works on the data it was made with, unless its file could not be
\* written or opened.
WorksOnItsData == \A j \in misread : original[j] \in unwritten \cup unread

\* A payload is worked on twice only if the program died after its work and
\* before its file was removed, or if a file with it could not be removed.
WorkedOnceUnlessInterrupted == again \subseteq interrupted \cup left

\* A job that clear() has removed is not worked on any more, not even after a
\* crash in the middle of clear(), unless a file with its data could not be
\* removed (the jobs that clear(priority) drops are: it leaves their files).
CancelledStaysCancelled ==
  \A j \in Job : state[j] = "loaded" => original[j] \notin cancelled \ left
=============================================================================
