------------------------------ MODULE JobPool ------------------------------
(***************************************************************************)
(* Thread::JobPool (src/ThreadPool/JobPool.cpp): one FIFO queue of jobs    *)
(* per priority, behind a mutex, and a lock flag that refuses new jobs.    *)
(*                                                                         *)
(* clear(), pop() and the insertion of push() run under mutex_ from end to *)
(* end and call nothing that blocks, so each is one action.  push() is     *)
(* three steps, because it reads the lock flag before it takes the mutex   *)
(* (line 119) and calls notify_callback_ after it has released it (145).   *)
(* A push that is refused returns without a state change: a stuttering     *)
(* step.                                                                   *)
(***************************************************************************)
EXTENDS Naturals, Sequences

CONSTANTS
  Thread,        \* the threads of the program, whichever class owns them
  Job,           \* the Job objects the program creates
  NoJob,         \* a null std::shared_ptr<Job>
  Priority,      \* JobPriorities
  priority,      \* Job::priority(), fixed by the constructor
  PriorityList   \* the std::vector<JobPriorities> that callers pass to pop()

(***************************************************************************)
(* A vector of priorities is a function from positions to priorities.      *)
(* Erasing an element leaves a hole instead of moving the later ones: only *)
(* the order of the positions matters to the code.                         *)
(***************************************************************************)
IsList(list) ==
  /\ list = [i \in DOMAIN list |-> list[i]]
  /\ DOMAIN list \subseteq Nat
  /\ \A i \in DOMAIN list : list[i] \in Priority

Listed(list) == {list[i] : i \in DOMAIN list}

Without(list, p) == [i \in {k \in DOMAIN list : list[k] # p} |-> list[i]]

ASSUME NoJobAssumption == NoJob \notin Job

ASSUME PriorityAssumption == priority \in [Job -> Priority]

ASSUME ListAssumption ==
  \A list \in PriorityList :
    /\ IsList(list)
    /\ \A p \in Priority : Without(list, p) \in PriorityList

VARIABLES
  lock_condition_,  \* TRUE while push() refuses jobs
  job_queues_,      \* the queue of each priority; a missing key is <<>>
  push_at,          \* where each thread is in JobPool::push
  push_job,         \* the job it is pushing
  fate              \* (history) what became of each Job object

jobPoolVars == <<lock_condition_, job_queues_, push_at, push_job, fate>>

Fates == {"new", "pushing", "queued", "taken", "cleared"}

JPTypeOK ==
  /\ lock_condition_ \in BOOLEAN
  /\ job_queues_ \in [Priority -> Seq(Job)]
  /\ push_at \in [Thread -> {"idle", "insert", "notify"}]
  /\ push_job \in [Thread -> Job \cup {NoJob}]
  /\ fate \in [Job -> Fates]

JPInit ==
  /\ lock_condition_ = FALSE
  /\ job_queues_ = [p \in Priority |-> <<>>]
  /\ push_at = [t \in Thread |-> "idle"]
  /\ push_job = [t \in Thread |-> NoJob]
  /\ fate = [j \in Job |-> "new"]

-----------------------------------------------------------------------------
(* push(job), in three steps of the calling thread.                        *)

\* The lock flag is read here, outside the mutex.
PushCheck(t, j) ==
  /\ push_at[t] = "idle"
  /\ fate[j] = "new"
  /\ ~lock_condition_
  /\ push_at' = [push_at EXCEPT ![t] = "insert"]
  /\ push_job' = [push_job EXCEPT ![t] = j]
  /\ fate' = [fate EXCEPT ![j] = "pushing"]
  /\ UNCHANGED <<lock_condition_, job_queues_>>

\* (Faulty variant: the job goes before the jobs that wait already.)
PushInsertFront(t) ==
  /\ push_at[t] = "insert"
  /\ job_queues_' = [job_queues_ EXCEPT ![priority[push_job[t]]] = <<push_job[t]>> \o @]
  /\ push_at' = [push_at EXCEPT ![t] = "notify"]
  /\ fate' = [fate EXCEPT ![push_job[t]] = "queued"]
  /\ UNCHANGED <<lock_condition_, push_job>>

PushInsert(t) ==
  /\ push_at[t] = "insert"
  /\ job_queues_' = [job_queues_ EXCEPT ![priority[push_job[t]]] = Append(@, push_job[t])]
  /\ push_at' = [push_at EXCEPT ![t] = "notify"]
  /\ fate' = [fate EXCEPT ![push_job[t]] = "queued"]
  /\ UNCHANGED <<lock_condition_, push_job>>

\* notify_callback_ has returned.
PushReturn(t) ==
  /\ push_at[t] = "notify"
  /\ push_at' = [push_at EXCEPT ![t] = "idle"]
  /\ push_job' = [push_job EXCEPT ![t] = NoJob]
  /\ UNCHANGED <<lock_condition_, job_queues_, fate>>

-----------------------------------------------------------------------------
(* The other operations.                                                   *)

\* (Faulty variant: any queue that is not empty.)
AnyServed(list, i) == job_queues_[list[i]] # <<>>

FirstServed(list, i) ==
  /\ job_queues_[list[i]] # <<>>
  /\ \A k \in DOMAIN list : k < i => job_queues_[list[k]] = <<>>

\* (Faulty variant: the job stays in its queue.)
PopKeepsJob(list, j) ==
  /\ \E i \in DOMAIN list : FirstServed(list, i) /\ j = Head(job_queues_[list[i]])
  /\ fate' = [fate EXCEPT ![j] = "taken"]
  /\ UNCHANGED <<lock_condition_, job_queues_, push_at, push_job>>

\* pop(list) returns job j: the front of the first queue that is not empty.
Pop(list, j) ==
  /\ \E i \in DOMAIN list :
       /\ FirstServed(list, i)
       /\ j = Head(job_queues_[list[i]])
       /\ job_queues_' = [job_queues_ EXCEPT ![list[i]] = Tail(@)]
  /\ fate' = [fate EXCEPT ![j] = "taken"]
  /\ UNCHANGED <<lock_condition_, push_at, push_job>>

\* pop(list) returns nullptr; an empty list never finds a job.
PopNull(list) ==
  /\ \A i \in DOMAIN list : job_queues_[list[i]] = <<>>
  /\ UNCHANGED jobPoolVars

\* What job_count() adds up for one priority, and for an empty list.
HasQueued(p) == job_queues_[p] # <<>>

AnyQueued == \E p \in Priority : HasQueued(p)

Emptied(P) ==
  /\ job_queues_' = [p \in Priority |-> IF p \in P THEN <<>> ELSE job_queues_[p]]
  /\ fate' = [j \in Job |-> IF fate[j] = "queued" /\ priority[j] \in P
                            THEN "cleared" ELSE fate[j]]
  /\ UNCHANGED <<push_at, push_job>>

ClearQueues(P) == Emptied(P) /\ UNCHANGED lock_condition_

Clear == ClearQueues(Priority)

ClearPriority(p) == ClearQueues({p})

Lock(condition) ==
  /\ lock_condition_' = condition
  /\ UNCHANGED <<job_queues_, push_at, push_job, fate>>

\* ~JobPool() locks and clears.
Dispose == Emptied(Priority) /\ lock_condition_' = TRUE

JPNext ==
  \/ \E t \in Thread :
       \/ \E j \in Job : PushCheck(t, j)
       \/ PushInsert(t)
       \/ PushReturn(t)
  \/ \E list \in PriorityList, j \in Job : Pop(list, j)
  \/ Clear
  \/ \E p \in Priority : ClearPriority(p)
  \/ \E condition \in BOOLEAN : Lock(condition)
  \/ Dispose

JPSpec == JPInit /\ [][JPNext]_jobPoolVars

-----------------------------------------------------------------------------
(* Properties.                                                             *)

\* The queues hold exactly the jobs whose fate is "queued", each once and in
\* the queue of its own priority.
QueuesHoldTheQueued ==
  /\ \A p \in Priority : \A i \in 1 .. Len(job_queues_[p]) :
       /\ fate[job_queues_[p][i]] = "queued"
       /\ priority[job_queues_[p][i]] = p
  /\ \A p \in Priority : \A i, k \in 1 .. Len(job_queues_[p]) :
       job_queues_[p][i] = job_queues_[p][k] => i = k
  /\ \A j \in Job : fate[j] = "queued" =>
       \E i \in 1 .. Len(job_queues_[priority[j]]) : job_queues_[priority[j]][i] = j

Queued == {j \in Job : fate[j] = "queued"}

QueueOrder ==
  {e \in Queued \X Queued :
     \E p \in Priority : \E a, b \in 1 .. Len(job_queues_[p]) :
       a < b /\ job_queues_[p][a] = e[1] /\ job_queues_[p][b] = e[2]}

Dispenser == INSTANCE JobDispenser WITH
  pending <- Queued,
  before <- QueueOrder,
  spent <- {j \in Job : fate[j] \in {"taken", "cleared"}}

\* The pool implements the abstract dispenser: a job is accepted once and
\* leaves once, oldest first within its priority, whatever the interleaving of
\* pushes, pops, clears and locks.
ImplementsDispenser == Dispenser!Spec
=============================================================================
