---------------------------- MODULE ThreadWorker ----------------------------
(***************************************************************************)
(* Thread::ThreadWorker (src/ThreadPool/ThreadWorker.cpp): a thread that   *)
(* sleeps on a condition variable until its pool has a job of one of its   *)
(* priorities, and the calls start, stop, pause, notify_one and priorities *)
(* that other threads make on it.                                          *)
(*                                                                         *)
(* The worker's mutex_ is not a variable.  Of the run thread's steps,      *)
(* "count" and "pop" are the ones taken with the mutex held; every other   *)
(* critical section is one action that needs it free.  A worker that has   *)
(* been notified competes for the mutex like one that starts its loop      *)
(* again: both are at "lock".                                              *)
(*                                                                         *)
(* This module puts the workers of one job pool among arbitrary callers.   *)
(* The calls on one worker come one at a time (a ThreadPool makes them     *)
(* under its own mutex), which call[w] records.  ThreadPool.tla says who   *)
(* calls what, and when.                                                   *)
(***************************************************************************)
EXTENDS JobPool

CONSTANTS
  Worker,            \* the workers; a worker is also the thread it runs
  InitialPriorities, \* the list each worker is constructed with
  Spawns,            \* the jobs that Job::working() of a job may push
  Unlucky            \* the workers whose std::thread may fail to be created

ASSUME WorkerAssumption ==
  /\ Worker \subseteq Thread
  /\ InitialPriorities \in [Worker -> PriorityList]
  /\ Spawns \in [Job -> SUBSET Job]
  /\ Unlucky \subseteq Worker

VARIABLES
  thread_,       \* TRUE when the pointer to the std::thread is not null
  thread_stop_,
  pause_,
  promise_,      \* "fresh", then "retrieved" by get_future, then "set" by run
  priorities_,
  call,          \* the call in progress on the worker that waits for its thread
  pc,            \* where the run thread is
  counted,       \* the positions of priorities_ that has_job() has counted
  current_job,   \* the job in do_run
  done           \* (history) the jobs whose work() has returned

workerVars == <<thread_, thread_stop_, pause_, promise_, priorities_, call, pc,
                counted, current_job, done>>

allWorkerVars == <<jobPoolVars, workerVars>>

Steps == {"none", "begin", "lock", "asleep", "count", "pop", "null", "work", "exit", "finished"}

WTypeOK ==
  /\ JPTypeOK
  /\ thread_ \in [Worker -> BOOLEAN]
  /\ thread_stop_ \in [Worker -> BOOLEAN]
  /\ pause_ \in [Worker -> BOOLEAN]
  /\ promise_ \in [Worker -> {"fresh", "retrieved", "set"}]
  /\ priorities_ \in [Worker -> PriorityList]
  /\ call \in [Worker -> {"none", "start", "stop"}]
  /\ pc \in [Worker -> Steps]
  /\ counted \in [Worker -> SUBSET Nat]
  /\ current_job \in [Worker -> Job \cup {NoJob}]
  /\ done \subseteq Job

WInit ==
  /\ JPInit
  /\ thread_ = [w \in Worker |-> FALSE]
  /\ thread_stop_ = [w \in Worker |-> FALSE]
  /\ pause_ = [w \in Worker |-> FALSE]
  /\ promise_ = [w \in Worker |-> "fresh"]
  /\ priorities_ = InitialPriorities
  /\ call = [w \in Worker |-> "none"]
  /\ pc = [w \in Worker |-> "none"]
  /\ counted = [w \in Worker |-> {}]
  /\ current_job = [w \in Worker |-> NoJob]
  /\ done = {}

MutexFree(w) == pc[w] \notin {"count", "pop"}

Goto(w, step) == pc' = [pc EXCEPT ![w] = step]

\* condition_.notify_one(): the run thread is the only waiter.
Wake(w) == pc' = [pc EXCEPT ![w] = IF @ = "asleep" THEN "lock" ELSE @]

-----------------------------------------------------------------------------
(* run(), in steps of the worker's own thread.                             *)

Begin(w) ==
  /\ pc[w] = "begin"
  /\ promise_' = [promise_ EXCEPT ![w] = "set"]
  /\ Goto(w, "lock")
  /\ UNCHANGED <<jobPoolVars, thread_, thread_stop_, pause_, priorities_, call, counted,
                 current_job, done>>

\* (Faulty variant: a worker ends as soon as it sees a stop request.)
AcquireDropsJobs(w) ==
  /\ pc[w] = "lock"
  /\ Goto(w, IF thread_stop_[w] THEN "exit" ELSE IF pause_[w] THEN "asleep" ELSE "count")
  /\ UNCHANGED <<jobPoolVars, thread_, thread_stop_, pause_, promise_, priorities_, call,
                 counted, current_job, done>>

\* Takes the mutex and evaluates check_condition() up to has_job().  A stop
\* request makes the wait return, and the test after it calls has_job() too.
\* (The test of pause_ after the wait never succeeds: the mutex is held since
\* check_condition() has found pause_ FALSE.)
AcquireAndCheck(w) ==
  /\ pc[w] = "lock"
  /\ Goto(w, IF pause_[w] /\ ~thread_stop_[w] THEN "asleep" ELSE "count")
  /\ UNCHANGED <<jobPoolVars, thread_, thread_stop_, pause_, promise_, priorities_, call,
                 counted, current_job, done>>

\* Waiting on a condition variable may end with no notification.
SpuriousWake(w) ==
  /\ pc[w] = "asleep"
  /\ Goto(w, "lock")
  /\ UNCHANGED <<jobPoolVars, thread_, thread_stop_, pause_, promise_, priorities_, call,
                 counted, current_job, done>>

ToCount(w) == DOMAIN priorities_[w] \ counted[w]

\* job_count() with no priorities is one look at every queue.
CountAll(w) ==
  /\ pc[w] = "count" /\ DOMAIN priorities_[w] = {}
  /\ Goto(w, IF AnyQueued THEN "pop" ELSE IF thread_stop_[w] THEN "exit" ELSE "asleep")
  /\ UNCHANGED <<jobPoolVars, thread_, thread_stop_, pause_, promise_, priorities_, call,
                 counted, current_job, done>>

\* Otherwise it takes the pool's mutex anew for every priority.  The sum is not
\* zero as soon as one queue was seen with a job.
CountOne(w) ==
  /\ pc[w] = "count"
  /\ \E i \in ToCount(w) :
       /\ \A k \in ToCount(w) : i <= k
       /\ IF ~HasQueued(priorities_[w][i]) /\ ToCount(w) # {i}
          THEN counted' = [counted EXCEPT ![w] = @ \cup {i}] /\ UNCHANGED pc
          ELSE /\ counted' = [counted EXCEPT ![w] = {}]
               /\ Goto(w, IF HasQueued(priorities_[w][i]) THEN "pop"
                          ELSE IF thread_stop_[w] THEN "exit" ELSE "asleep")
  /\ UNCHANGED <<jobPoolVars, thread_, thread_stop_, pause_, promise_, priorities_, call,
                 current_job, done>>

\* pop() and the release of the mutex.
TakeJob(w, j) ==
  /\ pc[w] = "pop"
  /\ Pop(priorities_[w], j)
  /\ current_job' = [current_job EXCEPT ![w] = j]
  /\ Goto(w, "work")
  /\ UNCHANGED <<thread_, thread_stop_, pause_, promise_, priorities_, call, counted, done>>

TakeNull(w) ==
  /\ pc[w] = "pop"
  /\ PopNull(priorities_[w])
  /\ Goto(w, "null")
  /\ UNCHANGED <<thread_, thread_stop_, pause_, promise_, priorities_, call, counted,
                 current_job, done>>

AfterNull(w) ==
  /\ pc[w] = "null"
  /\ Goto(w, IF thread_stop_[w] THEN "exit" ELSE "lock")
  /\ UNCHANGED <<jobPoolVars, thread_, thread_stop_, pause_, promise_, priorities_, call,
                 counted, current_job, done>>

\* While it works, a job may push other jobs through Job::get_job_pool().
WorkPushes(w, j) ==
  /\ pc[w] = "work"
  /\ j \in Spawns[current_job[w]]
  /\ PushCheck(w, j)
  /\ UNCHANGED workerVars

\* do_run() returns: nothing that work() throws gets past it.
FinishJob(w) ==
  /\ pc[w] = "work"
  /\ push_at[w] = "idle"
  /\ done' = done \cup {current_job[w]}
  /\ current_job' = [current_job EXCEPT ![w] = NoJob]
  /\ Goto(w, "lock")
  /\ UNCHANGED <<jobPoolVars, thread_, thread_stop_, pause_, promise_, priorities_, call,
                 counted>>

\* (Faulty variant: the stop request outlives the thread.)
ExitKeepsRequest(w) ==
  /\ pc[w] = "exit"
  /\ Goto(w, "finished")
  /\ UNCHANGED <<jobPoolVars, thread_, thread_stop_, pause_, promise_, priorities_, call,
                 counted, current_job, done>>

Exit(w) ==
  /\ pc[w] = "exit"
  /\ thread_stop_' = [thread_stop_ EXCEPT ![w] = FALSE]
  /\ Goto(w, "finished")
  /\ UNCHANGED <<jobPoolVars, thread_, pause_, promise_, priorities_, call, counted,
                 current_job, done>>

RunStep(w) ==
  \/ Begin(w)
  \/ AcquireAndCheck(w)
  \/ CountAll(w)
  \/ CountOne(w)
  \/ \E j \in Job : TakeJob(w, j)
  \/ TakeNull(w)
  \/ AfterNull(w)
  \/ FinishJob(w)
  \/ Exit(w)

-----------------------------------------------------------------------------
(* The calls other threads make.                                           *)

\* (Faulty variant: the request is not notified.)
SignalStopSilently(w) ==
  /\ call[w] = "none" /\ thread_[w]
  /\ MutexFree(w)
  /\ thread_stop_' = [thread_stop_ EXCEPT ![w] = TRUE]
  /\ call' = [call EXCEPT ![w] = "stop"]
  /\ UNCHANGED <<jobPoolVars, thread_, pause_, promise_, priorities_, pc, counted,
                 current_job, done>>

\* stop() of a worker whose thread_ is null returns false and changes nothing.
SignalStop(w) ==
  /\ call[w] = "none" /\ thread_[w]
  /\ MutexFree(w)
  /\ thread_stop_' = [thread_stop_ EXCEPT ![w] = TRUE]
  /\ call' = [call EXCEPT ![w] = "stop"]
  /\ Wake(w)
  /\ UNCHANGED <<jobPoolVars, thread_, pause_, promise_, priorities_, counted, current_job,
                 done>>

Join(w) ==
  /\ call[w] = "stop" /\ pc[w] = "finished"
  /\ thread_' = [thread_ EXCEPT ![w] = FALSE]
  /\ call' = [call EXCEPT ![w] = "none"]
  /\ Goto(w, "none")
  /\ UNCHANGED <<jobPoolVars, thread_stop_, pause_, promise_, priorities_, counted,
                 current_job, done>>

\* start() begins with stop(): the two steps above when there is a thread.
\* Without a thread it fails on an empty list, with no other effect ...
CannotStart(w) == call[w] = "none" /\ ~thread_[w] /\ DOMAIN priorities_[w] = {}

CanStart(w) == call[w] = "none" /\ ~thread_[w] /\ DOMAIN priorities_[w] # {}

\* ... or leaves with no thread: std::future_error when the future was retrieved
\* before, an error or an exception when there is no memory or no thread for it ...
StartGivesUp(w) ==
  /\ CanStart(w)
  /\ promise_[w] # "fresh" \/ w \in Unlucky
  /\ thread_stop_' = [thread_stop_ EXCEPT ![w] = FALSE]
  /\ promise_' = [promise_ EXCEPT ![w] = IF @ = "fresh" THEN "retrieved" ELSE @]
  /\ UNCHANGED <<jobPoolVars, thread_, pause_, priorities_, call, pc, counted, current_job,
                 done>>

\* ... or creates the thread and waits until it has set the promise.
StartThread(w) ==
  /\ CanStart(w) /\ promise_[w] = "fresh"
  /\ thread_stop_' = [thread_stop_ EXCEPT ![w] = FALSE]
  /\ promise_' = [promise_ EXCEPT ![w] = "retrieved"]
  /\ thread_' = [thread_ EXCEPT ![w] = TRUE]
  /\ call' = [call EXCEPT ![w] = "start"]
  /\ Goto(w, "begin")
  /\ UNCHANGED <<jobPoolVars, pause_, priorities_, counted, current_job, done>>

StartReturn(w) ==
  /\ call[w] = "start" /\ promise_[w] = "set"
  /\ call' = [call EXCEPT ![w] = "none"]
  /\ UNCHANGED <<jobPoolVars, thread_, thread_stop_, pause_, promise_, priorities_, pc,
                 counted, current_job, done>>

\* (Faulty variant: pause_ is set without the mutex.)
PauseUnlocked(w, pause) ==
  /\ call[w] = "none"
  /\ pause_' = [pause_ EXCEPT ![w] = pause]
  /\ Wake(w)
  /\ UNCHANGED <<jobPoolVars, thread_, thread_stop_, promise_, priorities_, call, counted,
                 current_job, done>>

Pause(w, pause) ==
  /\ call[w] = "none" /\ MutexFree(w)
  /\ pause_' = [pause_ EXCEPT ![w] = pause]
  /\ Wake(w)
  /\ UNCHANGED <<jobPoolVars, thread_, thread_stop_, promise_, priorities_, call, counted,
                 current_job, done>>

\* notify_one(p) does nothing for a worker that does not run or serve p.
Notifies(w, p) == thread_[w] /\ p \in Listed(priorities_[w])

\* (Faulty variant: notifies without the mutex.)
NotifyOneUnlocked(w, p) ==
  /\ call[w] = "none"
  /\ Notifies(w, p)
  /\ Wake(w)
  /\ UNCHANGED <<jobPoolVars, thread_, thread_stop_, pause_, promise_, priorities_, call,
                 counted, current_job, done>>

NotifyOne(w, p) ==
  /\ call[w] = "none"
  /\ Notifies(w, p)
  /\ MutexFree(w)
  /\ Wake(w)
  /\ UNCHANGED <<jobPoolVars, thread_, thread_stop_, pause_, promise_, priorities_, call,
                 counted, current_job, done>>

SetPriorities(w, list) ==
  /\ call[w] = "none" /\ MutexFree(w)
  /\ priorities_' = [priorities_ EXCEPT ![w] = list]
  /\ UNCHANGED <<jobPoolVars, thread_, thread_stop_, pause_, promise_, call, pc, counted,
                 current_job, done>>

WorkerCall(w) ==
  \/ SignalStop(w)
  \/ Join(w)
  \/ StartGivesUp(w)
  \/ StartThread(w)
  \/ StartReturn(w)
  \/ \E pause \in BOOLEAN : Pause(w, pause)
  \/ \E p \in Priority : NotifyOne(w, p) \/ SetPriorities(w, Without(priorities_[w], p))

\* What the rest of the program does to the job pool.
PoolCall ==
  /\ \/ \E t \in Thread \ Worker, j \in Job : PushCheck(t, j)
     \/ \E t \in Thread : PushInsert(t) \/ PushReturn(t)
     \/ Clear
     \/ \E p \in Priority : ClearPriority(p)
     \/ \E condition \in BOOLEAN : Lock(condition)
     \/ Dispose
  /\ UNCHANGED workerVars

WNext ==
  \/ \E w \in Worker :
       \/ RunStep(w)
       \/ SpuriousWake(w)
       \/ \E j \in Job : WorkPushes(w, j)
       \/ WorkerCall(w)
  \/ PoolCall

WSpec == WInit /\ [][WNext]_allWorkerVars

-----------------------------------------------------------------------------
(* Properties.                                                             *)

Taken == {j \in Job : fate[j] = "taken"}

\* Every job that left a queue through pop() is either being worked on by one
\* worker or done, and no worker holds a job that it did not take.
JobAccounting ==
  /\ \A w \in Worker : (pc[w] = "work") <=> (current_job[w] # NoJob)
  /\ \A w, v \in Worker : current_job[w] # NoJob /\ current_job[w] = current_job[v] => w = v
  /\ \A w \in Worker : current_job[w] \notin done
  /\ Taken = done \cup ({current_job[w] : w \in Worker} \ {NoJob})

\* A caller of stop() that waits in join() has not lost its request: the thread
\* it waits for runs towards its end and never sleeps on the condition variable.
JoinedThreadIsAwake ==
  \A w \in Worker : call[w] = "stop" =>
    /\ pc[w] \notin {"none", "asleep"}
    /\ pc[w] # "finished" => thread_stop_[w]

\* A thread exists exactly while thread_ is set, the promise is used at most
\* once, and a stop request is pending only while someone waits in join().
ThreadLifecycle ==
  \A w \in Worker :
    /\ thread_[w] <=> pc[w] # "none"
    /\ promise_[w] = "fresh" => pc[w] = "none"
    /\ pc[w] = "begin" => promise_[w] = "retrieved"
    /\ pc[w] \notin {"none", "begin"} => promise_[w] = "set"
    /\ thread_stop_[w] => call[w] = "stop"
    /\ pc[w] \in {"exit", "finished"} => call[w] = "stop"
    /\ pc[w] = "finished" => ~thread_stop_[w]

\* A paused worker takes no job, unless it is stopping: pause() has returned
\* only after the worker has left the section in which it found pause_ FALSE.
PausedTakesNothing ==
  [][\A w \in Worker : pause_[w] /\ ~thread_stop_[w] => current_job'[w] \in {current_job[w], NoJob}]_allWorkerVars

\* A worker never takes a job while one of an earlier priority of its list waits.
EarlierPriorityFirst ==
  [][\A w \in Worker : \A j \in Job : current_job[w] = NoJob /\ current_job'[w] = j =>
       \E i \in DOMAIN priorities_[w] :
         /\ priorities_[w][i] = priority[j]
         /\ \A k \in Queued : priority[k] \notin {priorities_[w][n] : n \in {m \in DOMAIN priorities_[w] : m < i}}]_allWorkerVars
=============================================================================
