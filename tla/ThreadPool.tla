----------------------------- MODULE ThreadPool -----------------------------
(***************************************************************************)
(* Thread::ThreadPool (src/ThreadPool/ThreadPool.cpp): the workers, their  *)
(* job pool, and the calls that start, stop, pause, add to and remove from *)
(* them.                                                                   *)
(*                                                                         *)
(* Every call walks thread_workers_ with the pool's mutex_ held; so does   *)
(* notify_callback, which JobPool::push calls on the thread that pushes,   *)
(* be it a client's or a worker's in the middle of a job.  The mutex is    *)
(* the variable mutex_ (its owner), and cursor is where its owner is in    *)
(* the vector.  Workers are numbered, and a pool is given its workers in   *)
(* increasing order: thread_workers_ is a set and the order of the vector  *)
(* is that of the numbers.                                                 *)
(*                                                                         *)
(* A call that is refused at once ("already started", "not started") is a  *)
(* stuttering step.  A call that begins takes the mutex in the same step:  *)
(* a client that waits for the mutex has not changed anything yet.         *)
(***************************************************************************)
EXTENDS ThreadWorker

CONSTANTS
  Client,  \* the threads that use the pool, other than its workers'
  Menu,    \* the calls that each client may make, any number of times
  Nobody,  \* the owner of a free mutex
  Members  \* the workers pushed before anything else happens

Calls == {"push", "start", "stop", "stop immediately", "pause", "resume", "add", "remove",
          "lock", "unlock", "destroy"}

ASSUME PoolAssumption ==
  /\ Worker \subseteq Nat
  /\ Thread = Client \cup Worker
  /\ Client \cap Worker = {}
  /\ Nobody \notin Thread
  /\ Menu \in [Client -> SUBSET Calls]
  /\ Members \subseteq Worker

VARIABLES
  mutex_,          \* the owner of the pool's mutex
  thread_workers_,
  working_,
  pool_pause_,     \* ThreadPool::pause_
  cursor,          \* the owner of the mutex goes on with the first worker from here
  at,              \* where each client is in its call
  arg,             \* the worker it adds or the priority it removes
  destroyer,       \* the client in ~ThreadPool(), Nobody before that
  late,            \* (history) the jobs inserted while a stop was in progress
  gave_up          \* (history) the workers that ended because pop() found no job

poolVars == <<mutex_, thread_workers_, working_, pool_pause_, cursor, at, arg, destroyer, late,
              gave_up>>

vars == <<jobPoolVars, workerVars, poolVars>>

\* The steps of a call, and those of them that hold the mutex.
Holding == {"start", "add", "pause", "remove", "remove stop", "clear", "stop"}

Places == Holding \cup {"idle", "remove cleared", "stopped", "destroy", "destroy workers",
                       "destroyed"}

TPTypeOK ==
  /\ WTypeOK
  /\ mutex_ \in Thread \cup {Nobody}
  /\ thread_workers_ \subseteq Worker
  /\ working_ \in BOOLEAN
  /\ pool_pause_ \in BOOLEAN
  /\ cursor \in Nat
  /\ at \in [Client -> Places]
  /\ arg \in [Client -> Worker \cup Priority \cup {Nobody}]
  /\ destroyer \in Client \cup {Nobody}
  /\ late \subseteq Job
  /\ gave_up \subseteq Worker

TPInit ==
  /\ WInit
  /\ mutex_ = Nobody
  /\ thread_workers_ = Members
  /\ working_ = FALSE
  /\ pool_pause_ = FALSE
  /\ cursor = 0
  /\ at = [c \in Client |-> "idle"]
  /\ arg = [c \in Client |-> Nobody]
  /\ destroyer = Nobody
  /\ late = {}
  /\ gave_up = {}

-----------------------------------------------------------------------------
(* Walking the vector under the mutex.                                     *)

Current(w) ==
  /\ w \in thread_workers_
  /\ w >= cursor
  /\ \A v \in thread_workers_ : v < w => v < cursor

Walked == \A v \in thread_workers_ : v < cursor

\* The owner of the mutex stays at its worker, goes on to the next, or starts.
Stay == UNCHANGED cursor

Advance(w) == cursor' = w + 1

Acquire(t) == mutex_ = Nobody /\ mutex_' = t /\ cursor' = 0

Release(t) == mutex_ = t /\ mutex_' = Nobody /\ cursor' = 0

Moves(c, from, to) == at[c] = from /\ at' = [at EXCEPT ![c] = to]

\* A client with no call in progress that may make this one.
MayCall(c, name) ==
  /\ at[c] = "idle" /\ push_at[c] = "idle"
  /\ destroyer = Nobody
  /\ name \in Menu[c]

UnchangedHistory == UNCHANGED <<destroyer, late, gave_up>>

UnchangedMembers == UNCHANGED <<thread_workers_, working_, pool_pause_, arg>> /\ UnchangedHistory

-----------------------------------------------------------------------------
(* push(job), and notify_callback on the thread that pushes.               *)

Stopping == \E c \in Client : at[c] \in {"clear", "stop"}

Push(c, j) ==
  /\ MayCall(c, "push")
  /\ PushCheck(c, j)
  /\ UNCHANGED <<workerVars, poolVars>>

Insert(t) ==
  /\ PushInsert(t)
  /\ late' = IF Stopping THEN late \cup {push_job[t]} ELSE late
  /\ UNCHANGED <<workerVars, mutex_, thread_workers_, working_, pool_pause_, cursor, at, arg,
                 destroyer, gave_up>>

\* (Faulty variant: walks the workers without waiting for the mutex.)
NotifyBeginUnlocked(t) ==
  /\ push_at[t] = "notify" /\ mutex_ # t
  /\ mutex_' = t /\ cursor' = 0
  /\ UnchangedMembers
  /\ UNCHANGED <<jobPoolVars, workerVars, at>>

NotifyBegin(t) ==
  /\ push_at[t] = "notify"
  /\ Acquire(t)
  /\ UnchangedMembers
  /\ UNCHANGED <<jobPoolVars, workerVars, at>>

NotifyWorker(t) ==
  /\ push_at[t] = "notify" /\ mutex_ = t
  /\ \E w \in Worker :
       /\ Current(w)
       /\ \/ NotifyOne(w, priority[push_job[t]])
          \/ ~Notifies(w, priority[push_job[t]]) /\ UNCHANGED allWorkerVars
       /\ Advance(w)
  /\ UnchangedMembers
  /\ UNCHANGED <<mutex_, at>>

NotifyEnd(t) ==
  /\ Walked
  /\ PushReturn(t)
  /\ Release(t)
  /\ UnchangedMembers
  /\ UNCHANGED <<workerVars, at>>

-----------------------------------------------------------------------------
(* start(), and push(worker), which starts the worker of a working pool.   *)

StartBegin(c) ==
  /\ MayCall(c, "start") /\ ~working_
  /\ Acquire(c)
  /\ Moves(c, "idle", "start")
  /\ UnchangedMembers
  /\ UNCHANGED <<jobPoolVars, workerVars>>

\* Worker::start() joins the thread it finds before it makes another.
StartWorker(c) ==
  /\ at[c] = "start"
  /\ \E w \in Worker :
       /\ Current(w)
       /\ \/ (SignalStop(w) \/ Join(w) \/ StartThread(w)) /\ Stay
          \/ StartReturn(w) /\ Advance(w)
  /\ UnchangedMembers
  /\ UNCHANGED <<mutex_, at>>

\* The first worker that cannot start ends the call; those before it run.
StartFails(c) ==
  /\ Moves(c, "start", "idle")
  /\ \E w \in Worker :
       /\ Current(w)
       /\ \/ StartGivesUp(w)
          \/ CannotStart(w) /\ UNCHANGED allWorkerVars
  /\ Release(c)
  /\ UnchangedMembers

StartEnd(c) ==
  /\ Moves(c, "start", "idle")
  /\ Walked
  /\ working_' = TRUE
  /\ Release(c)
  /\ UNCHANGED <<jobPoolVars, workerVars, thread_workers_, pool_pause_, arg, destroyer, late, gave_up>>

\* (Faulty variant: the worker does not get the pool's pause_.)
AddNotPaused(c, w) ==
  /\ MayCall(c, "add")
  /\ mutex_ = Nobody
  /\ \A v \in thread_workers_ : v < w
  /\ thread_workers_' = thread_workers_ \cup {w}
  /\ IF working_
     THEN Acquire(c) /\ Moves(c, "idle", "add") /\ arg' = [arg EXCEPT ![c] = w]
     ELSE UNCHANGED <<mutex_, cursor, at, arg>>
  /\ UNCHANGED <<jobPoolVars, workerVars, working_, pool_pause_, destroyer, late, gave_up>>

Add(c, w) ==
  /\ MayCall(c, "add")
  /\ mutex_ = Nobody
  /\ \A v \in thread_workers_ : v < w
  /\ thread_workers_' = thread_workers_ \cup {w}
  /\ Pause(w, pool_pause_)
  /\ IF working_
     THEN Acquire(c) /\ Moves(c, "idle", "add") /\ arg' = [arg EXCEPT ![c] = w]
     ELSE UNCHANGED <<mutex_, cursor, at, arg>>
  /\ UNCHANGED <<working_, pool_pause_, destroyer, late, gave_up>>

AddStarts(c) ==
  /\ at[c] = "add"
  /\ StartThread(arg[c])
  /\ UNCHANGED poolVars

\* What start() returns is ignored.  (A worker that is added has never run, or
\* it has lost every priority, and start() does not get as far as get_future.)
AddEnd(c) ==
  /\ Moves(c, "add", "idle")
  /\ \/ StartReturn(arg[c])
     \/ StartGivesUp(arg[c])
     \/ CannotStart(arg[c]) /\ UNCHANGED allWorkerVars
  /\ Release(c)
  /\ arg' = [arg EXCEPT ![c] = Nobody]
  /\ UNCHANGED <<thread_workers_, working_, pool_pause_, destroyer, late, gave_up>>

-----------------------------------------------------------------------------
(* pause(pause).                                                           *)

PauseBegin(c, pause) ==
  /\ MayCall(c, IF pause THEN "pause" ELSE "resume")
  /\ Acquire(c)
  /\ Moves(c, "idle", "pause")
  /\ pool_pause_' = pause
  /\ UNCHANGED <<jobPoolVars, workerVars, thread_workers_, working_, arg, destroyer, late, gave_up>>

PauseWorker(c) ==
  /\ at[c] = "pause"
  /\ \E w \in Worker : Current(w) /\ Pause(w, pool_pause_) /\ Advance(w)
  /\ UnchangedMembers
  /\ UNCHANGED <<mutex_, at>>

PauseEnd(c) ==
  /\ Moves(c, "pause", "idle")
  /\ Walked
  /\ Release(c)
  /\ UnchangedMembers
  /\ UNCHANGED <<jobPoolVars, workerVars>>

-----------------------------------------------------------------------------
(* remove_workers(p): the queue of p is emptied before the mutex is taken, *)
(* then each worker loses p, and one left with no priority is stopped.     *)

RemoveBegin(c, p) ==
  /\ MayCall(c, "remove")
  /\ ClearPriority(p)
  /\ Moves(c, "idle", "remove cleared")
  /\ arg' = [arg EXCEPT ![c] = p]
  /\ UNCHANGED <<workerVars, mutex_, thread_workers_, working_, pool_pause_, cursor, destroyer,
                 late, gave_up>>

RemoveAcquire(c) ==
  /\ Moves(c, "remove cleared", "remove")
  /\ Acquire(c)
  /\ UnchangedMembers
  /\ UNCHANGED <<jobPoolVars, workerVars>>

RemovePriority(c) ==
  /\ at[c] = "remove"
  /\ \E w \in Worker :
       LET left == Without(priorities_[w], arg[c])
       IN  /\ Current(w)
           /\ SetPriorities(w, left)
           /\ IF DOMAIN left = {}
              THEN Stay /\ Moves(c, "remove", "remove stop")
              ELSE Advance(w) /\ UNCHANGED at
  /\ UnchangedMembers
  /\ UNCHANGED mutex_

RemoveSignals(c) ==
  /\ at[c] = "remove stop"
  /\ \E w \in Worker : Current(w) /\ SignalStop(w)
  /\ UNCHANGED poolVars

RemoveStopped(c) ==
  /\ Moves(c, "remove stop", "remove")
  /\ \E w \in Worker :
       /\ Current(w)
       /\ \/ Join(w)
          \/ ~thread_[w] /\ UNCHANGED allWorkerVars
       /\ Advance(w)
  /\ UnchangedMembers
  /\ UNCHANGED mutex_

\* (Faulty variant: std::remove_if without erase leaves a null pointer.)
RemoveEndKeepsNull(c) ==
  LET kept == {w \in thread_workers_ : DOMAIN priorities_[w] # {}}
  IN  /\ Moves(c, "remove", "idle")
      /\ Walked
      /\ thread_workers_' = IF kept = thread_workers_ THEN kept ELSE kept \cup {Nobody}
      /\ arg' = [arg EXCEPT ![c] = Nobody]
      /\ Release(c)
      /\ UNCHANGED <<jobPoolVars, workerVars, working_, pool_pause_, destroyer, late, gave_up>>

RemoveEnd(c) ==
  /\ Moves(c, "remove", "idle")
  /\ Walked
  /\ thread_workers_' = {w \in thread_workers_ : DOMAIN priorities_[w] # {}}
  /\ arg' = [arg EXCEPT ![c] = Nobody]
  /\ Release(c)
  /\ UNCHANGED <<jobPoolVars, workerVars, working_, pool_pause_, destroyer, late, gave_up>>

-----------------------------------------------------------------------------
(* stop(stop_immediately) and lock(condition).                             *)

StopBegin(c, immediately) ==
  /\ MayCall(c, IF immediately THEN "stop immediately" ELSE "stop") /\ working_
  /\ Acquire(c)
  /\ Lock(TRUE)
  /\ Moves(c, "idle", IF immediately THEN "clear" ELSE "stop")
  /\ UnchangedMembers
  /\ UNCHANGED workerVars

StopClear(c) ==
  /\ Moves(c, "clear", "stop")
  /\ Clear
  /\ UnchangedMembers
  /\ UNCHANGED <<workerVars, mutex_, cursor>>

\* (Faulty variants: the thread is not joined; the thread is detached.)
StopWorkerNoJoin(c) ==
  /\ at[c] = "stop"
  /\ \E w \in Worker : Current(w) /\ SignalStop(w) /\ Advance(w)
  /\ UnchangedMembers
  /\ UNCHANGED <<mutex_, at>>

StopWorkerDetach(c) ==
  /\ at[c] = "stop"
  /\ \E w \in Worker :
       /\ Current(w)
       /\ \/ SignalStop(w) /\ Stay
          \/ /\ call[w] = "stop"
             /\ thread_' = [thread_ EXCEPT ![w] = FALSE]
             /\ call' = [call EXCEPT ![w] = "none"]
             /\ UNCHANGED <<jobPoolVars, thread_stop_, pause_, promise_, priorities_, pc,
                            counted, current_job, done>>
             /\ Advance(w)
  /\ UnchangedMembers
  /\ UNCHANGED <<mutex_, at>>

StopWorker(c) ==
  /\ at[c] = "stop"
  /\ \E w \in Worker :
       /\ Current(w)
       /\ \/ SignalStop(w) /\ Stay
          \/ Join(w) /\ Advance(w)
  /\ UnchangedMembers
  /\ UNCHANGED <<mutex_, at>>

\* Where a client goes from stop(): on with the destructor that called it?
AfterStop(c) == IF destroyer = c THEN "destroy workers" ELSE "idle"

\* A worker with no thread ends the call: the pool stays locked and working.
StopFails(c) ==
  /\ Moves(c, "stop", AfterStop(c))
  /\ \E w \in Worker : Current(w) /\ ~thread_[w]
  /\ Release(c)
  /\ UnchangedMembers
  /\ UNCHANGED <<jobPoolVars, workerVars>>

StopUnlock(c) ==
  /\ Moves(c, "stop", "stopped")
  /\ Walked
  /\ Lock(FALSE)
  /\ Release(c)
  /\ UnchangedMembers
  /\ UNCHANGED workerVars

\* working_ is cleared after the mutex was released.
StopEnd(c) ==
  /\ Moves(c, "stopped", AfterStop(c))
  /\ working_' = FALSE
  /\ UNCHANGED <<jobPoolVars, workerVars, mutex_, thread_workers_, pool_pause_, cursor, arg,
                 destroyer, late, gave_up>>

SetLock(c, condition) ==
  /\ MayCall(c, IF condition THEN "lock" ELSE "unlock")
  /\ Lock(condition)
  /\ UNCHANGED <<workerVars, poolVars>>

-----------------------------------------------------------------------------
(* ~ThreadPool(): stop(true), then the workers are let go of one by one    *)
(* (~ThreadWorker() is stop()), without the mutex, and the job pool last,  *)
(* so that a worker never finds it gone.  Nobody else uses the pool, but   *)
(* its workers may still run: stop() refuses when start() has failed       *)
(* half-way, and gives up at the first worker with no thread.  (A job that *)
(* pushes meanwhile walks a vector that is being emptied: undefined.  Here *)
(* it notifies the workers there are, and at one whose thread is being     *)
(* joined it waits for the join.)  Clearing the vector only drops          *)
(* references: it is supposed that the pool's are the last to its workers  *)
(* and to the job pool, as they are in the documented program.             *)

DestroyBegin(c) ==
  /\ MayCall(c, "destroy")
  /\ \A d \in Client : at[d] = "idle" /\ push_at[d] = "idle"
  /\ destroyer' = c
  /\ Moves(c, "idle", IF working_ THEN "destroy" ELSE "destroy workers")
  /\ UNCHANGED <<jobPoolVars, workerVars, mutex_, thread_workers_, working_, pool_pause_, cursor,
                 arg, late, gave_up>>

DestroyStops(c) ==
  /\ Moves(c, "destroy", "clear")
  /\ Acquire(c)
  /\ Lock(TRUE)
  /\ UnchangedMembers
  /\ UNCHANGED workerVars

DestroyWorker(c) ==
  /\ at[c] = "destroy workers"
  /\ \E w \in thread_workers_ :
       /\ \A v \in thread_workers_ : v < w => ~thread_[v]
       /\ SignalStop(w) \/ Join(w)
  /\ UNCHANGED poolVars

\* (Faulty variant: the destructor relies on stop(true).)
DestroyEndUnjoined(c) ==
  /\ Moves(c, "destroy workers", "destroyed")
  /\ \A w \in Worker : call[w] = "none"
  /\ thread_workers_' = {}
  /\ Dispose
  /\ UNCHANGED <<workerVars, mutex_, working_, pool_pause_, cursor, arg, destroyer, late, gave_up>>

DestroyEnd(c) ==
  /\ Moves(c, "destroy workers", "destroyed")
  /\ \A w \in thread_workers_ : ~thread_[w]
  /\ thread_workers_' = {}
  /\ Dispose
  /\ UNCHANGED <<workerVars, mutex_, working_, pool_pause_, cursor, arg, destroyer, late, gave_up>>

\* Nothing is left to be done with the pool.
Gone == (\E c \in Client : at[c] = "destroyed") /\ UNCHANGED vars

-----------------------------------------------------------------------------
\* Calls that a client may make, and need not.
Invoke(c) ==
  \/ \E j \in Job : Push(c, j)
  \/ StartBegin(c)
  \/ \E w \in Worker : Add(c, w)
  \/ \E pause \in BOOLEAN : PauseBegin(c, pause)
  \/ \E p \in Priority : RemoveBegin(c, p)
  \/ \E immediately \in BOOLEAN : StopBegin(c, immediately)
  \/ \E condition \in BOOLEAN : SetLock(c, condition)
  \/ DestroyBegin(c)

\* The rest of a call that has begun.
Continue(c) ==
  \/ StartWorker(c) \/ StartFails(c) \/ StartEnd(c)
  \/ AddStarts(c) \/ AddEnd(c)
  \/ PauseWorker(c) \/ PauseEnd(c)
  \/ RemoveAcquire(c) \/ RemovePriority(c) \/ RemoveSignals(c) \/ RemoveStopped(c) \/ RemoveEnd(c)
  \/ StopClear(c) \/ StopWorker(c) \/ StopFails(c) \/ StopUnlock(c) \/ StopEnd(c)
  \/ DestroyStops(c) \/ DestroyWorker(c) \/ DestroyEnd(c)

\* The rest of a push, on whichever thread.
Notify(t) == Insert(t) \/ NotifyBegin(t) \/ NotifyWorker(t) \/ NotifyEnd(t)

Run(w) ==
  /\ RunStep(w)
  /\ gave_up' = IF pc[w] = "null" /\ pc'[w] = "exit" THEN gave_up \cup {w} ELSE gave_up
  /\ UNCHANGED <<mutex_, thread_workers_, working_, pool_pause_, cursor, at, arg, destroyer, late>>

TPNext ==
  \/ \E c \in Client : Invoke(c) \/ Continue(c)
  \/ \E t \in Thread : Notify(t)
  \/ \E w \in Worker :
       \/ Run(w)
       \/ SpuriousWake(w) /\ UNCHANGED poolVars
       \/ \E j \in Job : WorkPushes(w, j) /\ UNCHANGED poolVars
  \/ Gone

TPSpec == TPInit /\ [][TPNext]_vars

(***************************************************************************)
(* What the scheduler owes: a thread that can go on does (jobs return), and *)
(* a thread that waits for a mutex which is released again and again gets  *)
(* it.  No client has to make a call and no wake-up has to be spurious.    *)
(***************************************************************************)
Fairness ==
  /\ \A w \in Worker : WF_vars(Run(w))
  /\ \A t \in Thread : SF_vars(Notify(t))
  /\ \A c \in Client : SF_vars(Continue(c))

TPFairSpec == TPSpec /\ Fairness

-----------------------------------------------------------------------------
(* Safety.                                                                 *)

\* A client in the middle of a call owns the mutex, a call that waits for a
\* worker's thread is made by the owner at that worker, and a worker outside
\* the vector has no thread.
MutexDiscipline ==
  /\ \A c \in Client : at[c] \in Holding => mutex_ = c /\ push_at[c] = "idle"
  /\ \A t \in Thread : mutex_ = t =>
       push_at[t] = "notify" \/ (t \in Client /\ at[t] \in Holding)
  /\ \A w \in Worker : call[w] # "none" =>
       \E c \in Client : \/ at[c] \in {"start", "remove stop", "stop"} /\ Current(w)
                         \/ at[c] = "add" /\ arg[c] = w
                         \/ at[c] = "destroy workers"
  /\ \A w \in Worker : thread_[w] => w \in thread_workers_

\* No lost wake-up: when a worker that is not paused sleeps while a job of its
\* priorities is queued, some push() has still to notify it.
NoLostWakeup ==
  \A w \in Worker :
    pc[w] = "asleep" /\ ~pause_[w] /\ (\E p \in Listed(priorities_[w]) : HasQueued(p)) =>
      \E t \in Thread :
        /\ push_at[t] = "notify"
        /\ priority[push_job[t]] \in Listed(priorities_[w])
        /\ mutex_ = t => cursor <= w

\* Between calls the workers of the pool are paused exactly when the pool is,
\* also those that were pushed while another thread called pause().
PauseReachesEveryWorker ==
  mutex_ = Nobody => \A w \in thread_workers_ : pause_[w] = pool_pause_

\* Once pause(true) has returned no worker takes a job, as long as no client
\* stops the pool, removes workers or lets go of them.
PausedPoolTakesNothing ==
  [][pool_pause_ /\ (\A c \in Client : at[c] \notin Holding \cup {"destroy workers"})
       => Taken' = Taken]_vars

Served(j) == \E w \in thread_workers_ : priority[j] \in Listed(priorities_[w])

\* A stop() that succeeds has joined every thread of the pool ...
StopJoinsEveryThread ==
  [][\A c \in Client : at[c] = "stop" /\ at'[c] = "stopped" => \A w \in Worker : ~thread_[w]]_vars

\* ... and leaves no job of a priority that the pool serves in a queue, except
\* jobs that once entered it while a stop(), this one or an earlier one, was in
\* progress, and jobs all of whose workers ended early: a worker that counted a
\* job, lost it to another worker and finds the stop request when pop() returns
\* nullptr does not look again.
StopDrains ==
  [][\A c \in Client : at[c] = "stop" /\ at'[c] = "stopped" =>
       \A j \in Queued \ late : \A w \in thread_workers_ :
         priority[j] \in Listed(priorities_[w]) => w \in gave_up]_vars

\* Workers that share no priority lose no job to each other: there a graceful
\* stop() works off everything that was pushed while no stop() was in progress.
GracefulStopDrains ==
  [][\A c \in Client : at[c] = "stop" /\ at'[c] = "stopped" =>
       \A j \in Queued \ late : ~Served(j)]_vars

\* When the destructor has returned nothing of the pool is left: no thread,
\* also of workers that a start() or stop() which failed half-way has left
\* running, no queued job, and nobody in the middle of a push() or a call.
DestroyedLeavesNothing ==
  \A c \in Client : at[c] = "destroyed" =>
    /\ \A w \in Worker : ~thread_[w] /\ pc[w] = "none"
    /\ Queued = {} /\ \A t \in Thread : push_at[t] = "idle"
    /\ mutex_ = Nobody /\ \A d \in Client : d # c => at[d] = "idle"

\* The workers see the pool's calls as calls of arbitrary threads.
ImplementsWorkers == WSpec

-----------------------------------------------------------------------------
(* Liveness.                                                               *)

\* Every call returns, the destructor too, if working on a job pushes no other
\* job.
CallsReturn == \A c \in Client : at[c] # "idle" ~> at[c] \in {"idle", "destroyed"}

\* The one way for a call not to return: it holds the mutex while it joins a
\* worker whose job has pushed another job and waits for the mutex to notify.
JoinsWhatWaits(c) ==
  \E w \in Worker : /\ call[w] = "stop" /\ pc[w] = "work" /\ push_at[w] = "notify"
                    /\ mutex_ = c

CallsReturnOrBlock ==
  \A c \in Client : at[c] # "idle" ~> at[c] = "idle" \/ JoinsWhatWaits(c)

\* A program that calls stop() goes on after it, whatever its jobs do.
StopReturns == \A c \in Client : at[c] = "stop" ~> at[c] # "stop"

\* A job does not stay in its queue for ever while the pool is not paused and
\* some worker with a thread serves it.  (working_ alone promises no thread: a
\* stop() that has failed half-way leaves it TRUE.)
QueuedJobLeaves ==
  \A j \in Job :
    <>[](~pool_pause_ /\ \E w \in thread_workers_ : thread_[w] /\ priority[j] \in Listed(priorities_[w]))
      => []<>(fate[j] # "queued")
=============================================================================
