-------------------------- MODULE ThreadPoolProofs --------------------------
(***************************************************************************)
(* Theorems about ThreadPool.tla.  Every step of the pool is a step of the *)
(* workers and their callers, or leaves them alone; so what is proved of   *)
(* them in ThreadWorkerProofs holds of the whole pool.                     *)
(*                                                                         *)
(* Then the calls on the pool: who owns the mutex, what a pause promises,  *)
(* that no wake-up is lost, and what stop() and the destructor leave behind. *)
(* Each part of the invariant rests on those before it; PoolInv is their   *)
(* conjunction.  The last part is about pools whose workers share no       *)
(* priority, under the stronger invariant DrainInv.                        *)
(***************************************************************************)
EXTENDS ThreadPool, ThreadWorkerProofs

\* What a client's call is about.
ArgumentsOK ==
  \A c \in Client :
    /\ at[c] = "add" => arg[c] \in Worker
    /\ at[c] \in {"remove cleared", "remove", "remove stop"} => arg[c] \in Priority

OwnTypes ==
  /\ mutex_ \in Thread \cup {Nobody}
  /\ thread_workers_ \subseteq Worker
  /\ working_ \in BOOLEAN
  /\ pool_pause_ \in BOOLEAN
  /\ cursor \in Nat
  /\ at \in [Client -> Places]
  /\ arg \in [Client -> Worker \cup Priority \cup {Nobody}]
  /\ destroyer \in Client \cup {Nobody}
  /\ late \subseteq Job
  /\ gave_up \subseteq Worker

TPInv ==
  /\ WInv
  /\ OwnTypes
  /\ ArgumentsOK

LEMMA NotifyRefines ==
  ASSUME TPInv, NEW t \in Thread, Notify(t)
  PROVE  [WNext]_allWorkerVars
<1> USE DEF TPInv
<1>1. CASE Insert(t)
  BY <1>1 DEF Insert, WNext, PoolCall
<1>2. CASE NotifyBegin(t)
  BY <1>2 DEF NotifyBegin, allWorkerVars
<1>3. CASE NotifyWorker(t)
  <2>1. priority[push_job[t]] \in Priority
    BY <1>3, PriorityAssumption DEF NotifyWorker, WInv, JPInv, PushesAreApart
  <2>2. PICK w \in Worker :
          \/ NotifyOne(w, priority[push_job[t]])
          \/ UNCHANGED allWorkerVars
    BY <1>3 DEF NotifyWorker
  <2> QED
    BY <2>1, <2>2 DEF WNext, WorkerCall
<1>4. CASE NotifyEnd(t)
  BY <1>4 DEF NotifyEnd, WNext, PoolCall
<1> QED
  BY <1>1, <1>2, <1>3, <1>4 DEF Notify

LEMMA InvokeRefines ==
  ASSUME TPInv, NEW c \in Client, Invoke(c)
  PROVE  [WNext]_allWorkerVars
<1>1. c \in Thread \ Worker
  BY PoolAssumption
<1>2. ASSUME NEW j \in Job, Push(c, j) PROVE WNext
  BY <1>1, <1>2 DEF Push, WNext, PoolCall
<1>3. CASE StartBegin(c)
  BY <1>3 DEF StartBegin, allWorkerVars
<1>4. ASSUME NEW w \in Worker, Add(c, w) PROVE WNext
  BY <1>4 DEF Add, WNext, WorkerCall, TPInv, OwnTypes
<1>5. ASSUME NEW pause \in BOOLEAN, PauseBegin(c, pause) PROVE UNCHANGED allWorkerVars
  BY <1>5 DEF PauseBegin, allWorkerVars
<1>6. ASSUME NEW p \in Priority, RemoveBegin(c, p) PROVE WNext
  BY <1>6 DEF RemoveBegin, WNext, PoolCall
<1>7. ASSUME NEW immediately \in BOOLEAN, StopBegin(c, immediately) PROVE WNext
  BY <1>7 DEF StopBegin, WNext, PoolCall
<1>8. ASSUME NEW condition \in BOOLEAN, SetLock(c, condition) PROVE WNext
  BY <1>8 DEF SetLock, WNext, PoolCall
<1>9. CASE DestroyBegin(c)
  BY <1>9 DEF DestroyBegin, allWorkerVars
<1> QED
  BY <1>2, <1>3, <1>4, <1>5, <1>6, <1>7, <1>8, <1>9 DEF Invoke

LEMMA ContinueRefines ==
  ASSUME TPInv, NEW c \in Client, Continue(c)
  PROVE  [WNext]_allWorkerVars
<1> USE DEF TPInv
<1>1. CASE StartWorker(c)
  BY <1>1 DEF StartWorker, WNext, WorkerCall
<1>2. CASE StartFails(c)
  BY <1>2 DEF StartFails, WNext, WorkerCall
<1>3. CASE StartEnd(c) \/ PauseEnd(c) \/ RemoveAcquire(c) \/ RemoveEnd(c) \/ StopFails(c) \/ StopEnd(c)
  BY <1>3 DEF StartEnd, PauseEnd, RemoveAcquire, RemoveEnd, StopFails, StopEnd, allWorkerVars
<1>4. CASE AddStarts(c)
  BY <1>4 DEF AddStarts, WNext, WorkerCall, ArgumentsOK
<1>5. CASE AddEnd(c)
  BY <1>5 DEF AddEnd, Moves, WNext, WorkerCall, ArgumentsOK
<1>6. CASE PauseWorker(c)
  BY <1>6 DEF PauseWorker, WNext, WorkerCall, OwnTypes
<1>7. CASE RemovePriority(c)
  BY <1>7 DEF RemovePriority, WNext, WorkerCall, ArgumentsOK
<1>8. CASE RemoveSignals(c)
  BY <1>8 DEF RemoveSignals, WNext, WorkerCall
<1>9. CASE RemoveStopped(c)
  BY <1>9 DEF RemoveStopped, WNext, WorkerCall
<1>10. CASE StopClear(c)
  BY <1>10 DEF StopClear, WNext, PoolCall
<1>11. CASE StopWorker(c)
  BY <1>11 DEF StopWorker, WNext, WorkerCall
<1>12. CASE StopUnlock(c)
  BY <1>12 DEF StopUnlock, WNext, PoolCall
<1>13. CASE DestroyStops(c)
  BY <1>13 DEF DestroyStops, WNext, PoolCall
<1>14. CASE DestroyWorker(c)
  BY <1>14 DEF DestroyWorker, WNext, WorkerCall, OwnTypes
<1>15. CASE DestroyEnd(c)
  BY <1>15 DEF DestroyEnd, WNext, PoolCall
<1> QED
  BY <1>1, <1>2, <1>3, <1>4, <1>5, <1>6, <1>7, <1>8, <1>9, <1>10, <1>11, <1>12, <1>13, <1>14,
     <1>15 DEF Continue

LEMMA PoolRefinesWorkers ==
  ASSUME TPInv, [TPNext]_vars
  PROVE  [WNext]_allWorkerVars
<1>1. ASSUME NEW w \in Worker, Run(w) PROVE WNext
  BY <1>1 DEF Run, WNext
<1>2. ASSUME NEW w \in Worker, SpuriousWake(w) PROVE WNext
  BY <1>2 DEF WNext
<1>3. ASSUME NEW w \in Worker, NEW j \in Job, WorkPushes(w, j) PROVE WNext
  BY <1>3 DEF WNext
<1>4. ASSUME UNCHANGED vars PROVE UNCHANGED allWorkerVars
  BY <1>4 DEF vars, allWorkerVars
<1> QED
  BY <1>1, <1>2, <1>3, <1>4, NotifyRefines, InvokeRefines, ContinueRefines DEF TPNext, Gone

LEMMA CursorType ==
  ASSUME cursor \in Nat, NEW w \in Worker, Stay \/ Advance(w)
  PROVE  cursor' \in Nat
<1>1. w \in Nat
  BY PoolAssumption
<1> QED
  BY <1>1 DEF Stay, Advance

LEMMA OwnTypesKept ==
  ASSUME TPInv, [TPNext]_vars
  PROVE  OwnTypes' /\ ArgumentsOK'
<1> USE DEF TPInv, OwnTypes, ArgumentsOK
<1>1. Worker \subseteq Nat /\ Client \subseteq Thread
  BY PoolAssumption
<1>2. ASSUME NEW c \in Client, Invoke(c) PROVE OwnTypes' /\ ArgumentsOK'
  <2>1. ASSUME NEW j \in Job, Push(c, j) PROVE OwnTypes' /\ ArgumentsOK'
    BY <2>1 DEF Push, poolVars
  <2>2. CASE StartBegin(c)
    BY <1>1, <2>2 DEF StartBegin, Acquire, Moves, UnchangedMembers, UnchangedHistory, Places, Holding
  <2>3. ASSUME NEW w \in Worker, Add(c, w) PROVE OwnTypes' /\ ArgumentsOK'
    <3>1. thread_workers_' \subseteq Worker
      BY <2>3 DEF Add
    <3>2. CASE working_
      <4>1. /\ mutex_' = c /\ cursor' = 0
            /\ at' = [at EXCEPT ![c] = "add"]
            /\ arg' = [arg EXCEPT ![c] = w]
            /\ UNCHANGED <<working_, pool_pause_, destroyer, late, gave_up>>
        BY <2>3, <3>2 DEF Add, Acquire, Moves
      <4>2. OwnTypes'
        BY <1>1, <3>1, <4>1 DEF Places, Holding
      <4>3. ArgumentsOK'
        BY <4>1
      <4> QED
        BY <4>2, <4>3
    <3>3. CASE ~working_
      BY <2>3, <3>1, <3>3 DEF Add
    <3> QED
      BY <3>2, <3>3
  <2>4. ASSUME NEW pause \in BOOLEAN, PauseBegin(c, pause) PROVE OwnTypes' /\ ArgumentsOK'
    BY <1>1, <2>4 DEF PauseBegin, Acquire, Moves, Places, Holding
  <2>5. ASSUME NEW p \in Priority, RemoveBegin(c, p) PROVE OwnTypes' /\ ArgumentsOK'
    BY <1>1, <2>5 DEF RemoveBegin, Moves, Places, Holding
  <2>6. ASSUME NEW immediately \in BOOLEAN, StopBegin(c, immediately) PROVE OwnTypes' /\ ArgumentsOK'
    BY <1>1, <2>6 DEF StopBegin, Acquire, Moves, UnchangedMembers, UnchangedHistory, Places, Holding
  <2>7. ASSUME NEW condition \in BOOLEAN, SetLock(c, condition) PROVE OwnTypes' /\ ArgumentsOK'
    BY <2>7 DEF SetLock, poolVars
  <2>8. CASE DestroyBegin(c)
    BY <2>8 DEF DestroyBegin, Moves, Places, Holding
  <2> QED
    BY <1>2, <2>1, <2>2, <2>3, <2>4, <2>5, <2>6, <2>7, <2>8 DEF Invoke
<1>3. ASSUME NEW c \in Client, Continue(c) PROVE OwnTypes' /\ ArgumentsOK'
  <2> USE <1>1 DEF Moves, Acquire, Release, UnchangedMembers, UnchangedHistory, Places, Holding, poolVars
  <2>1. CASE StartWorker(c)
    BY <2>1, CursorType DEF StartWorker
  <2>2. CASE StartFails(c)
    BY <2>2 DEF StartFails
  <2>3. CASE StartEnd(c)
    BY <2>3 DEF StartEnd
  <2>4. CASE AddStarts(c)
    BY <2>4 DEF AddStarts
  <2>5. CASE AddEnd(c)
    BY <2>5 DEF AddEnd
  <2>6. CASE PauseWorker(c)
    BY <2>6, CursorType DEF PauseWorker
  <2>17. CASE PauseEnd(c)
    BY <2>17 DEF PauseEnd
  <2>7. CASE RemoveAcquire(c)
    BY <2>7 DEF RemoveAcquire
  <2>8. CASE RemovePriority(c)
    BY <2>8, CursorType DEF RemovePriority
  <2>9. CASE RemoveSignals(c)
    BY <2>9 DEF RemoveSignals
  <2>10. CASE RemoveStopped(c)
    BY <2>10, CursorType DEF RemoveStopped
  <2>11. CASE RemoveEnd(c)
    BY <2>11 DEF RemoveEnd
  <2>12. CASE StopClear(c)
    BY <2>12 DEF StopClear
  <2>13. CASE StopWorker(c)
    BY <2>13, CursorType DEF StopWorker
  <2>14. CASE StopFails(c)
    BY <2>14 DEF StopFails, AfterStop
  <2>15. CASE StopUnlock(c)
    BY <2>15 DEF StopUnlock
  <2>16. CASE StopEnd(c)
    BY <2>16 DEF StopEnd, AfterStop
  <2>18. CASE DestroyStops(c)
    BY <2>18 DEF DestroyStops
  <2>19. CASE DestroyWorker(c)
    BY <2>19 DEF DestroyWorker
  <2>20. CASE DestroyEnd(c)
    BY <2>20 DEF DestroyEnd
  <2> QED
    BY <1>3, <2>1, <2>2, <2>3, <2>4, <2>5, <2>6, <2>7, <2>8, <2>9, <2>10, <2>11, <2>12, <2>13,
       <2>14, <2>15, <2>16, <2>17, <2>18, <2>19, <2>20 DEF Continue
<1>4. ASSUME NEW t \in Thread, Notify(t) PROVE OwnTypes' /\ ArgumentsOK'
  <2>1. CASE Insert(t)
    BY <2>1 DEF Insert, PushInsert, WInv, JPInv, PushesAreApart
  <2>2. CASE NotifyBegin(t)
    BY <2>2 DEF NotifyBegin, Acquire, UnchangedMembers, UnchangedHistory
  <2>3. CASE NotifyWorker(t)
    BY <2>3, CursorType DEF NotifyWorker, UnchangedMembers, UnchangedHistory
  <2>4. CASE NotifyEnd(t)
    BY <2>4 DEF NotifyEnd, Release, UnchangedMembers, UnchangedHistory
  <2> QED
    BY <1>4, <2>1, <2>2, <2>3, <2>4 DEF Notify
<1>5. ASSUME NEW w \in Worker, Run(w) PROVE OwnTypes' /\ ArgumentsOK'
  BY <1>5 DEF Run
<1>6. ASSUME UNCHANGED poolVars PROVE OwnTypes' /\ ArgumentsOK'
  BY <1>6 DEF poolVars
<1>7. UNCHANGED vars => UNCHANGED poolVars
  BY DEF vars
<1> QED
  BY <1>2, <1>3, <1>4, <1>5, <1>6, <1>7 DEF TPNext, Gone

LEMMA TPInitInv == TPInit => TPInv
<1> SUFFICES ASSUME TPInit PROVE TPInv
  OBVIOUS
<1>1. WInv
  BY WInitInv DEF TPInit
<1>2. OwnTypes /\ ArgumentsOK
  BY PoolAssumption DEF TPInit, OwnTypes, ArgumentsOK, Places, Holding
<1> QED
  BY <1>1, <1>2 DEF TPInv

LEMMA TPNextInv ==
  ASSUME TPInv, [TPNext]_vars
  PROVE  TPInv'
  BY PoolRefinesWorkers, WNextInv, OwnTypesKept DEF TPInv

\* The pool keeps its types in every state.
THEOREM TPTypeCorrect == TPSpec => []TPTypeOK
<1>1. TPInit => TPInv
  BY TPInitInv
<1>2. TPInv /\ [TPNext]_vars => TPInv'
  BY TPNextInv
<1>3. TPInv => TPTypeOK
  BY DEF TPInv, WInv, OwnTypes, TPTypeOK
<1> QED
  BY <1>1, <1>2, <1>3, PTL DEF TPSpec

\* Seen from its workers the pool is a number of threads that call them one
\* call at a time: all that is proved of the workers and of the job pool holds
\* for a thread pool, whichever clients use it.
THEOREM TPImplementsWorkers == TPSpec => ImplementsWorkers
<1>1. TPInit => WInit
  BY DEF TPInit
<1>2. TPInit => TPInv
  BY TPInitInv
<1>3. TPInv /\ [TPNext]_vars => TPInv'
  BY TPNextInv
<1>4. TPInv /\ [TPNext]_vars => [WNext]_allWorkerVars
  BY PoolRefinesWorkers
<1> QED
  BY <1>1, <1>2, <1>3, <1>4, PTL DEF TPSpec, WSpec, ImplementsWorkers

\* What holds of any workers holds of those of a pool: every job is worked on
\* once and accounted for ...
THEOREM PoolAccounting == TPSpec => []JobAccounting
<1>1. TPSpec => WSpec
  BY TPImplementsWorkers DEF ImplementsWorkers
<1> QED
  BY <1>1, WorkerAccounting, PTL

\* ... no stop request is lost ...
THEOREM PoolStopRequestIsKept == TPSpec => []JoinedThreadIsAwake
<1>1. TPSpec => WSpec
  BY TPImplementsWorkers DEF ImplementsWorkers
<1> QED
  BY <1>1, StopRequestIsKept, PTL

\* ... and a thread's life follows the order start, run, stop, join.
THEOREM PoolThreadLifecycle == TPSpec => []ThreadLifecycle
<1>1. TPSpec => WSpec
  BY TPImplementsWorkers DEF ImplementsWorkers
<1> QED
  BY <1>1, WorkerLifecycle, PTL

\* What holds of any user of the job pool holds here: the queues are those of
\* the jobs that were accepted, each in order of their arrival ...
THEOREM PoolKeepsQueues == TPSpec => []QueuesHoldTheQueued
<1>1. TPSpec => JPSpec
  BY TPImplementsWorkers, WImplementsPool DEF ImplementsWorkers
<1> QED
  BY <1>1, JPInvariant, PTL

\* ... the whole pool dispenses jobs as the abstract dispenser does ...
THEOREM PoolImplementsDispenser == TPSpec => ImplementsDispenser
<1>1. TPSpec => JPSpec
  BY TPImplementsWorkers, WImplementsPool DEF ImplementsWorkers
<1> QED
  BY <1>1, JPImplementsDispenser

\* ... and no worker prefers a later priority of its list to an earlier one.
THEOREM PoolServesInOrder == TPSpec => EarlierPriorityFirst
  BY TPImplementsWorkers, WorkerServesInOrder DEF ImplementsWorkers

-----------------------------------------------------------------------------
(* Who is in the middle of what.                                           *)

\* A client is in one call at a time, and the mutex belongs to a call that is
\* in a step which holds it, or to a push that notifies.
OneCallEach ==
  /\ \A c \in Client : at[c] # "idle" => push_at[c] = "idle"
  /\ \A c \in Client : at[c] \in Holding => mutex_ = c
  /\ \A t \in Thread : mutex_ = t =>
       push_at[t] = "notify" \/ (t \in Client /\ at[t] \in Holding)

Destroying == {"destroy", "clear", "stop", "stopped", "destroy workers", "destroyed"}

\* From the destructor on nobody else uses the pool.
DestroyerIsAlone ==
  /\ \A c \in Client : destroyer \notin {Nobody, c} => at[c] = "idle" /\ push_at[c] = "idle"
  /\ \A c \in Client : destroyer = c => at[c] \in Destroying
  /\ \A c \in Client : at[c] \in {"destroy", "destroy workers", "destroyed"} => destroyer = c

CallsInv == OneCallEach /\ DestroyerIsAlone

LEMMA CallsInit == TPInit => CallsInv
<1> SUFFICES ASSUME TPInit PROVE CallsInv
  OBVIOUS
<1>1. /\ Client \subseteq Thread /\ Nobody \notin Thread
      /\ mutex_ = Nobody /\ destroyer = Nobody
      /\ at = [c \in Client |-> "idle"]
      /\ push_at = [t \in Thread |-> "idle"]
  BY PoolAssumption DEF TPInit, WInit, JPInit
<1>2. OneCallEach
  BY <1>1 DEF OneCallEach, Holding
<1>3. DestroyerIsAlone
  BY <1>1 DEF DestroyerIsAlone
<1> QED
  BY <1>2, <1>3 DEF CallsInv

LEMMA InvokeKeepsCalls ==
  ASSUME TPInv, CallsInv, NEW c \in Client, Invoke(c)
  PROVE  CallsInv'
<1> USE DEF CallsInv, OneCallEach, DestroyerIsAlone, Destroying, Holding, MayCall, Moves, Acquire,
            UnchangedMembers, UnchangedHistory, jobPoolVars, workerVars, poolVars
<1>1. /\ Client \subseteq Thread /\ Nobody \notin Thread
      /\ at \in [Client -> Places]
      /\ push_at \in [Thread -> {"idle", "insert", "notify"}]
  BY PoolAssumption DEF TPInv, OwnTypes, WInv, JPInv, JPTypeOK
<1>2. ASSUME NEW j \in Job, Push(c, j) PROVE CallsInv'
  BY <1>1, <1>2 DEF Push, PushCheck
<1>3. CASE StartBegin(c)
  BY <1>1, <1>3 DEF StartBegin
<1>4. ASSUME NEW w \in Worker, Add(c, w) PROVE CallsInv'
  <2>1. push_at' = push_at /\ destroyer = Nobody /\ destroyer' = Nobody /\ at[c] = "idle" /\ push_at[c] = "idle"
    BY <1>4 DEF Add, Pause
  <2>2. CASE working_
    <3>1. mutex_ = Nobody /\ mutex_' = c /\ at' = [at EXCEPT ![c] = "add"]
      BY <1>4, <2>2 DEF Add
    <3> QED
      BY <1>1, <2>1, <3>1
  <2>3. CASE ~working_
    <3>1. mutex_' = mutex_ /\ at' = at
      BY <1>4, <2>3 DEF Add
    <3> QED
      BY <1>1, <2>1, <3>1
  <2> QED
    BY <2>2, <2>3
<1>5. ASSUME NEW pause \in BOOLEAN, PauseBegin(c, pause) PROVE CallsInv'
  BY <1>1, <1>5 DEF PauseBegin
<1>6. ASSUME NEW p \in Priority, RemoveBegin(c, p) PROVE CallsInv'
  BY <1>1, <1>6 DEF RemoveBegin, ClearPriority, ClearQueues, Emptied
<1>7. ASSUME NEW immediately \in BOOLEAN, StopBegin(c, immediately) PROVE CallsInv'
  BY <1>1, <1>7 DEF StopBegin, Lock
<1>8. ASSUME NEW condition \in BOOLEAN, SetLock(c, condition) PROVE CallsInv'
  BY <1>1, <1>8 DEF SetLock, Lock
<1>9. CASE DestroyBegin(c)
  BY <1>1, <1>9 DEF DestroyBegin
<1> QED
  BY <1>2, <1>3, <1>4, <1>5, <1>6, <1>7, <1>8, <1>9 DEF Invoke

LEMMA NotifyKeepsCalls ==
  ASSUME TPInv, CallsInv, NEW t \in Thread, Notify(t)
  PROVE  CallsInv'
<1> USE DEF CallsInv, OneCallEach, DestroyerIsAlone, Destroying, Holding, Acquire, Release,
            UnchangedMembers, UnchangedHistory, jobPoolVars, workerVars, poolVars
<1>1. /\ Client \subseteq Thread /\ Nobody \notin Thread
      /\ at \in [Client -> Places]
      /\ push_at \in [Thread -> {"idle", "insert", "notify"}]
  BY PoolAssumption DEF TPInv, OwnTypes, WInv, JPInv, JPTypeOK
<1>2. CASE Insert(t)
  BY <1>1, <1>2 DEF Insert, PushInsert
<1>3. CASE NotifyBegin(t)
  BY <1>1, <1>3 DEF NotifyBegin
<1>4. CASE NotifyWorker(t)
  BY <1>1, <1>4 DEF NotifyWorker, NotifyOne, allWorkerVars
<1>5. CASE NotifyEnd(t)
  BY <1>1, <1>5 DEF NotifyEnd, PushReturn
<1> QED
  BY <1>2, <1>3, <1>4, <1>5 DEF Notify

\* No call on a worker touches the job pool.
LEMMA WorkerCallsLeaveJobs ==
  ASSUME NEW w \in Worker,
         \/ SignalStop(w) \/ Join(w) \/ StartThread(w) \/ StartReturn(w) \/ StartGivesUp(w)
         \/ \E pause : Pause(w, pause)
         \/ \E list : SetPriorities(w, list)
  PROVE  UNCHANGED jobPoolVars
  BY DEF SignalStop, Join, StartThread, StartReturn, StartGivesUp, Pause, SetPriorities

LEMMA ContinueKeepsCalls ==
  ASSUME TPInv, CallsInv, NEW c \in Client, Continue(c)
  PROVE  CallsInv'
<1> USE DEF CallsInv, OneCallEach, DestroyerIsAlone, Destroying, Holding, Moves, Acquire, Release,
            UnchangedMembers, UnchangedHistory, jobPoolVars, poolVars, allWorkerVars
<1>1. /\ Client \subseteq Thread /\ Nobody \notin Thread
      /\ at \in [Client -> Places]
      /\ push_at \in [Thread -> {"idle", "insert", "notify"}]
  BY PoolAssumption DEF TPInv, OwnTypes, WInv, JPInv, JPTypeOK
<1> USE <1>1
<1>2. CASE StartWorker(c)
  BY <1>2, WorkerCallsLeaveJobs DEF StartWorker
<1>3. CASE StartFails(c)
  BY <1>3, WorkerCallsLeaveJobs DEF StartFails
<1>4. CASE StartEnd(c)
  BY <1>4 DEF StartEnd
<1>5. CASE AddStarts(c)
  BY <1>5 DEF AddStarts, StartThread
<1>6. CASE AddEnd(c)
  <2>1. push_at' = push_at
    BY <1>6 DEF AddEnd, StartReturn, StartGivesUp
  <2>2. destroyer' = destroyer
    BY <1>6 DEF AddEnd
  <2>3. mutex_ = c /\ mutex_' = Nobody /\ at[c] = "add" /\ at' = [at EXCEPT ![c] = "idle"]
    BY <1>6 DEF AddEnd
  <2> QED
    BY <2>1, <2>2, <2>3
<1>7. CASE PauseWorker(c)
  BY <1>7, WorkerCallsLeaveJobs DEF PauseWorker
<1>8. CASE PauseEnd(c)
  BY <1>8 DEF PauseEnd
<1>9. CASE RemoveAcquire(c)
  BY <1>9 DEF RemoveAcquire
<1>10. CASE RemovePriority(c)
  <2>1. push_at' = push_at /\ destroyer' = destroyer /\ mutex_' = mutex_
    BY <1>10 DEF RemovePriority, SetPriorities
  <2>2. at[c] = "remove" /\ (at' = at \/ at' = [at EXCEPT ![c] = "remove stop"])
    BY <1>10 DEF RemovePriority
  <2> QED
    BY <2>1, <2>2, ZenonT(60)
<1>11. CASE RemoveSignals(c)
  BY <1>11, WorkerCallsLeaveJobs DEF RemoveSignals
<1>12. CASE RemoveStopped(c)
  BY <1>12, WorkerCallsLeaveJobs DEF RemoveStopped
<1>13. CASE RemoveEnd(c)
  BY <1>13 DEF RemoveEnd
<1>14. CASE StopClear(c)
  BY <1>14 DEF StopClear, Clear, ClearQueues, Emptied
<1>15. CASE StopWorker(c)
  BY <1>15, WorkerCallsLeaveJobs DEF StopWorker
<1>16. CASE StopFails(c)
  BY <1>16 DEF StopFails, AfterStop
<1>17. CASE StopUnlock(c)
  BY <1>17 DEF StopUnlock, Lock
<1>18. CASE StopEnd(c)
  <2>1. push_at' = push_at /\ destroyer' = destroyer /\ mutex_' = mutex_
    BY <1>18 DEF StopEnd
  <2>2. at[c] = "stopped" /\ at' = [at EXCEPT ![c] = AfterStop(c)]
    BY <1>18 DEF StopEnd
  <2> QED
    BY <2>1, <2>2 DEF AfterStop
<1>19. CASE DestroyStops(c)
  BY <1>19 DEF DestroyStops, Lock
<1>20. CASE DestroyWorker(c)
  BY <1>20, WorkerCallsLeaveJobs DEF DestroyWorker, TPInv, OwnTypes
<1>21. CASE DestroyEnd(c)
  BY <1>21 DEF DestroyEnd, Dispose, Emptied
<1> QED
  BY <1>2, <1>3, <1>4, <1>5, <1>6, <1>7, <1>8, <1>9, <1>10, <1>11, <1>12, <1>13, <1>14, <1>15,
     <1>16, <1>17, <1>18, <1>19, <1>20, <1>21 DEF Continue

LEMMA CallsNext ==
  ASSUME TPInv, CallsInv, [TPNext]_vars
  PROVE  CallsInv'
<1>1. /\ Worker \subseteq Thread /\ Client \subseteq Thread /\ Client \cap Worker = {}
      /\ push_at \in [Thread -> {"idle", "insert", "notify"}]
  BY PoolAssumption, WorkerAssumption DEF TPInv, WInv, JPInv, JPTypeOK
<1>2. ASSUME NEW w \in Worker, Run(w) PROVE CallsInv'
  <2>1. UNCHANGED <<at, mutex_, destroyer>>
    BY <1>2 DEF Run
  <2>2. UNCHANGED push_at
    BY <1>2 DEF Run, RunStep, Begin, AcquireAndCheck, CountAll, CountOne, TakeJob, TakeNull,
                AfterNull, FinishJob, Exit, Pop, PopNull, jobPoolVars
  <2> QED
    BY <2>1, <2>2 DEF CallsInv, OneCallEach, DestroyerIsAlone
<1>3. ASSUME NEW w \in Worker, NEW j \in Job, WorkPushes(w, j), UNCHANGED poolVars PROVE CallsInv'
  <2>1. UNCHANGED <<at, mutex_, destroyer>>
    BY <1>3 DEF poolVars
  <2>2. push_at[w] = "idle" /\ push_at' = [push_at EXCEPT ![w] = "insert"]
    BY <1>3 DEF WorkPushes, PushCheck
  <2> QED
    BY <1>1, <2>1, <2>2 DEF CallsInv, OneCallEach, DestroyerIsAlone
<1>4. ASSUME NEW w \in Worker, SpuriousWake(w), UNCHANGED poolVars PROVE CallsInv'
  BY <1>4 DEF SpuriousWake, jobPoolVars, poolVars, CallsInv, OneCallEach, DestroyerIsAlone
<1>5. UNCHANGED vars => CallsInv'
  BY DEF vars, jobPoolVars, poolVars, CallsInv, OneCallEach, DestroyerIsAlone
<1> QED
  BY <1>2, <1>3, <1>4, <1>5, InvokeKeepsCalls, ContinueKeepsCalls, NotifyKeepsCalls
     DEF TPNext, Gone

-----------------------------------------------------------------------------
(* Walking the vector.                                                     *)

LEMMA CurrentIsOne ==
  ASSUME cursor \in Nat, NEW w \in Worker, NEW v \in Worker, Current(w), Current(v)
  PROVE  w = v
<1>1. w \in Nat /\ v \in Nat
  BY PoolAssumption
<1> QED
  BY <1>1 DEF Current

LEMMA WalkedHasNoCurrent ==
  ASSUME cursor \in Nat, Walked, NEW w \in Worker
  PROVE  ~Current(w)
<1>1. w \in Nat
  BY PoolAssumption
<1> QED
  BY <1>1 DEF Current, Walked

-----------------------------------------------------------------------------
(* Which client a worker's call comes from, and who has a thread.          *)

CalledBy(c, w) ==
  \/ at[c] \in {"start", "remove stop", "stop"} /\ Current(w)
  \/ at[c] = "add" /\ arg[c] = w
  \/ at[c] = "destroy workers"

\* Only a thread is waited for, and by the client that holds the mutex or by
\* the destructor.
CallsHaveCallers ==
  \A w \in Worker : call[w] # "none" => thread_[w] /\ \E c \in Client : CalledBy(c, w)

\* A worker that has a thread is in the vector, and has lost its last priority
\* only while remove_workers() is about to stop it: this is why the worker that
\* remove_workers() takes out of the vector has no thread.
ThreadsAreMembers ==
  /\ \A w \in Worker : thread_[w] => w \in thread_workers_
  /\ \A c \in Client : at[c] = "add" => arg[c] \in thread_workers_
  /\ \A w \in Worker : thread_[w] /\ DOMAIN priorities_[w] = {} =>
       \E c \in Client : at[c] = "remove stop" /\ Current(w)

MembersInv == CallsHaveCallers /\ ThreadsAreMembers

Quiet == \A w \in Worker : call[w] = "none"

EveryThreadServes == \A w \in Worker : thread_[w] => DOMAIN priorities_[w] # {}

\* The owner of the mutex is the caller of every call in progress.
LEMMA OwnerIsCaller ==
  ASSUME CallsInv, MembersInv, NEW c \in Client, at[c] \in Holding,
         NEW w \in Worker, call[w] # "none"
  PROVE  \/ at[c] \in {"start", "remove stop", "stop"} /\ Current(w)
         \/ at[c] = "add" /\ arg[c] = w
<1>1. PICK d \in Client : CalledBy(d, w)
  BY DEF MembersInv, CallsHaveCallers
<1>2. c \in Thread /\ Nobody \notin Thread /\ d \in Thread
  BY PoolAssumption
<1>3. at[d] # "destroy workers"
  BY <1>2 DEF CallsInv, OneCallEach, DestroyerIsAlone, Holding
<1>4. at[d] \in Holding
  BY <1>1, <1>3 DEF CalledBy, Holding
<1>5. c = d
  BY <1>4 DEF CallsInv, OneCallEach
<1> QED
  BY <1>1, <1>3, <1>5 DEF CalledBy

\* While the owner does not wait for a worker, or the mutex is free and nobody
\* is in the destructor, no call is in progress.
LEMMA NobodyCalls ==
  ASSUME CallsInv, MembersInv, NEW c \in Client,
         \/ at[c] \in {"pause", "remove", "clear"}
         \/ at[c] = "destroy"
         \/ mutex_ = Nobody /\ destroyer = Nobody
  PROVE  Quiet
<1> SUFFICES ASSUME NEW w \in Worker, call[w] # "none" PROVE FALSE
  BY DEF Quiet
<1>1. CASE at[c] \in {"pause", "remove", "clear"}
  BY <1>1, OwnerIsCaller DEF Holding
<1>2. PICK d \in Client : CalledBy(d, w)
  BY DEF MembersInv, CallsHaveCallers
<1>3. d \in Thread /\ c \in Thread /\ Nobody \notin Thread
  BY PoolAssumption
<1>4. CASE at[c] = "destroy"
  BY <1>2, <1>3, <1>4 DEF CalledBy, CallsInv, DestroyerIsAlone
<1>5. CASE mutex_ = Nobody /\ destroyer = Nobody
  BY <1>2, <1>3, <1>5 DEF CalledBy, CallsInv, OneCallEach, DestroyerIsAlone, Holding
<1> QED
  BY <1>1, <1>4, <1>5

\* A thread without priorities is seen by its remover only.
LEMMA ThreadsServe ==
  ASSUME CallsInv, MembersInv,
         mutex_ = Nobody \/ \E c \in Client : at[c] \in Holding \ {"remove stop"}
  PROVE  EveryThreadServes
<1> SUFFICES ASSUME NEW w \in Worker, thread_[w], DOMAIN priorities_[w] = {} PROVE FALSE
  BY DEF EveryThreadServes
<1>1. PICK d \in Client : at[d] = "remove stop"
  BY DEF MembersInv, ThreadsAreMembers
<1>2. mutex_ = d /\ d # Nobody
  BY <1>1, PoolAssumption DEF CallsInv, OneCallEach, Holding
<1> QED
  BY <1>1, <1>2 DEF CallsInv, OneCallEach

\* So is it while a push notifies.
LEMMA NotifierMeetsNoCall ==
  ASSUME CallsInv, MembersInv, NEW t \in Thread, mutex_ = t, push_at[t] = "notify"
  PROVE  EveryThreadServes /\ \A c \in Client : at[c] \notin Holding
<1>1. ASSUME NEW c \in Client, at[c] \in Holding PROVE FALSE
  BY <1>1 DEF CallsInv, OneCallEach, Holding
<1>2. EveryThreadServes
  BY <1>1 DEF MembersInv, ThreadsAreMembers, EveryThreadServes, Holding
<1> QED
  BY <1>1, <1>2

\* Steps that leave the workers alone and move no client in or out of a call
\* on a worker.
LEMMA MembersFrame ==
  ASSUME MembersInv, UNCHANGED <<call, thread_, priorities_, thread_workers_>>,
         \A c \in Client : /\ at[c] \in {"start", "remove stop", "stop", "add", "destroy workers"}
                                => at'[c] = at[c]
                           /\ at'[c] = "add" => at[c] = "add" /\ arg'[c] = arg[c],
         cursor' = cursor \/ \A c \in Client : at[c] \notin Holding
  PROVE  MembersInv'
<1>1. ASSUME NEW c \in Client, NEW w \in Worker, CalledBy(c, w) PROVE CalledBy(c, w)'
  BY <1>1 DEF CalledBy, Current, Holding
<1>2. CallsHaveCallers'
  BY <1>1 DEF MembersInv, CallsHaveCallers
<1>3. ASSUME NEW c \in Client, NEW w \in Worker, at[c] = "remove stop" /\ Current(w)
      PROVE  at'[c] = "remove stop" /\ Current(w)'
  BY <1>3 DEF Current, Holding
<1>4. ThreadsAreMembers'
  BY <1>3 DEF MembersInv, ThreadsAreMembers
<1> QED
  BY <1>2, <1>4 DEF MembersInv

\* Steps taken while no call is in progress, which start none.
LEMMA QuietFrame ==
  ASSUME MembersInv, Quiet, EveryThreadServes,
         UNCHANGED <<call, thread_, priorities_, thread_workers_>>,
         \A c \in Client : at'[c] = "add" => at[c] = "add" /\ arg'[c] = arg[c]
  PROVE  MembersInv'
  BY DEF MembersInv, CallsHaveCallers, ThreadsAreMembers, Quiet, EveryThreadServes

\* The owner of the mutex at a worker: no other worker is being called.
LEMMA AtItsWorker ==
  ASSUME CallsInv, MembersInv, cursor \in Nat, NEW c \in Client,
         at[c] \in {"start", "remove stop", "stop"}, NEW w \in Worker, Current(w)
  PROVE  \A v \in Worker \ {w} :
           call[v] = "none" /\ (thread_[v] => DOMAIN priorities_[v] # {})
<1> SUFFICES ASSUME NEW v \in Worker, v # w
             PROVE  call[v] = "none" /\ (thread_[v] => DOMAIN priorities_[v] # {})
  OBVIOUS
<1>1. ~Current(v)
  BY CurrentIsOne
<1>2. call[v] = "none"
  BY <1>1, OwnerIsCaller DEF Holding
<1>3. thread_[v] => DOMAIN priorities_[v] # {}
  BY <1>1 DEF MembersInv, ThreadsAreMembers
<1> QED
  BY <1>2, <1>3

LEMMA CallBegins ==
  ASSUME TPInv, CallsInv, MembersInv, NEW c \in Client, NEW w \in Worker, Current(w),
         \/ at[c] \in {"start", "remove stop", "stop"} /\ SignalStop(w)
         \/ at[c] = "start" /\ StartThread(w),
         UNCHANGED <<at, arg, cursor, thread_workers_>>
  PROVE  MembersInv'
<1>1. cursor \in Nat /\ at[c] \in Holding
      /\ thread_ \in [Worker -> BOOLEAN] /\ call \in [Worker -> {"none", "start", "stop"}]
  BY DEF TPInv, OwnTypes, WInv, WTypeOK, Holding
<1>2. \A v \in Worker \ {w} : call[v] = "none" /\ (thread_[v] => DOMAIN priorities_[v] # {})
  BY <1>1, AtItsWorker
<1>3. /\ UNCHANGED priorities_
      /\ thread_'[w] /\ \A v \in Worker \ {w} : thread_'[v] = thread_[v] /\ call'[v] = call[v]
      /\ \/ thread_[w]
         \/ at[c] = "start" /\ DOMAIN priorities_[w] # {}
  BY <1>1 DEF SignalStop, StartThread, CanStart
<1>4. at'[c] = at[c] /\ Current(w)' /\ w \in thread_workers_'
  BY DEF Current
<1>5. CallsHaveCallers'
  BY <1>1, <1>2, <1>3, <1>4 DEF CallsHaveCallers, CalledBy, SignalStop, StartThread
<1>6. ASSUME NEW v \in Worker, thread_'[v], DOMAIN priorities_'[v] = {}
      PROVE  \E d \in Client : at'[d] = "remove stop" /\ Current(v)'
  <2>1. v = w /\ thread_[w] /\ DOMAIN priorities_[w] = {}
    BY <1>2, <1>3, <1>6
  <2>2. PICK d \in Client : at[d] = "remove stop"
    BY <2>1 DEF MembersInv, ThreadsAreMembers
  <2> QED
    BY <1>4, <2>1, <2>2
<1>7. ThreadsAreMembers'
  BY <1>3, <1>4, <1>6 DEF MembersInv, ThreadsAreMembers
<1> QED
  BY <1>5, <1>7 DEF MembersInv

\* The call is over: the worker has no thread, or has a thread that serves.
LEMMA CallEnds ==
  ASSUME TPInv, CallsInv, MembersInv, NEW c \in Client, NEW w \in Worker, Current(w),
         \/ at[c] \in {"start", "remove stop", "stop"} /\ Join(w)
         \/ at[c] = "start" /\ StartReturn(w)
         \/ at[c] \in {"remove stop", "stop"} /\ ~thread_[w] /\ UNCHANGED allWorkerVars,
         UNCHANGED thread_workers_,
         \A d \in Client : at'[d] = "add" => at[d] = "add" /\ arg'[d] = arg[d]
  PROVE  MembersInv'
<1>1. cursor \in Nat
      /\ thread_ \in [Worker -> BOOLEAN] /\ call \in [Worker -> {"none", "start", "stop"}]
  BY DEF TPInv, OwnTypes, WInv, WTypeOK
<1>2. \A v \in Worker \ {w} : call[v] = "none" /\ (thread_[v] => DOMAIN priorities_[v] # {})
  BY <1>1, AtItsWorker
<1>3. thread_[w] /\ at[c] = "start" => DOMAIN priorities_[w] # {}
  <2> SUFFICES ASSUME thread_[w], at[c] = "start" PROVE DOMAIN priorities_[w] # {}
    OBVIOUS
  <2>1. EveryThreadServes
    BY ThreadsServe DEF Holding
  <2> QED
    BY <2>1 DEF EveryThreadServes
<1>4. /\ UNCHANGED priorities_
      /\ \A v \in Worker \ {w} : thread_'[v] = thread_[v] /\ call'[v] = call[v]
  BY <1>1 DEF Join, StartReturn, allWorkerVars, workerVars
<1>5. call'[w] = "none" /\ (thread_'[w] => thread_[w] /\ at[c] = "start")
  BY <1>1 DEF Join, StartReturn, allWorkerVars, workerVars, MembersInv, CallsHaveCallers
<1>6. CallsHaveCallers'
  BY <1>2, <1>4, <1>5 DEF CallsHaveCallers
<1>7. ThreadsAreMembers'
  BY <1>2, <1>3, <1>4, <1>5 DEF MembersInv, ThreadsAreMembers
<1> QED
  BY <1>6, <1>7 DEF MembersInv

LEMMA InvokeKeepsMembers ==
  ASSUME TPInv, CallsInv, MembersInv, NEW c \in Client, Invoke(c)
  PROVE  MembersInv'
<1> USE DEF MayCall, Moves, Acquire, UnchangedMembers, UnchangedHistory, workerVars, poolVars
<1>1. /\ at \in [Client -> Places] /\ arg \in [Client -> Worker \cup Priority \cup {Nobody}]
      /\ thread_ \in [Worker -> BOOLEAN] /\ pause_ \in [Worker -> BOOLEAN]
  BY DEF TPInv, OwnTypes, WInv, WTypeOK
<1>2. mutex_ = Nobody => \A d \in Client : at[d] \notin Holding
  BY PoolAssumption DEF CallsInv, OneCallEach
<1> USE <1>1, <1>2
<1>3. ASSUME NEW j \in Job, Push(c, j) PROVE MembersInv'
  BY <1>3, MembersFrame DEF Push
<1>4. CASE StartBegin(c)
  BY <1>4, MembersFrame DEF StartBegin
<1>5. ASSUME NEW w \in Worker, Add(c, w) PROVE MembersInv'
  <2>1. Quiet /\ EveryThreadServes
    BY <1>5, NobodyCalls, ThreadsServe DEF Add
  <2>2. UNCHANGED <<call, thread_, priorities_>> /\ thread_workers_' = thread_workers_ \cup {w}
    BY <1>5 DEF Add, Pause
  <2>3. \A d \in Client : at'[d] = "add" => arg'[d] \in thread_workers_'
    <3>1. \/ at' = at /\ arg' = arg
          \/ at' = [at EXCEPT ![c] = "add"] /\ arg' = [arg EXCEPT ![c] = w]
      BY <1>5 DEF Add
    <3>2. \A d \in Client : at[d] = "add" => arg[d] \in thread_workers_
      BY DEF MembersInv, ThreadsAreMembers
    <3>3. CASE at' = at /\ arg' = arg
      BY <2>2, <3>2, <3>3
    <3>4. CASE at' = [at EXCEPT ![c] = "add"] /\ arg' = [arg EXCEPT ![c] = w]
      BY <2>2, <3>2, <3>4
    <3> QED
      BY <3>1, <3>3, <3>4
  <2> QED
    BY <2>1, <2>2, <2>3
       DEF MembersInv, CallsHaveCallers, ThreadsAreMembers, Quiet, EveryThreadServes
<1>6. ASSUME NEW pause \in BOOLEAN, PauseBegin(c, pause) PROVE MembersInv'
  BY <1>6, MembersFrame DEF PauseBegin
<1>7. ASSUME NEW p \in Priority, RemoveBegin(c, p) PROVE MembersInv'
  BY <1>7, MembersFrame DEF RemoveBegin
<1>8. ASSUME NEW immediately \in BOOLEAN, StopBegin(c, immediately) PROVE MembersInv'
  <2>1. at[c] = "idle" /\ (at' = [at EXCEPT ![c] = "clear"] \/ at' = [at EXCEPT ![c] = "stop"])
    BY <1>8 DEF StopBegin
  <2>2. mutex_ = Nobody /\ UNCHANGED <<call, thread_, priorities_, thread_workers_, arg>>
    BY <1>8 DEF StopBegin
  <2> QED
    BY <2>1, <2>2, MembersFrame
<1>9. ASSUME NEW condition \in BOOLEAN, SetLock(c, condition) PROVE MembersInv'
  BY <1>9, MembersFrame DEF SetLock
<1>10. CASE DestroyBegin(c)
  <2>1. at[c] = "idle"
        /\ (at' = [at EXCEPT ![c] = "destroy"] \/ at' = [at EXCEPT ![c] = "destroy workers"])
    BY <1>10 DEF DestroyBegin
  <2>2. UNCHANGED <<call, thread_, priorities_, thread_workers_, arg, cursor>>
    BY <1>10 DEF DestroyBegin
  <2> QED
    BY <2>1, <2>2, MembersFrame
<1> QED
  BY <1>3, <1>4, <1>5, <1>6, <1>7, <1>8, <1>9, <1>10 DEF Invoke

LEMMA ContinueKeepsMembers ==
  ASSUME TPInv, CallsInv, MembersInv, NEW c \in Client, Continue(c)
  PROVE  MembersInv'
<1> USE DEF Moves, Acquire, Release, UnchangedMembers, UnchangedHistory, workerVars, poolVars,
            allWorkerVars
<1>1. /\ at \in [Client -> Places] /\ arg \in [Client -> Worker \cup Priority \cup {Nobody}]
      /\ thread_ \in [Worker -> BOOLEAN] /\ call \in [Worker -> {"none", "start", "stop"}]
      /\ priorities_ \in [Worker -> PriorityList]
      /\ cursor \in Nat /\ thread_workers_ \subseteq Worker
  BY DEF TPInv, OwnTypes, WInv, WTypeOK
<1>2. mutex_ = Nobody => \A d \in Client : at[d] \notin Holding
  BY PoolAssumption DEF CallsInv, OneCallEach
<1>3. at[c] \in Holding \ {"remove stop"} => EveryThreadServes
  BY ThreadsServe
<1>4. Walked /\ at[c] \in {"start", "stop"} => Quiet
  BY <1>1, WalkedHasNoCurrent, OwnerIsCaller DEF Quiet, Holding
<1>5. at[c] \in {"pause", "remove", "clear", "destroy"} => Quiet
  BY NobodyCalls
<1>6. ASSUME NEW w \in Worker, Current(w), at[c] \in {"start", "stop"}, call[w] = "none"
      PROVE  Quiet
  BY <1>1, <1>6, AtItsWorker DEF Quiet
<1> USE <1>1
<1>7. CASE StartWorker(c)
  BY <1>7, CallBegins, CallEnds DEF StartWorker, Stay, Advance
<1>8. CASE StartFails(c)
  <2>1. PICK w \in Worker : /\ Current(w)
                            /\ \/ StartGivesUp(w)
                               \/ CannotStart(w) /\ UNCHANGED allWorkerVars
    BY <1>8 DEF StartFails
  <2>2. call[w] = "none" /\ UNCHANGED <<call, thread_, priorities_>>
    BY <2>1 DEF StartGivesUp, CanStart, CannotStart
  <2>3. at[c] = "start" /\ at' = [at EXCEPT ![c] = "idle"] /\ UNCHANGED <<thread_workers_, arg>>
    BY <1>8 DEF StartFails
  <2>4. Quiet
    BY <1>6, <2>1, <2>2, <2>3
  <2> QED
    BY <1>3, <2>2, <2>3, <2>4, QuietFrame DEF Holding
<1>9. CASE StartEnd(c)
  BY <1>3, <1>4, <1>9, QuietFrame DEF StartEnd, Holding
<1>10. CASE AddStarts(c)
  <2> DEFINE w == arg[c]
  <2>1. at[c] = "add" /\ w \in Worker /\ w \in thread_workers_
    BY <1>10 DEF AddStarts, TPInv, ArgumentsOK, MembersInv, ThreadsAreMembers
  <2>2. EveryThreadServes
    BY <1>3, <2>1 DEF Holding
  <2>3. \A v \in Worker \ {w} : call[v] = "none"
    BY <2>1, OwnerIsCaller DEF Holding
  <2>4. /\ DOMAIN priorities_[w] # {} /\ UNCHANGED <<priorities_, thread_workers_, at, arg>>
        /\ thread_' = [thread_ EXCEPT ![w] = TRUE] /\ call' = [call EXCEPT ![w] = "start"]
    BY <1>10 DEF AddStarts, StartThread, CanStart
  <2>5. CallsHaveCallers'
    BY <2>1, <2>3, <2>4 DEF CallsHaveCallers, CalledBy
  <2>6. ThreadsAreMembers'
    BY <2>1, <2>2, <2>4 DEF MembersInv, ThreadsAreMembers, EveryThreadServes
  <2> QED
    BY <2>5, <2>6 DEF MembersInv
<1>11. CASE AddEnd(c)
  <2> DEFINE w == arg[c]
  <2>1. at[c] = "add" /\ w \in Worker
    BY <1>11 DEF AddEnd, TPInv, ArgumentsOK
  <2>2. EveryThreadServes
    BY <1>3, <2>1 DEF Holding
  <2>3. \A v \in Worker \ {w} : call[v] = "none"
    BY <2>1, OwnerIsCaller DEF Holding
  <2>4. UNCHANGED <<thread_, priorities_, thread_workers_>>
    BY <1>11 DEF AddEnd, StartReturn, StartGivesUp
  <2>5. \A v \in Worker : call'[v] = "none"
    <3>1. CASE StartReturn(w)
      BY <2>1, <2>3, <3>1 DEF StartReturn
    <3>2. CASE CannotStart(w) /\ UNCHANGED allWorkerVars
      BY <2>1, <2>3, <3>2 DEF CannotStart
    <3>3. CASE StartGivesUp(w)
      BY <2>1, <2>3, <3>3 DEF StartGivesUp, CanStart
    <3> QED
      BY <1>11, <3>1, <3>2, <3>3 DEF AddEnd
  <2>6. \A d \in Client : at'[d] = "add" => at[d] = "add" /\ arg'[d] = arg[d]
    BY <1>11 DEF AddEnd
  <2> QED
    BY <2>2, <2>4, <2>5, <2>6
       DEF MembersInv, CallsHaveCallers, ThreadsAreMembers, EveryThreadServes
<1>12. CASE PauseWorker(c)
  BY <1>3, <1>5, <1>12, QuietFrame DEF PauseWorker, Pause, Holding
<1>13. CASE PauseEnd(c)
  BY <1>3, <1>5, <1>13, QuietFrame DEF PauseEnd, Holding
<1>14. CASE RemoveAcquire(c)
  BY <1>2, <1>14, MembersFrame DEF RemoveAcquire
<1>15. CASE RemovePriority(c)
  <2>1. PICK w \in Worker :
          /\ Current(w) /\ SetPriorities(w, Without(priorities_[w], arg[c]))
          /\ IF DOMAIN Without(priorities_[w], arg[c]) = {}
             THEN Stay /\ Moves(c, "remove", "remove stop")
             ELSE Advance(w) /\ UNCHANGED at
    BY <1>15 DEF RemovePriority
  <2>2. at[c] = "remove" /\ UNCHANGED <<call, thread_, thread_workers_, arg>>
    BY <1>15, <2>1 DEF RemovePriority, SetPriorities
  <2>3. Quiet /\ EveryThreadServes
    BY <1>3, <1>5, <2>2 DEF Holding
  <2>4. \A d \in Client : at'[d] = "add" => at[d] = "add"
    BY <2>1
  <2>5. \A v \in Worker \ {w} : priorities_'[v] = priorities_[v]
    BY <2>1 DEF SetPriorities
  <2>6. DOMAIN priorities_'[w] = {} => at'[c] = "remove stop" /\ Current(w)'
    BY <2>1, <2>2 DEF SetPriorities, Stay, Current
  <2>7. CallsHaveCallers'
    BY <2>2, <2>3 DEF CallsHaveCallers, Quiet
  <2>8. ThreadsAreMembers'
    BY <2>2, <2>3, <2>4, <2>5, <2>6 DEF MembersInv, ThreadsAreMembers, EveryThreadServes
  <2> QED
    BY <2>7, <2>8 DEF MembersInv
<1>16. CASE RemoveSignals(c)
  BY <1>16, CallBegins DEF RemoveSignals
<1>17. CASE RemoveStopped(c)
  <2>1. /\ at[c] = "remove stop" /\ at' = [at EXCEPT ![c] = "remove"]
        /\ UNCHANGED <<thread_workers_, arg>>
    BY <1>17 DEF RemoveStopped
  <2> QED
    BY <1>17, <2>1, CallEnds DEF RemoveStopped
<1>18. CASE RemoveEnd(c)
  <2>1. at[c] = "remove" /\ mutex_ = c
    BY <1>18 DEF RemoveEnd
  <2>2. Quiet /\ EveryThreadServes
    BY <1>3, <1>5, <2>1 DEF Holding
  <2>3. /\ thread_workers_' = {w \in thread_workers_ : DOMAIN priorities_[w] # {}}
        /\ UNCHANGED <<call, thread_, priorities_>>
        /\ at' = [at EXCEPT ![c] = "idle"]
    BY <1>18 DEF RemoveEnd
  <2>4. \A d \in Client : at'[d] # "add"
    BY <2>1, <2>3 DEF CallsInv, OneCallEach, Holding
  <2> QED
    BY <2>2, <2>3, <2>4
       DEF MembersInv, CallsHaveCallers, ThreadsAreMembers, Quiet, EveryThreadServes
<1>19. CASE StopClear(c)
  BY <1>19, MembersFrame DEF StopClear
<1>20. CASE StopWorker(c)
  BY <1>20, CallBegins, CallEnds DEF StopWorker, Stay, Advance
<1>21. CASE StopFails(c)
  <2>1. /\ at[c] = "stop" /\ at' = [at EXCEPT ![c] = AfterStop(c)]
        /\ UNCHANGED <<call, thread_, priorities_, thread_workers_, arg>>
    BY <1>21 DEF StopFails
  <2>2. PICK w \in Worker : Current(w) /\ ~thread_[w]
    BY <1>21 DEF StopFails
  <2>3. Quiet
    BY <1>6, <2>1, <2>2 DEF MembersInv, CallsHaveCallers
  <2> QED
    BY <1>3, <2>1, <2>3, QuietFrame DEF AfterStop, Holding
<1>22. CASE StopUnlock(c)
  BY <1>3, <1>4, <1>22, QuietFrame DEF StopUnlock, Holding
<1>23. CASE StopEnd(c)
  <2>1. /\ at[c] = "stopped" /\ at' = [at EXCEPT ![c] = AfterStop(c)]
        /\ UNCHANGED <<call, thread_, priorities_, thread_workers_, arg, cursor>>
    BY <1>23 DEF StopEnd
  <2> QED
    BY <2>1, MembersFrame DEF AfterStop
<1>24. CASE DestroyStops(c)
  BY <1>2, <1>24, MembersFrame DEF DestroyStops
<1>25. CASE DestroyWorker(c)
  <2>1. PICK w \in Worker : SignalStop(w) \/ Join(w)
    BY <1>25 DEF DestroyWorker
  <2>2. at[c] = "destroy workers" /\ UNCHANGED <<thread_workers_, at, arg>>
    BY <1>25 DEF DestroyWorker
  <2>3. EveryThreadServes
    <3>1. \A d \in Client : at[d] # "remove stop"
      BY <2>2, PoolAssumption DEF CallsInv, DestroyerIsAlone, Destroying
    <3> QED
      BY <3>1 DEF MembersInv, ThreadsAreMembers, EveryThreadServes
  <2>4. /\ UNCHANGED priorities_
        /\ \A v \in Worker : thread_'[v] => thread_[v]
        /\ \A v \in Worker : call'[v] # "none" => thread_'[v]
    BY <2>1 DEF SignalStop, Join, MembersInv, CallsHaveCallers
  <2>5. CallsHaveCallers'
    BY <2>2, <2>4 DEF CallsHaveCallers, CalledBy
  <2>6. ThreadsAreMembers'
    BY <2>2, <2>3, <2>4 DEF MembersInv, ThreadsAreMembers, EveryThreadServes
  <2> QED
    BY <2>5, <2>6 DEF MembersInv
<1>26. CASE DestroyEnd(c)
  <2>1. \A w \in Worker : ~thread_[w] /\ call[w] = "none"
    BY <1>26 DEF DestroyEnd, MembersInv, CallsHaveCallers, ThreadsAreMembers
  <2>2. UNCHANGED <<thread_, call>>
    BY <1>26 DEF DestroyEnd
  <2>3. \A d \in Client : at'[d] # "add"
    <3>1. at[c] = "destroy workers" /\ at' = [at EXCEPT ![c] = "destroyed"]
      BY <1>26 DEF DestroyEnd
    <3> QED
      BY <3>1, PoolAssumption DEF CallsInv, DestroyerIsAlone
  <2> QED
    BY <2>1, <2>2, <2>3 DEF MembersInv, CallsHaveCallers, ThreadsAreMembers
<1> QED
  BY <1>7, <1>8, <1>9, <1>10, <1>11, <1>12, <1>13, <1>14, <1>15, <1>16, <1>17, <1>18, <1>19,
     <1>20, <1>21, <1>22, <1>23, <1>24, <1>25, <1>26 DEF Continue

LEMMA NotifyKeepsMembers ==
  ASSUME TPInv, CallsInv, MembersInv, NEW t \in Thread, Notify(t)
  PROVE  MembersInv'
<1> USE DEF Acquire, Release, UnchangedMembers, UnchangedHistory, workerVars, allWorkerVars
<1>1. CASE Insert(t)
  BY <1>1, MembersFrame DEF Insert
<1>2. CASE NotifyBegin(t)
  BY <1>2, MembersFrame, PoolAssumption DEF NotifyBegin, CallsInv, OneCallEach
<1>3. CASE NotifyWorker(t)
  <2>1. UNCHANGED <<call, thread_, priorities_, thread_workers_, at, arg>>
    BY <1>3 DEF NotifyWorker, NotifyOne
  <2>2. \A c \in Client : at[c] \notin Holding
    BY <1>3, NotifierMeetsNoCall DEF NotifyWorker
  <2> QED
    BY <2>1, <2>2, MembersFrame
<1>4. CASE NotifyEnd(t)
  <2>1. UNCHANGED <<call, thread_, priorities_, thread_workers_, at, arg>>
    BY <1>4 DEF NotifyEnd
  <2>2. \A c \in Client : at[c] \notin Holding
    BY <1>4, NotifierMeetsNoCall DEF NotifyEnd, PushReturn
  <2> QED
    BY <2>1, <2>2, MembersFrame
<1> QED
  BY <1>1, <1>2, <1>3, <1>4 DEF Notify

LEMMA MembersInit == TPInit => MembersInv
<1> SUFFICES ASSUME TPInit PROVE MembersInv
  OBVIOUS
<1>1. /\ thread_ = [w \in Worker |-> FALSE] /\ call = [w \in Worker |-> "none"]
      /\ at = [c \in Client |-> "idle"]
  BY DEF TPInit, WInit
<1> QED
  BY <1>1 DEF MembersInv, CallsHaveCallers, ThreadsAreMembers

LEMMA MembersNext ==
  ASSUME TPInv, CallsInv, MembersInv, [TPNext]_vars
  PROVE  MembersInv'
<1>1. ASSUME NEW w \in Worker, Run(w) PROVE MembersInv'
  <2>1. UNCHANGED <<at, arg, cursor, thread_workers_>>
    BY <1>1 DEF Run
  <2>2. UNCHANGED <<thread_, call, priorities_>>
    BY <1>1 DEF Run, RunStep, Begin, AcquireAndCheck, CountAll, CountOne, TakeJob, TakeNull,
                AfterNull, FinishJob, Exit
  <2> QED
    BY <2>1, <2>2, MembersFrame
<1>2. ASSUME NEW w \in Worker, NEW j \in Job, WorkPushes(w, j), UNCHANGED poolVars PROVE MembersInv'
  BY <1>2, MembersFrame DEF WorkPushes, poolVars, workerVars
<1>3. ASSUME NEW w \in Worker, SpuriousWake(w), UNCHANGED poolVars PROVE MembersInv'
  BY <1>3, MembersFrame DEF SpuriousWake, poolVars
<1>4. UNCHANGED vars => MembersInv'
  BY MembersFrame DEF vars, poolVars, workerVars
<1> QED
  BY <1>1, <1>2, <1>3, <1>4, InvokeKeepsMembers, ContinueKeepsMembers, NotifyKeepsMembers
     DEF TPNext, Gone

-----------------------------------------------------------------------------
(* While a client walks the vector nobody else disturbs it.                *)

LEMMA OnlyOwnMoves ==
  ASSUME TPInv, [TPNext]_vars, NEW c \in Client, at'[c] # at[c]
  PROVE  Invoke(c) \/ Continue(c)
<1>1. at \in [Client -> Places]
  BY DEF TPInv, OwnTypes
<1>2. ASSUME NEW d \in Client, d # c, Invoke(d) PROVE FALSE
  BY <1>1, <1>2 DEF Invoke, Push, StartBegin, Add, PauseBegin, RemoveBegin, StopBegin, SetLock,
                    DestroyBegin, Moves, poolVars
<1>3. ASSUME NEW d \in Client, d # c, Continue(d) PROVE FALSE
  BY <1>1, <1>3 DEF Continue, StartWorker, StartFails, StartEnd, AddStarts, AddEnd, PauseWorker,
       PauseEnd, RemoveAcquire, RemovePriority, RemoveSignals, RemoveStopped, RemoveEnd, StopClear,
       StopWorker, StopFails, StopUnlock, StopEnd, DestroyStops, DestroyWorker, DestroyEnd, Moves,
       poolVars
<1>4. ASSUME NEW t \in Thread, Notify(t) PROVE FALSE
  BY <1>4 DEF Notify, Insert, NotifyBegin, NotifyWorker, NotifyEnd
<1>5. ASSUME NEW w \in Worker, Run(w) PROVE FALSE
  BY <1>5 DEF Run
<1>6. UNCHANGED poolVars => FALSE
  BY DEF poolVars
<1>7. UNCHANGED vars => FALSE
  BY DEF vars, poolVars
<1> QED
  BY <1>2, <1>3, <1>4, <1>5, <1>6, <1>7 DEF TPNext, Gone

Undisturbed(c) ==
  /\ UNCHANGED <<mutex_, cursor, thread_workers_, pool_pause_, thread_, call, pause_, priorities_>>
  /\ at'[c] = at[c] /\ arg'[c] = arg[c]

LEMMA OwnerIsUndisturbed ==
  ASSUME TPInv, CallsInv, [TPNext]_vars, NEW c \in Client, at[c] \in Holding, ~Continue(c)
  PROVE  Undisturbed(c)
<1> USE DEF Undisturbed
<1>1. /\ at \in [Client -> Places] /\ arg \in [Client -> Worker \cup Priority \cup {Nobody}]
      /\ at[c] # "idle" /\ push_at[c] = "idle" /\ mutex_ = c
      /\ \A d \in Client \ {c} : at[d] \notin Holding /\ d # mutex_
      /\ mutex_ # Nobody
      /\ c \in Thread
  BY PoolAssumption DEF TPInv, OwnTypes, CallsInv, OneCallEach, Holding
<1>2. ASSUME NEW d \in Client, Invoke(d) PROVE Undisturbed(c)
  <2>1. ASSUME NEW j \in Job, Push(d, j) PROVE Undisturbed(c)
    BY <2>1 DEF Push, workerVars, poolVars
  <2>2. ASSUME NEW p \in Priority, RemoveBegin(d, p) PROVE Undisturbed(c)
    BY <1>1, <2>2 DEF RemoveBegin, MayCall, Moves, workerVars
  <2>3. ASSUME NEW condition \in BOOLEAN, SetLock(d, condition) PROVE Undisturbed(c)
    BY <2>3 DEF SetLock, workerVars, poolVars
  <2>4. ~StartBegin(d) /\ ~DestroyBegin(d)
    BY <1>1 DEF StartBegin, Acquire, DestroyBegin
  <2>5. \A w \in Worker : ~Add(d, w)
    BY <1>1 DEF Add
  <2>6. \A b \in BOOLEAN : ~PauseBegin(d, b) /\ ~StopBegin(d, b)
    BY <1>1 DEF PauseBegin, StopBegin, Acquire
  <2> QED
    BY <1>2, <2>1, <2>2, <2>3, <2>4, <2>5, <2>6 DEF Invoke
<1>3. ASSUME NEW d \in Client, Continue(d) PROVE Undisturbed(c)
  <2>1. d # c /\ at[d] \notin Holding /\ mutex_ # d
    BY <1>1, <1>3
  <2>2. at[d] \notin {"destroy", "destroy workers"}
    BY <1>1, <2>1, PoolAssumption DEF CallsInv, DestroyerIsAlone
  <2>3. CASE StopEnd(d)
    BY <1>1, <2>1, <2>3 DEF StopEnd, Moves, workerVars
  <2>4. ~StopEnd(d) => FALSE
    BY <1>1, <1>3, <2>1, <2>2
       DEF Continue, StartWorker, StartFails, StartEnd, AddStarts, AddEnd, PauseWorker, PauseEnd,
           RemoveAcquire, RemovePriority, RemoveSignals, RemoveStopped, RemoveEnd, StopClear,
           StopWorker, StopFails, StopUnlock, DestroyStops, DestroyWorker, DestroyEnd, Moves,
           Acquire, Holding
  <2> QED
    BY <2>3, <2>4
<1>4. ASSUME NEW t \in Thread, Notify(t) PROVE Undisturbed(c)
  <2>1. CASE Insert(t)
    BY <2>1 DEF Insert, workerVars
  <2>2. ~NotifyBegin(t) /\ ~NotifyWorker(t) /\ ~NotifyEnd(t)
    BY <1>1 DEF NotifyBegin, NotifyWorker, NotifyEnd, Acquire, Release, PushReturn
  <2> QED
    BY <1>4, <2>1, <2>2 DEF Notify
<1>5. ASSUME NEW w \in Worker, Run(w) PROVE Undisturbed(c)
  <2>1. UNCHANGED <<thread_, call, pause_, priorities_>>
    BY <1>5 DEF Run, RunStep, Begin, AcquireAndCheck, CountAll, CountOne, TakeJob, TakeNull,
                AfterNull, FinishJob, Exit
  <2> QED
    BY <1>5, <2>1 DEF Run
<1>6. ASSUME NEW w \in Worker, SpuriousWake(w), UNCHANGED poolVars PROVE Undisturbed(c)
  BY <1>6 DEF SpuriousWake, poolVars
<1>7. ASSUME NEW w \in Worker, NEW j \in Job, WorkPushes(w, j), UNCHANGED poolVars
      PROVE  Undisturbed(c)
  BY <1>7 DEF WorkPushes, workerVars, poolVars
<1>8. UNCHANGED vars => Undisturbed(c)
  BY DEF vars, workerVars, poolVars
<1> QED
  BY <1>2, <1>3, <1>4, <1>5, <1>6, <1>7, <1>8 DEF TPNext, Gone

-----------------------------------------------------------------------------
(* stop(): the part of the vector that it has walked has no thread.        *)

StopWalk ==
  /\ \A c \in Client : at[c] = "clear" => cursor = 0
  /\ \A c \in Client : at[c] = "stop" => \A w \in thread_workers_ : w < cursor => ~thread_[w]

LEMMA StopWalkNext ==
  ASSUME TPInv, CallsInv, MembersInv, StopWalk, [TPNext]_vars
  PROVE  StopWalk'
<1>1. /\ at \in [Client -> Places] /\ cursor \in Nat /\ Worker \subseteq Nat
      /\ thread_workers_ \subseteq Worker /\ thread_ \in [Worker -> BOOLEAN]
  BY PoolAssumption DEF TPInv, OwnTypes, WInv, WTypeOK
<1>2. ASSUME NEW c \in Client, at[c] \in {"clear", "stop"}, ~Continue(c)
      PROVE  /\ at'[c] = "clear" => cursor' = 0
             /\ at'[c] = "stop" => \A w \in thread_workers_' : w < cursor' => ~thread_'[w]
  BY <1>2, OwnerIsUndisturbed DEF Undisturbed, StopWalk, Holding
<1>3. ASSUME NEW c \in Client, at[c] \notin {"clear", "stop"}, at'[c] \in {"clear", "stop"}
      PROVE  cursor' = 0
  <2>1. CASE Invoke(c)
    BY <1>1, <1>3, <2>1 DEF Invoke, Push, StartBegin, Add, PauseBegin, RemoveBegin, StopBegin,
                            SetLock, DestroyBegin, Moves, Acquire, poolVars
  <2>2. CASE Continue(c)
    BY <1>1, <1>3, <2>2 DEF Continue, StartWorker, StartFails, StartEnd, AddStarts, AddEnd,
         PauseWorker, PauseEnd, RemoveAcquire, RemovePriority, RemoveSignals, RemoveStopped,
         RemoveEnd, StopClear, StopWorker, StopFails, StopUnlock, StopEnd, DestroyStops,
         DestroyWorker, DestroyEnd, Moves, Acquire, AfterStop, poolVars
  <2> QED
    BY <1>3, <2>1, <2>2, OnlyOwnMoves
<1>4. ASSUME NEW c \in Client, at[c] \in {"clear", "stop"}, Continue(c)
      PROVE  /\ at'[c] # "clear"
             /\ at'[c] = "stop" => \A w \in thread_workers_' : w < cursor' => ~thread_'[w]
  <2>1. StopClear(c) \/ StopWorker(c) \/ StopFails(c) \/ StopUnlock(c)
    BY <1>4 DEF Continue, StartWorker, StartFails, StartEnd, AddStarts, AddEnd, PauseWorker,
         PauseEnd, RemoveAcquire, RemovePriority, RemoveSignals, RemoveStopped, RemoveEnd, StopEnd,
         DestroyStops, DestroyWorker, DestroyEnd, Moves
  <2>2. CASE StopClear(c)
    BY <1>1, <2>2 DEF StopClear, Moves, UnchangedMembers, workerVars, StopWalk
  <2>3. CASE StopFails(c) \/ StopUnlock(c)
    BY <1>1, <2>3 DEF StopFails, StopUnlock, Moves, AfterStop
  <2>4. CASE StopWorker(c)
    <3>1. at[c] = "stop" /\ UNCHANGED <<at, thread_workers_>>
      BY <2>4 DEF StopWorker, UnchangedMembers
    <3>2. PICK w \in Worker : /\ Current(w)
                              /\ \/ SignalStop(w) /\ Stay
                                 \/ Join(w) /\ Advance(w)
      BY <2>4 DEF StopWorker
    <3>3. CASE SignalStop(w) /\ Stay
      BY <3>1, <3>3 DEF SignalStop, Stay, StopWalk
    <3>4. CASE Join(w) /\ Advance(w)
      <4>1. thread_' = [thread_ EXCEPT ![w] = FALSE] /\ cursor' = w + 1
        BY <3>4 DEF Join, Advance
      <4>2. \A v \in thread_workers_ : v < w + 1 => v = w \/ v < cursor
        BY <1>1, <3>2 DEF Current
      <4> QED
        BY <1>1, <3>1, <4>1, <4>2 DEF StopWalk
    <3> QED
      BY <3>2, <3>3, <3>4
  <2> QED
    BY <2>1, <2>2, <2>3, <2>4
<1>5. ASSUME cursor' = 0, NEW w \in Worker PROVE ~(w < cursor')
  BY <1>1, <1>5
<1>6. thread_workers_' \subseteq Worker
  BY OwnTypesKept DEF OwnTypes
<1> QED
  BY <1>2, <1>3, <1>4, <1>5, <1>6 DEF StopWalk

-----------------------------------------------------------------------------
(* A worker pushes from its job only.                                      *)

PushersWork == \A w \in Worker : push_at[w] # "idle" => pc[w] = "work"

LEMMA PushersWorkNext ==
  ASSUME TPInv, PushersWork, [TPNext]_vars
  PROVE  PushersWork'
<1>1. /\ push_at \in [Thread -> {"idle", "insert", "notify"}] /\ pc \in [Worker -> Steps]
      /\ Worker \subseteq Thread /\ Client \cap Worker = {}
  BY PoolAssumption, WorkerAssumption DEF TPInv, WInv, WTypeOK, JPInv, JPTypeOK
<1>2. ASSUME PushersWork, UNCHANGED push_at,
             \A w \in Worker : pc[w] = "work" => pc'[w] = "work"
      PROVE  PushersWork'
  BY <1>2 DEF PushersWork
<1>3. ASSUME NEW w \in Worker, WorkerCall(w) PROVE PushersWork'
  <2>1. UNCHANGED push_at
    BY <1>3 DEF WorkerCall, SignalStop, Join, StartGivesUp, StartThread, StartReturn, Pause,
                NotifyOne, SetPriorities, jobPoolVars
  <2>2. StartThread(w) => pc[w] # "work"
    BY DEF StartThread, CanStart, TPInv, WInv, ThreadLifecycle
  <2>3. \A v \in Worker : pc[v] = "work" => pc'[v] = "work"
    BY <1>1, <1>3, <2>2 DEF WorkerCall, SignalStop, Join, StartGivesUp, StartThread, StartReturn,
                            Pause, NotifyOne, SetPriorities, Wake, Goto
  <2> QED
    BY <1>2, <2>1, <2>3
<1>4. ASSUME NEW w \in Worker, RunStep(w) \/ SpuriousWake(w) PROVE PushersWork'
  <2>1. CASE FinishJob(w)
    BY <1>1, <2>1 DEF FinishJob, Goto, PushersWork, jobPoolVars
  <2>2. CASE Begin(w) \/ AcquireAndCheck(w) \/ CountAll(w) \/ CountOne(w) \/ TakeNull(w)
             \/ AfterNull(w) \/ Exit(w) \/ SpuriousWake(w) \/ \E j \in Job : TakeJob(w, j)
    <3>1. UNCHANGED push_at
      BY <2>2 DEF Begin, AcquireAndCheck, CountAll, CountOne, TakeJob, TakeNull, AfterNull,
                  Exit, SpuriousWake, Pop, PopNull, jobPoolVars
    <3>2. \A v \in Worker : pc[v] = "work" => pc'[v] = "work"
      BY <1>1, <2>2 DEF Begin, AcquireAndCheck, CountAll, CountOne, TakeJob, TakeNull, AfterNull,
                        Exit, SpuriousWake, Goto
    <3> QED
      BY <1>2, <3>1, <3>2
  <2> QED
    BY <1>4, <2>1, <2>2 DEF RunStep
<1>5. ASSUME NEW w \in Worker, NEW j \in Job, WorkPushes(w, j) PROVE PushersWork'
  BY <1>1, <1>5 DEF WorkPushes, PushCheck, PushersWork, workerVars
<1>6. ASSUME PoolCall PROVE PushersWork'
  <2>1. UNCHANGED pc
    BY <1>6 DEF PoolCall, workerVars
  <2>2. \A w \in Worker : push_at'[w] # "idle" => push_at[w] # "idle"
    BY <1>1, <1>6 DEF PoolCall, PushCheck, PushInsert, PushReturn, Clear, ClearPriority,
                      ClearQueues, Emptied, Lock, Dispose
  <2> QED
    BY <2>1, <2>2 DEF PushersWork
<1>7. UNCHANGED allWorkerVars => PushersWork'
  BY DEF allWorkerVars, jobPoolVars, workerVars, PushersWork
<1>8. [WNext]_allWorkerVars
  BY PoolRefinesWorkers
<1> QED
  BY <1>3, <1>4, <1>5, <1>6, <1>7, <1>8 DEF WNext

-----------------------------------------------------------------------------
(* ~ThreadPool(): the end.                                                 *)

\* A pool that is gone does not change any more.
LEMMA DestroyedIsTheEnd ==
  ASSUME TPInv, CallsInv, DestroyedLeavesNothing, [TPNext]_vars,
         NEW c \in Client, at[c] = "destroyed"
  PROVE  UNCHANGED vars
<1>1. /\ destroyer = c /\ c # Nobody
      /\ \A d \in Client \ {c} : at[d] = "idle"
      /\ \A t \in Thread : push_at[t] = "idle"
      /\ \A w \in Worker : pc[w] = "none"
  BY PoolAssumption DEF CallsInv, DestroyerIsAlone, DestroyedLeavesNothing
<1>2. ASSUME NEW d \in Client, Invoke(d) PROVE FALSE
  BY <1>1, <1>2 DEF Invoke, Push, StartBegin, Add, PauseBegin, RemoveBegin, StopBegin, SetLock,
                    DestroyBegin, MayCall
<1>3. ASSUME NEW d \in Client, Continue(d) PROVE FALSE
  <2>1. at[d] \in {"idle", "destroyed"}
    BY <1>1
  <2> QED
    BY <1>3, <2>1 DEF Continue, StartWorker, StartFails, StartEnd, AddStarts, AddEnd, PauseWorker,
       PauseEnd, RemoveAcquire, RemovePriority, RemoveSignals, RemoveStopped, RemoveEnd, StopClear,
       StopWorker, StopFails, StopUnlock, StopEnd, DestroyStops, DestroyWorker, DestroyEnd, Moves
<1>4. ASSUME NEW t \in Thread, Notify(t) PROVE FALSE
  BY <1>1, <1>4 DEF Notify, Insert, PushInsert, NotifyBegin, NotifyWorker, NotifyEnd, PushReturn
<1>5. ASSUME NEW w \in Worker, Run(w) PROVE FALSE
  BY <1>1, <1>5 DEF Run, RunStep, Begin, AcquireAndCheck, CountAll, CountOne, TakeJob, TakeNull,
                    AfterNull, FinishJob, Exit
<1>6. ASSUME NEW w \in Worker, NEW j \in Job, WorkPushes(w, j) PROVE FALSE
  BY <1>1, <1>6 DEF WorkPushes
<1>7. ASSUME NEW w \in Worker, SpuriousWake(w) PROVE FALSE
  BY <1>1, <1>7 DEF SpuriousWake
<1> QED
  BY <1>2, <1>3, <1>4, <1>5, <1>6, <1>7 DEF TPNext, Gone

LEMMA DestroyEndLeavesNothing ==
  ASSUME TPInv, CallsInv, MembersInv, PushersWork, TPInv', CallsInv',
         NEW c \in Client, DestroyEnd(c)
  PROVE  DestroyedLeavesNothing'
<1>1. /\ at[c] = "destroy workers" /\ at' = [at EXCEPT ![c] = "destroyed"]
      /\ \A w \in thread_workers_ : ~thread_[w]
      /\ UNCHANGED <<thread_, pc, mutex_>>
  BY DEF DestroyEnd, Moves, workerVars
<1>2. /\ at \in [Client -> Places] /\ Thread = Client \cup Worker /\ Nobody \notin Thread
  BY PoolAssumption DEF TPInv, OwnTypes
<1>3. \A w \in Worker : ~thread_[w] /\ pc[w] = "none"
  BY <1>1 DEF MembersInv, ThreadsAreMembers, TPInv, WInv, ThreadLifecycle
<1>4. destroyer = c /\ \A d \in Client \ {c} : at[d] = "idle" /\ push_at[d] = "idle"
  BY <1>1, <1>2 DEF CallsInv, DestroyerIsAlone
<1>5. \A t \in Thread : push_at[t] = "idle"
  BY <1>1, <1>2, <1>3, <1>4 DEF PushersWork, CallsInv, OneCallEach
<1>6. mutex_ = Nobody
  <2>1. ASSUME mutex_ \in Thread PROVE FALSE
    BY <1>1, <1>2, <1>4, <1>5, <2>1 DEF CallsInv, OneCallEach, Holding
  <2> QED
    BY <2>1 DEF TPInv, OwnTypes
<1>7. push_at' = push_at /\ \A j \in Job : fate'[j] # "queued"
  BY PriorityAssumption DEF DestroyEnd, Dispose, Emptied
<1>8. Queued' = {}
  BY <1>7 DEF Queued
<1>9. \A d \in Client : at'[d] = "destroyed" => d = c
  BY <1>1, <1>2, <1>4
<1> QED
  BY <1>1, <1>2, <1>3, <1>4, <1>5, <1>6, <1>7, <1>8, <1>9 DEF DestroyedLeavesNothing

LEMMA DestroyedNext ==
  ASSUME TPInv, CallsInv, MembersInv, PushersWork, DestroyedLeavesNothing, TPInv', CallsInv',
         [TPNext]_vars
  PROVE  DestroyedLeavesNothing'
<1>1. CASE \E c \in Client : at[c] = "destroyed"
  <2>1. UNCHANGED vars
    BY <1>1, DestroyedIsTheEnd
  <2> QED
    BY <2>1 DEF vars, jobPoolVars, workerVars, poolVars, DestroyedLeavesNothing, Queued
<1>2. CASE \A c \in Client : at[c] # "destroyed"
  <2>1. CASE \A c \in Client : at'[c] # "destroyed"
    BY <2>1 DEF DestroyedLeavesNothing
  <2>2. CASE \E c \in Client : at'[c] = "destroyed"
    <3>1. PICK c \in Client : at'[c] = "destroyed"
      BY <2>2
    <3>2. at \in [Client -> Places]
      BY DEF TPInv, OwnTypes
    <3>3. at'[c] # at[c]
      BY <1>2, <3>1
    <3>4. CASE Invoke(c)
      BY <3>1, <3>2, <3>3, <3>4
         DEF Invoke, Push, StartBegin, Add, PauseBegin, RemoveBegin, StopBegin, SetLock,
             DestroyBegin, Moves, poolVars
    <3>5. CASE Continue(c)
      <4>1. DestroyEnd(c)
        BY <3>1, <3>2, <3>3, <3>5
           DEF Continue, StartWorker, StartFails, StartEnd, AddStarts, AddEnd, PauseWorker,
               PauseEnd, RemoveAcquire, RemovePriority, RemoveSignals, RemoveStopped, RemoveEnd,
               StopClear, StopWorker, StopFails, StopUnlock, StopEnd, DestroyStops, DestroyWorker,
               Moves, AfterStop, poolVars
      <4> QED
        BY <4>1, DestroyEndLeavesNothing
    <3> QED
      BY <3>3, <3>4, <3>5, OnlyOwnMoves
  <2> QED
    BY <2>1, <2>2
<1> QED
  BY <1>1, <1>2

-----------------------------------------------------------------------------
(* pause(): the part of the vector that it has walked agrees with the pool *)
(* -- all of it once the call is over, or before it begins.                *)

Agrees(w) == pause_[w] = pool_pause_

PauseWalk ==
  /\ (\A c \in Client : at[c] # "pause") => \A w \in thread_workers_ : Agrees(w)
  /\ \A c \in Client : at[c] = "pause" => \A w \in thread_workers_ : w < cursor => Agrees(w)

\* All other steps leave pause_ alone and give the pool no worker.
LEMMA PauseIsLeftAlone ==
  ASSUME TPInv, [TPNext]_vars,
         \A c \in Client : /\ ~PauseWorker(c)
                           /\ \A w \in Worker : ~Add(c, w)
                           /\ \A pause \in BOOLEAN : ~PauseBegin(c, pause)
  PROVE  UNCHANGED <<pause_, pool_pause_>> /\ thread_workers_' \subseteq thread_workers_
<1> USE DEF UnchangedMembers, UnchangedHistory, workerVars, poolVars, allWorkerVars
<1>1. ASSUME NEW c \in Client, Invoke(c)
      PROVE  UNCHANGED <<pause_, pool_pause_>> /\ thread_workers_' \subseteq thread_workers_
  BY <1>1 DEF Invoke, Push, StartBegin, RemoveBegin, StopBegin, SetLock, DestroyBegin
<1>2. ASSUME NEW c \in Client, Continue(c)
      PROVE  UNCHANGED <<pause_, pool_pause_>> /\ thread_workers_' \subseteq thread_workers_
  <2>1. UNCHANGED pause_
    BY <1>2 DEF Continue, StartWorker, StartFails, StartEnd, AddStarts, AddEnd, PauseEnd,
         RemoveAcquire, RemovePriority, RemoveSignals, RemoveStopped, RemoveEnd, StopClear,
         StopWorker, StopFails, StopUnlock, StopEnd, DestroyStops, DestroyWorker, DestroyEnd,
         SignalStop, Join, StartThread, StartReturn, StartGivesUp, SetPriorities
  <2>2. UNCHANGED pool_pause_ /\ thread_workers_' \subseteq thread_workers_
    BY <1>2 DEF Continue, StartWorker, StartFails, StartEnd, AddStarts, AddEnd, PauseEnd,
         RemoveAcquire, RemovePriority, RemoveSignals, RemoveStopped, RemoveEnd, StopClear,
         StopWorker, StopFails, StopUnlock, StopEnd, DestroyStops, DestroyWorker, DestroyEnd
  <2> QED
    BY <2>1, <2>2
<1>3. ASSUME NEW t \in Thread, Notify(t) PROVE UNCHANGED <<pause_, pool_pause_, thread_workers_>>
  BY <1>3 DEF Notify, Insert, NotifyBegin, NotifyWorker, NotifyEnd, NotifyOne
<1>4. ASSUME NEW w \in Worker, Run(w) PROVE UNCHANGED <<pause_, pool_pause_, thread_workers_>>
  BY <1>4 DEF Run, RunStep, Begin, AcquireAndCheck, CountAll, CountOne, TakeJob, TakeNull,
              AfterNull, FinishJob, Exit
<1>5. ASSUME NEW w \in Worker, SpuriousWake(w), UNCHANGED poolVars
      PROVE  UNCHANGED <<pause_, pool_pause_, thread_workers_>>
  BY <1>5 DEF SpuriousWake
<1>6. ASSUME NEW w \in Worker, NEW j \in Job, WorkPushes(w, j), UNCHANGED poolVars
      PROVE  UNCHANGED <<pause_, pool_pause_, thread_workers_>>
  BY <1>6 DEF WorkPushes
<1>7. UNCHANGED vars => UNCHANGED <<pause_, pool_pause_, thread_workers_>>
  BY DEF vars
<1> QED
  BY <1>1, <1>2, <1>3, <1>4, <1>5, <1>6, <1>7 DEF TPNext, Gone

LEMMA PauseWalkNext ==
  ASSUME TPInv, CallsInv, PauseWalk, TPInv', CallsInv', [TPNext]_vars
  PROVE  PauseWalk'
<1>1. /\ at \in [Client -> Places] /\ cursor \in Nat /\ Worker \subseteq Nat
      /\ thread_workers_ \subseteq Worker /\ thread_workers_' \subseteq Worker
      /\ pause_ \in [Worker -> BOOLEAN]
      /\ Client \subseteq Thread /\ Nobody \notin Thread
  BY PoolAssumption DEF TPInv, OwnTypes, WInv, WTypeOK
<1>2. /\ \A c, d \in Client : at[c] = "pause" /\ at[d] = "pause" => c = d
      /\ \A c, d \in Client : at'[c] = "pause" /\ at'[d] = "pause" => c = d
      /\ mutex_ = Nobody => \A d \in Client : at[d] # "pause"
  BY <1>1, ZenonT(60) DEF CallsInv, OneCallEach, Holding
<1>3. ASSUME NEW c \in Client, NEW pause \in BOOLEAN, PauseBegin(c, pause) PROVE PauseWalk'
  <2>1. cursor' = 0 /\ at' = [at EXCEPT ![c] = "pause"]
    BY <1>3 DEF PauseBegin, Acquire, Moves
  <2>2. at'[c] = "pause" /\ \A w \in thread_workers_' : ~(w < cursor')
    BY <1>1, <2>1
  <2> QED
    BY <2>2 DEF PauseWalk
<1>4. ASSUME NEW c \in Client, PauseWorker(c) PROVE PauseWalk'
  <2>1. at[c] = "pause" /\ UNCHANGED <<at, thread_workers_, pool_pause_>>
    BY <1>4 DEF PauseWorker, UnchangedMembers
  <2>2. PICK w \in Worker : Current(w) /\ Pause(w, pool_pause_) /\ Advance(w)
    BY <1>4 DEF PauseWorker
  <2>3. pause_' = [pause_ EXCEPT ![w] = pool_pause_] /\ cursor' = w + 1
    BY <2>2 DEF Pause, Advance
  <2>4. \A v \in thread_workers_ : v < w + 1 => v = w \/ v < cursor
    BY <1>1, <2>2 DEF Current
  <2>5. \A v \in thread_workers_' : v < cursor' => Agrees(v)'
    BY <1>1, <2>1, <2>3, <2>4 DEF PauseWalk, Agrees
  <2> QED
    BY <2>1, <2>5 DEF PauseWalk
<1>5. ASSUME NEW c \in Client, NEW w \in Worker, Add(c, w) PROVE PauseWalk'
  <2>1. \A d \in Client : at'[d] # "pause"
    BY <1>1, <1>2, <1>5 DEF Add, Moves
  <2>2. \A v \in thread_workers_ : Agrees(v)
    BY <1>2, <1>5 DEF Add, PauseWalk
  <2>3. /\ thread_workers_' = thread_workers_ \cup {w} /\ pool_pause_' = pool_pause_
        /\ pause_' = [pause_ EXCEPT ![w] = pool_pause_]
    BY <1>5 DEF Add, Pause
  <2> QED
    BY <1>1, <2>1, <2>2, <2>3 DEF PauseWalk, Agrees
<1>6. CASE \A c \in Client : /\ ~PauseWorker(c)
                             /\ \A w \in Worker : ~Add(c, w)
                             /\ \A pause \in BOOLEAN : ~PauseBegin(c, pause)
  <2>1. UNCHANGED <<pause_, pool_pause_>> /\ thread_workers_' \subseteq thread_workers_
    BY <1>6, PauseIsLeftAlone
  <2>2. CASE \A c \in Client : at[c] # "pause"
    BY <2>1, <2>2 DEF PauseWalk, Agrees
  <2>3. ASSUME NEW c \in Client, at[c] = "pause" PROVE PauseWalk'
    <3>1. CASE Continue(c)
      <4>1. PauseEnd(c)
        BY <1>6, <2>3, <3>1
           DEF Continue, StartWorker, StartFails, StartEnd, AddStarts, AddEnd, RemoveAcquire,
               RemovePriority, RemoveSignals, RemoveStopped, RemoveEnd, StopClear, StopWorker,
               StopFails, StopUnlock, StopEnd, DestroyStops, DestroyWorker, DestroyEnd, Moves
      <4>2. \A w \in thread_workers_ : Agrees(w)
        BY <2>3, <4>1 DEF PauseEnd, Walked, PauseWalk
      <4> QED
        BY <2>1, <4>2 DEF PauseWalk, Agrees
    <3>2. CASE ~Continue(c)
      <4>1. at'[c] = "pause" /\ cursor' = cursor
        BY <2>3, <3>2, OwnerIsUndisturbed DEF Undisturbed, Holding
      <4> QED
        BY <2>1, <2>3, <4>1 DEF PauseWalk, Agrees
    <3> QED
      BY <3>1, <3>2
  <2> QED
    BY <2>2, <2>3
<1> QED
  BY <1>3, <1>4, <1>5, <1>6

\* Once a pause is over, only a worker that has been asked to stop takes a job.
LEMMA PausedTakesNone ==
  ASSUME TPInv, CallsInv, MembersInv, PauseWalk, [TPNext]_vars, pool_pause_,
         \A c \in Client : at[c] \notin Holding \cup {"destroy workers"}
  PROVE  Taken' = Taken
<1>1. ASSUME NEW w \in Worker, NEW j \in Job, TakeJob(w, j) PROVE FALSE
  <2>1. pc[w] = "pop"
    BY <1>1 DEF TakeJob
  <2>2. call[w] = "none"
    BY DEF MembersInv, CallsHaveCallers, CalledBy, Holding
  <2>3. ~pause_[w]
    BY <2>1, <2>2 DEF TPInv, WInv, SectionNotPaused, ThreadLifecycle
  <2>4. w \in thread_workers_
    BY <2>1 DEF TPInv, WInv, ThreadLifecycle, MembersInv, ThreadsAreMembers
  <2> QED
    BY <2>3, <2>4 DEF PauseWalk, Agrees, Holding
<1>2. JPInv /\ WTypeOK
  BY DEF TPInv, WInv
<1>3. ASSUME NEW w \in Worker, RunStep(w) \/ SpuriousWake(w) \/ WorkerCall(w) PROVE Taken' = Taken
  <2>1. UNCHANGED fate
    BY <1>1, <1>3
       DEF RunStep, Begin, AcquireAndCheck, CountAll, CountOne, TakeNull, PopNull, AfterNull,
           FinishJob, Exit, SpuriousWake, WorkerCall, SignalStop, Join, StartGivesUp, StartThread,
           StartReturn, Pause, NotifyOne, SetPriorities, jobPoolVars
  <2> QED
    BY <2>1 DEF Taken
<1>4. ASSUME NEW w \in Worker, NEW j \in Job, WorkPushes(w, j) PROVE Taken' = Taken
  BY <1>2, <1>4 DEF WorkPushes, PushCheck, Taken, JPInv, JPTypeOK
<1>5. UNCHANGED allWorkerVars => Taken' = Taken
  BY DEF allWorkerVars, jobPoolVars, Taken
<1>6. [WNext]_allWorkerVars
  BY PoolRefinesWorkers
<1> QED
  BY <1>2, <1>3, <1>4, <1>5, <1>6, PoolCallTakesNothing DEF WNext

-----------------------------------------------------------------------------
(* No lost wake-up.  A worker relies on a queue being empty, or on somebody *)
(* being about to notify it, from the moment it has counted that queue     *)
(* until it wakes; while it counts it holds its mutex, so that the notifier *)
(* waits for it.                                                           *)

Pending(w, p) ==
  \E t \in Thread : /\ push_at[t] = "notify" /\ priority[push_job[t]] = p
                    /\ mutex_ = t => cursor <= w

\* The queues that a worker has counted, in the middle of has_job().
Looked(w) == {priorities_[w][i] : i \in counted[w]}

ReliesOn(w, p) ==
  \/ pc[w] = "count" /\ p \in Looked(w)
  \/ pc[w] = "asleep" /\ ~pause_[w] /\ p \in Listed(priorities_[w])

CountsAreReset ==
  \A w \in Worker : counted[w] \subseteq DOMAIN priorities_[w] /\ (pc[w] # "count" => counted[w] = {})

SleepersAreCalled ==
  \A w \in Worker : \A p \in Priority : ReliesOn(w, p) /\ HasQueued(p) => Pending(w, p)

WakeInv == CountsAreReset /\ SleepersAreCalled

\* The steps of its own thread.
LEMMA RunKeepsCounts ==
  ASSUME TPInv, CountsAreReset, NEW w \in Worker, RunStep(w) \/ SpuriousWake(w)
  PROVE  /\ CountsAreReset'
         /\ \A p \in Priority : ReliesOn(w, p)' /\ HasQueued(p)' => ReliesOn(w, p)
<1> USE DEF Goto
<1>1. /\ pc \in [Worker -> Steps] /\ counted \in [Worker -> SUBSET Nat]
      /\ counted[w] \subseteq DOMAIN priorities_[w]
      /\ pc[w] # "count" => counted[w] = {}
  BY DEF TPInv, WInv, WTypeOK, CountsAreReset
<1>2. ASSUME pc'[w] \notin {"count", "asleep"}, UNCHANGED <<priorities_, counted>>, counted[w] = {},
             \A v \in Worker \ {w} : pc'[v] = pc[v]
      PROVE  /\ CountsAreReset'
             /\ \A p \in Priority : ReliesOn(w, p)' /\ HasQueued(p)' => ReliesOn(w, p)
  BY <1>2 DEF CountsAreReset, ReliesOn
<1>3. CASE Begin(w) \/ AfterNull(w) \/ FinishJob(w) \/ Exit(w) \/ SpuriousWake(w)
           \/ TakeNull(w) \/ \E j \in Job : TakeJob(w, j)
  <2>1. /\ pc'[w] \notin {"count", "asleep"} /\ UNCHANGED <<priorities_, counted>>
        /\ \A v \in Worker \ {w} : pc'[v] = pc[v]
        /\ pc[w] # "count"
    BY <1>1, <1>3 DEF Begin, AfterNull, FinishJob, Exit, SpuriousWake, TakeNull, TakeJob
  <2> QED
    BY <1>1, <1>2, <2>1
<1>4. CASE AcquireAndCheck(w)
  <2>1. /\ pc[w] = "lock" /\ UNCHANGED <<priorities_, counted, pause_>>
        /\ \A v \in Worker \ {w} : pc'[v] = pc[v]
        /\ pc'[w] = "count" \/ (pc'[w] = "asleep" /\ pause_[w])
    BY <1>1, <1>4 DEF AcquireAndCheck
  <2>2. counted[w] = {}
    BY <1>1, <2>1
  <2> QED
    BY <2>1, <2>2 DEF CountsAreReset, ReliesOn, Looked
<1>5. CASE CountAll(w)
  <2>1. /\ pc[w] = "count" /\ DOMAIN priorities_[w] = {} /\ UNCHANGED <<priorities_, counted>>
        /\ \A v \in Worker \ {w} : pc'[v] = pc[v]
        /\ pc'[w] # "count"
    BY <1>1, <1>5 DEF CountAll
  <2>2. counted[w] = {}
    BY <1>1, <2>1
  <2> QED
    BY <2>1, <2>2 DEF CountsAreReset, ReliesOn, Listed
<1>6. CASE CountOne(w)
  <2>1. PICK i \in ToCount(w) :
          IF ~HasQueued(priorities_[w][i]) /\ ToCount(w) # {i}
          THEN counted' = [counted EXCEPT ![w] = @ \cup {i}] /\ UNCHANGED pc
          ELSE /\ counted' = [counted EXCEPT ![w] = {}]
               /\ Goto(w, IF HasQueued(priorities_[w][i]) THEN "pop"
                          ELSE IF thread_stop_[w] THEN "exit" ELSE "asleep")
    BY <1>6 DEF CountOne
  <2>2. /\ pc[w] = "count" /\ UNCHANGED <<priorities_, pause_, job_queues_>>
        /\ i \in DOMAIN priorities_[w]
    BY <1>6, <2>1 DEF CountOne, ToCount, jobPoolVars
  <2>3. CASE ~HasQueued(priorities_[w][i]) /\ ToCount(w) # {i}
    <3>1. counted' = [counted EXCEPT ![w] = @ \cup {i}] /\ UNCHANGED pc
      BY <2>1, <2>3
    <3>2. CountsAreReset'
      BY <1>1, <2>2, <3>1 DEF CountsAreReset
    <3>3. ASSUME NEW p \in Priority, ReliesOn(w, p)', HasQueued(p)' PROVE ReliesOn(w, p)
      BY <1>1, <2>2, <2>3, <3>1, <3>3 DEF ReliesOn, Looked, HasQueued
    <3> QED
      BY <3>2, <3>3
  <2>4. CASE HasQueued(priorities_[w][i])
    <3>1. counted' = [counted EXCEPT ![w] = {}] /\ pc' = [pc EXCEPT ![w] = "pop"]
      BY <2>1, <2>4
    <3> QED
      BY <1>1, <2>2, <3>1 DEF CountsAreReset, ReliesOn
  <2>5. CASE ~HasQueued(priorities_[w][i]) /\ ToCount(w) = {i}
    <3>1. /\ counted' = [counted EXCEPT ![w] = {}]
          /\ pc' = [pc EXCEPT ![w] = IF thread_stop_[w] THEN "exit" ELSE "asleep"]
      BY <2>1, <2>5
    <3>2. CountsAreReset'
      BY <1>1, <2>2, <3>1 DEF CountsAreReset
    <3>3. \A k \in DOMAIN priorities_[w] : k = i \/ k \in counted[w]
      BY <2>5 DEF ToCount
    <3>4. ASSUME NEW p \in Priority, ReliesOn(w, p)', HasQueued(p)' PROVE ReliesOn(w, p)
      <4>1. p \in Listed(priorities_[w]) /\ HasQueued(p)
        BY <1>1, <2>2, <3>1, <3>4 DEF ReliesOn, HasQueued
      <4>2. PICK k \in DOMAIN priorities_[w] : p = priorities_[w][k]
        BY <4>1 DEF Listed
      <4>3. k \in counted[w]
        BY <2>5, <3>3, <4>1, <4>2
      <4> QED
        BY <2>2, <4>2, <4>3 DEF ReliesOn, Looked
    <3> QED
      BY <3>2, <3>4
  <2> QED
    BY <2>3, <2>4, <2>5
<1> QED
  BY <1>3, <1>4, <1>5, <1>6 DEF RunStep

\* The calls of other threads, which wake a worker that sleeps or wait for one
\* that counts.
LEMMA CallKeepsCounts ==
  ASSUME TPInv, CountsAreReset, NEW w \in Worker, WorkerCall(w)
  PROVE  /\ CountsAreReset'
         /\ \A p \in Priority : ReliesOn(w, p)' => ReliesOn(w, p)
<1> USE DEF Goto, Wake
<1>1. /\ pc \in [Worker -> Steps] /\ pause_ \in [Worker -> BOOLEAN]
      /\ counted[w] \subseteq DOMAIN priorities_[w]
      /\ pc[w] # "count" => counted[w] = {}
      /\ priorities_ \in [Worker -> PriorityList]
  BY DEF TPInv, WInv, WTypeOK, CountsAreReset
<1>2. ASSUME UNCHANGED <<counted, priorities_>>, pc'[w] = "count" => pc[w] = "count",
             pc[w] = "count" => pc'[w] = "count", pc'[w] # "asleep",
             \A v \in Worker \ {w} : pc'[v] = pc[v]
      PROVE  /\ CountsAreReset'
             /\ \A p \in Priority : ReliesOn(w, p)' => ReliesOn(w, p)
  BY <1>2 DEF CountsAreReset, ReliesOn, Looked
<1>3. CASE SignalStop(w) \/ (\E pause \in BOOLEAN : Pause(w, pause)) \/ \E p \in Priority : NotifyOne(w, p)
  <2>1. UNCHANGED <<counted, priorities_>> /\ pc[w] # "count"
    BY <1>3 DEF SignalStop, Pause, NotifyOne, MutexFree
  <2>2. pc' = [pc EXCEPT ![w] = IF @ = "asleep" THEN "lock" ELSE @]
    BY <1>3 DEF SignalStop, Pause, NotifyOne
  <2> QED
    BY <1>1, <1>2, <2>1, <2>2
<1>4. CASE Join(w) \/ StartThread(w)
  <2>1. /\ UNCHANGED <<counted, priorities_>> /\ pc[w] # "count"
        /\ pc'[w] \in {"none", "begin"} /\ \A v \in Worker \ {w} : pc'[v] = pc[v]
    BY <1>1, <1>4 DEF Join, StartThread, CanStart, TPInv, WInv, ThreadLifecycle
  <2> QED
    BY <1>2, <2>1
<1>5. CASE StartGivesUp(w) \/ StartReturn(w)
  BY <1>5 DEF StartGivesUp, StartReturn, CountsAreReset, ReliesOn, Looked
<1>6. ASSUME NEW q \in Priority, SetPriorities(w, Without(priorities_[w], q))
      PROVE  /\ CountsAreReset'
             /\ \A p \in Priority : ReliesOn(w, p)' => ReliesOn(w, p)
  <2>1. /\ UNCHANGED <<counted, pc, pause_>> /\ pc[w] # "count"
        /\ priorities_' = [priorities_ EXCEPT ![w] = Without(priorities_[w], q)]
    BY <1>6 DEF SetPriorities, MutexFree
  <2>2. \A p \in Priority : p \in Listed(Without(priorities_[w], q)) => p \in Listed(priorities_[w])
    BY DEF Listed, Without
  <2>3. counted[w] = {}
    BY <1>1, <2>1
  <2> QED
    BY <1>1, <2>1, <2>2, <2>3 DEF CountsAreReset, ReliesOn
<1> QED
  BY <1>3, <1>4, <1>5, <1>6 DEF WorkerCall

LEMMA CountsNext ==
  ASSUME TPInv, CountsAreReset, [TPNext]_vars
  PROVE  /\ CountsAreReset'
         /\ \A w \in Worker : \A p \in Priority :
              ReliesOn(w, p)' /\ HasQueued(p)' => ReliesOn(w, p)
<1>1. [WNext]_allWorkerVars
  BY PoolRefinesWorkers
<1>2. /\ pc \in [Worker -> Steps] /\ counted \in [Worker -> SUBSET Nat]
      /\ pause_ \in [Worker -> BOOLEAN] /\ priorities_ \in [Worker -> PriorityList]
  BY DEF TPInv, WInv, WTypeOK
<1>3. ASSUME NEW w \in Worker, NEW v \in Worker, v # w,
             RunStep(w) \/ SpuriousWake(w) \/ WorkerCall(w), NEW p \in Priority, ReliesOn(v, p)'
      PROVE  ReliesOn(v, p)
  <2>1. counted'[v] = counted[v] /\ pc'[v] = pc[v]
    BY <1>2, <1>3
       DEF RunStep, Begin, AcquireAndCheck, CountAll, CountOne, TakeJob, TakeNull, AfterNull,
           FinishJob, Exit, SpuriousWake, WorkerCall, SignalStop, Join, StartGivesUp, StartThread,
           StartReturn, Pause, NotifyOne, SetPriorities, Goto, Wake
  <2>2. pause_'[v] = pause_[v] /\ priorities_'[v] = priorities_[v]
    BY <1>2, <1>3
       DEF RunStep, Begin, AcquireAndCheck, CountAll, CountOne, TakeJob, TakeNull, AfterNull,
           FinishJob, Exit, SpuriousWake, WorkerCall, SignalStop, Join, StartGivesUp, StartThread,
           StartReturn, Pause, NotifyOne, SetPriorities
  <2> QED
    BY <1>3, <2>1, <2>2 DEF ReliesOn, Looked
<1>4. ASSUME NEW w \in Worker, RunStep(w) \/ SpuriousWake(w) \/ WorkerCall(w)
      PROVE  /\ CountsAreReset'
             /\ \A v \in Worker : \A p \in Priority :
                  ReliesOn(v, p)' /\ HasQueued(p)' => ReliesOn(v, p)
  BY <1>3, <1>4, RunKeepsCounts, CallKeepsCounts
<1>5. ASSUME UNCHANGED workerVars
      PROVE  /\ CountsAreReset'
             /\ \A v \in Worker : \A p \in Priority : ReliesOn(v, p)' => ReliesOn(v, p)
  BY <1>5 DEF workerVars, CountsAreReset, ReliesOn, Looked
<1>6. UNCHANGED allWorkerVars => UNCHANGED workerVars
  BY DEF allWorkerVars
<1> QED
  BY <1>1, <1>4, <1>5, <1>6 DEF WNext, PoolCall, WorkPushes

\* What a step of another thread does to a push that notifies: nothing.
PushesGoOn ==
  /\ \A t \in Thread : push_at[t] = "notify" =>
       push_at'[t] = "notify" /\ push_job'[t] = push_job[t]
  /\ \A p \in Priority : HasQueued(p)' => HasQueued(p)

CursorOfOthers ==
  \/ UNCHANGED <<mutex_, cursor>>
  \/ \A t \in Thread : push_at[t] = "notify" => mutex_' # t

LEMMA PendingKept ==
  ASSUME PushesGoOn, CursorOfOthers, NEW w \in Worker, NEW p \in Priority,
         HasQueued(p) => Pending(w, p), HasQueued(p)'
  PROVE  Pending(w, p)'
<1>1. PICK t \in Thread : /\ push_at[t] = "notify" /\ priority[push_job[t]] = p
                          /\ mutex_ = t => cursor <= w
  BY DEF PushesGoOn, Pending
<1>2. push_at'[t] = "notify" /\ priority[push_job'[t]] = p
  BY <1>1 DEF PushesGoOn
<1>3. mutex_' = t => cursor' <= w
  BY <1>1 DEF CursorOfOthers
<1> QED
  BY <1>2, <1>3 DEF Pending

LEMMA CallsKeepPushes ==
  ASSUME TPInv, CallsInv, NEW c \in Client, Invoke(c) \/ Continue(c)
  PROVE  PushesGoOn /\ CursorOfOthers
<1> USE DEF Moves, Acquire, Release, UnchangedMembers, UnchangedHistory, jobPoolVars, workerVars,
            poolVars, allWorkerVars
<1>1. /\ push_at \in [Thread -> {"idle", "insert", "notify"}]
      /\ push_job \in [Thread -> Job \cup {NoJob}]
      /\ Client \subseteq Thread /\ Nobody \notin Thread
  BY PoolAssumption DEF TPInv, WInv, JPInv, JPTypeOK
<1>2. UNCHANGED <<job_queues_, push_at, push_job>> => PushesGoOn
  BY DEF PushesGoOn, HasQueued
<1>3. ASSUME NEW P \in SUBSET Priority, Emptied(P) PROVE PushesGoOn
  BY <1>3 DEF Emptied, PushesGoOn, HasQueued
<1>4. push_at[c] = "idle" /\ mutex_' \in {c, Nobody} => CursorOfOthers
  BY <1>1 DEF CursorOfOthers
<1>5. CASE Invoke(c)
  <2>1. push_at[c] = "idle"
    BY <1>5 DEF Invoke, Push, StartBegin, Add, PauseBegin, RemoveBegin, StopBegin, SetLock,
                DestroyBegin, MayCall
  <2>2. UNCHANGED <<mutex_, cursor>> \/ mutex_' = c
    BY <1>5 DEF Invoke, Push, StartBegin, Add, PauseBegin, RemoveBegin, StopBegin, SetLock,
                DestroyBegin
  <2>3. ASSUME NEW j \in Job, Push(c, j) PROVE PushesGoOn
    BY <1>1, <2>1, <2>3 DEF Push, PushCheck, PushesGoOn, HasQueued
  <2>4. ASSUME NEW p \in Priority, RemoveBegin(c, p) PROVE PushesGoOn
    BY <1>3, <2>4 DEF RemoveBegin, ClearPriority, ClearQueues
  <2>5. ASSUME \A j \in Job : ~Push(c, j), \A p \in Priority : ~RemoveBegin(c, p) PROVE PushesGoOn
    BY <1>2, <1>5, <2>5 DEF Invoke, StartBegin, Add, Pause, PauseBegin, StopBegin, SetLock, Lock,
                            DestroyBegin
  <2> QED
    BY <1>4, <2>1, <2>2, <2>3, <2>4, <2>5 DEF CursorOfOthers
<1>6. CASE Continue(c)
  <2>1. at[c] # "idle"
    BY <1>6 DEF Continue, StartWorker, StartFails, StartEnd, AddStarts, AddEnd, PauseWorker,
       PauseEnd, RemoveAcquire, RemovePriority, RemoveSignals, RemoveStopped, RemoveEnd, StopClear,
       StopWorker, StopFails, StopUnlock, StopEnd, DestroyStops, DestroyWorker, DestroyEnd
  <2>2. push_at[c] = "idle" /\ (at[c] \in Holding => mutex_ = c)
    BY <2>1 DEF CallsInv, OneCallEach
  <2>3. UNCHANGED <<mutex_, cursor>> \/ mutex_' \in {c, Nobody}
    BY <1>6, <2>2
       DEF Continue, StartWorker, StartFails, StartEnd, AddStarts, AddEnd, PauseWorker, PauseEnd,
           RemoveAcquire, RemovePriority, RemoveSignals, RemoveStopped, RemoveEnd, StopClear,
           StopWorker, StopFails, StopUnlock, StopEnd, DestroyStops, DestroyWorker, DestroyEnd,
           Holding
  <2>4. ASSUME StopClear(c) \/ DestroyEnd(c) PROVE PushesGoOn
    <3>1. Emptied(Priority)
      BY <2>4 DEF StopClear, Clear, ClearQueues, DestroyEnd, Dispose
    <3>2. Priority \in SUBSET Priority
      OBVIOUS
    <3> QED
      BY <1>3, <3>1, <3>2
  <2>5. ASSUME ~StopClear(c), ~DestroyEnd(c) PROVE PushesGoOn
    <3>1. UNCHANGED <<job_queues_, push_at, push_job>>
      BY <1>6, <2>5
         DEF Continue, StartWorker, StartFails, StartEnd, AddStarts, AddEnd, PauseWorker, PauseEnd,
             RemoveAcquire, RemovePriority, RemoveSignals, RemoveStopped, RemoveEnd, StopWorker,
             StopFails, StopUnlock, StopEnd, DestroyStops, DestroyWorker, Lock, SignalStop, Join,
             StartThread, StartReturn, StartGivesUp, SetPriorities, Pause
    <3> QED
      BY <1>2, <3>1
  <2> QED
    BY <1>4, <2>2, <2>3, <2>4, <2>5 DEF CursorOfOthers
<1> QED
  BY <1>5, <1>6

\* A push notifies a worker or has nothing to tell it.
LEMMA NotifyKeepsPending ==
  ASSUME TPInv, CallsInv, MembersInv, NEW t \in Thread, Notify(t),
         NEW w \in Worker, NEW p \in Priority, ReliesOn(w, p), ReliesOn(w, p)',
         HasQueued(p) => Pending(w, p), HasQueued(p)', p \in Listed(priorities_[w])
  PROVE  Pending(w, p)'
<1>1. /\ push_at \in [Thread -> {"idle", "insert", "notify"}]
      /\ push_job \in [Thread -> Job \cup {NoJob}]
      /\ Worker \subseteq Nat /\ Nobody \notin Thread /\ Client \subseteq Thread
      /\ cursor \in Nat /\ thread_workers_ \subseteq Worker
      /\ pc \in [Worker -> Steps]
  BY PoolAssumption DEF TPInv, OwnTypes, WInv, WTypeOK, JPInv, JPTypeOK
<1>2. pc[w] \in {"asleep", "count"} /\ pc'[w] \in {"asleep", "count"}
  BY DEF ReliesOn
<1>3. thread_[w] /\ w \in thread_workers_
  BY <1>2 DEF TPInv, WInv, ThreadLifecycle, MembersInv, ThreadsAreMembers
<1>4. CASE Insert(t)
  <2>1. /\ push_at[t] = "insert" /\ push_at' = [push_at EXCEPT ![t] = "notify"]
        /\ push_job' = push_job /\ UNCHANGED <<mutex_, cursor>>
        /\ job_queues_' = [job_queues_ EXCEPT ![priority[push_job[t]]] = Append(@, push_job[t])]
    BY <1>4 DEF Insert, PushInsert
  <2>2. mutex_ # t
    BY <1>1, <2>1 DEF CallsInv, OneCallEach, Holding
  <2>3. CASE priority[push_job[t]] = p
    BY <1>1, <2>1, <2>2, <2>3 DEF Pending
  <2>4. CASE priority[push_job[t]] # p
    <3>1. HasQueued(p)
      BY <2>1, <2>4 DEF HasQueued
    <3>2. PICK u \in Thread : /\ push_at[u] = "notify" /\ priority[push_job[u]] = p
                              /\ mutex_ = u => cursor <= w
      BY <3>1 DEF Pending
    <3>3. push_at'[u] = "notify"
      BY <1>1, <2>1, <3>2
    <3> QED
      BY <2>1, <3>2, <3>3 DEF Pending
  <2> QED
    BY <2>3, <2>4
<1>5. ASSUME ~Insert(t) PROVE Pending(w, p)'
  <2>1. push_at[t] = "notify" /\ job_queues_' = job_queues_
    BY <1>5 DEF Notify, NotifyBegin, NotifyWorker, NotifyEnd, NotifyOne, PushReturn, jobPoolVars,
                allWorkerVars
  <2>2. PICK u \in Thread : /\ push_at[u] = "notify" /\ priority[push_job[u]] = p
                            /\ mutex_ = u => cursor <= w
    BY <2>1 DEF HasQueued, Pending
  <2>3. CASE NotifyBegin(t)
    <3>1. mutex_' = t /\ cursor' = 0 /\ UNCHANGED <<push_at, push_job>>
      BY <2>3 DEF NotifyBegin, Acquire, jobPoolVars
    <3>2. 0 <= w
      BY <1>1
    <3> QED
      BY <2>2, <3>1, <3>2 DEF Pending
  <2>4. CASE NotifyWorker(t)
    <3>1. mutex_ = t /\ mutex_' = t /\ UNCHANGED <<push_at, push_job>>
      BY <2>4 DEF NotifyWorker, NotifyOne, jobPoolVars, allWorkerVars
    <3>2. CASE u # t
      BY <2>2, <3>1, <3>2 DEF Pending
    <3>3. CASE u = t
      <4>1. PICK v \in Worker :
              /\ Current(v) /\ Advance(v)
              /\ \/ NotifyOne(v, p)
                 \/ ~Notifies(v, p)
        BY <2>2, <2>4, <3>3 DEF NotifyWorker
      <4>2. v # w
        <5>1. Notifies(w, p)
          BY <1>3 DEF Notifies
        <5>2. ASSUME NotifyOne(w, p) PROVE FALSE
          BY <1>1, <1>2, <5>2 DEF NotifyOne, MutexFree, Wake
        <5> QED
          BY <4>1, <5>1, <5>2
      <4>3. cursor' = v + 1 /\ cursor <= w
        BY <2>2, <3>1, <3>3, <4>1 DEF Advance
      <4>4. v < w
        BY <1>1, <1>3, <4>1, <4>2, <4>3 DEF Current
      <4>5. cursor' <= w
        BY <1>1, <4>3, <4>4
      <4> QED
        BY <2>2, <3>1, <4>5 DEF Pending
    <3> QED
      BY <3>2, <3>3
  <2>5. CASE NotifyEnd(t)
    <3>1. /\ mutex_ = t /\ mutex_' = Nobody
          /\ push_at' = [push_at EXCEPT ![t] = "idle"] /\ push_job' = [push_job EXCEPT ![t] = NoJob]
      BY <2>5 DEF NotifyEnd, PushReturn, Release
    <3>2. w < cursor
      BY <1>3, <2>5 DEF NotifyEnd, Walked
    <3>3. u # t
      BY <1>1, <2>2, <3>1, <3>2
    <3>4. push_at'[u] = "notify" /\ push_job'[u] = push_job[u]
      BY <1>1, <2>2, <3>1, <3>3
    <3> QED
      BY <1>1, <2>2, <3>1, <3>4 DEF Pending
  <2> QED
    BY <1>5, <2>3, <2>4, <2>5 DEF Notify
<1> QED
  BY <1>4, <1>5

LEMMA WakeNext ==
  ASSUME TPInv, CallsInv, MembersInv, WakeInv, [TPNext]_vars
  PROVE  WakeInv'
<1>1. CountsAreReset'
  BY CountsNext DEF WakeInv
<1>2. ASSUME NEW w \in Worker, NEW p \in Priority, ReliesOn(w, p)', HasQueued(p)'
      PROVE  Pending(w, p)'
  <2>1. ReliesOn(w, p)
    BY <1>2, CountsNext DEF WakeInv
  <2>2. HasQueued(p) => Pending(w, p)
    BY <2>1 DEF WakeInv, SleepersAreCalled
  <2>3. p \in Listed(priorities_[w])
    BY <2>1 DEF ReliesOn, Looked, Listed, WakeInv, CountsAreReset
  <2>4. ASSUME NEW c \in Client, Invoke(c) \/ Continue(c) PROVE Pending(w, p)'
    BY <1>2, <2>2, <2>4, CallsKeepPushes, PendingKept
  <2>5. ASSUME NEW t \in Thread, Notify(t) PROVE Pending(w, p)'
    BY <1>2, <2>1, <2>2, <2>3, <2>5, NotifyKeepsPending
  <2>6. /\ push_at \in [Thread -> {"idle", "insert", "notify"}]
        /\ push_job \in [Thread -> Job \cup {NoJob}]
    BY DEF TPInv, WInv, JPInv, JPTypeOK
  <2>7. ASSUME NEW v \in Worker, Run(v) PROVE Pending(w, p)'
    <3>1. CursorOfOthers
      BY <2>7 DEF Run, CursorOfOthers
    <3>2. ASSUME NEW list, NEW j \in Job, Pop(list, j) PROVE PushesGoOn
      <4>1. UNCHANGED <<push_at, push_job>>
        BY <3>2 DEF Pop
      <4>2. PICK i \in DOMAIN list :
              /\ job_queues_[list[i]] # <<>>
              /\ job_queues_' = [job_queues_ EXCEPT ![list[i]] = Tail(@)]
        BY <3>2 DEF Pop, FirstServed
      <4>3. \A q \in Priority : HasQueued(q)' => HasQueued(q)
        BY <4>2 DEF HasQueued
      <4> QED
        BY <4>1, <4>3 DEF PushesGoOn
    <3>3. ASSUME UNCHANGED jobPoolVars PROVE PushesGoOn
      BY <3>3 DEF jobPoolVars, PushesGoOn, HasQueued
    <3>4. PushesGoOn
      BY <2>7, <3>2, <3>3 DEF Run, RunStep, Begin, AcquireAndCheck, CountAll, CountOne, TakeJob,
                              TakeNull, PopNull, AfterNull, FinishJob, Exit
    <3> QED
      BY <1>2, <2>2, <3>1, <3>4, PendingKept
  <2>8. ASSUME NEW v \in Worker, NEW j \in Job, WorkPushes(v, j), UNCHANGED poolVars
        PROVE  Pending(w, p)'
    <3>1. PushesGoOn
      BY <2>6, <2>8 DEF WorkPushes, PushCheck, PushesGoOn, HasQueued
    <3>2. CursorOfOthers
      BY <2>8 DEF poolVars, CursorOfOthers
    <3> QED
      BY <1>2, <2>2, <3>1, <3>2, PendingKept
  <2>9. ASSUME UNCHANGED jobPoolVars, UNCHANGED poolVars PROVE Pending(w, p)'
    <3>1. PushesGoOn /\ CursorOfOthers
      BY <2>9 DEF jobPoolVars, poolVars, PushesGoOn, HasQueued, CursorOfOthers
    <3> QED
      BY <1>2, <2>2, <3>1, PendingKept
  <2>10. ASSUME NEW v \in Worker, SpuriousWake(v), UNCHANGED poolVars PROVE Pending(w, p)'
    BY <2>9, <2>10 DEF SpuriousWake
  <2>11. UNCHANGED vars => Pending(w, p)'
    BY <2>9 DEF vars
  <2> QED
    BY <2>4, <2>5, <2>7, <2>8, <2>10, <2>11 DEF TPNext, Gone
<1>3. SleepersAreCalled'
  BY <1>2 DEF SleepersAreCalled
<1> QED
  BY <1>1, <1>3 DEF WakeInv

-----------------------------------------------------------------------------
(* A stop() that succeeds leaves no job that was queued before it to the   *)
(* workers it has joined, unless they gave up.                             *)

\* The jobs that a stop() in progress has to wait for.
Owed == Queued \ late

Drained(w) == \A j \in Owed : priority[j] \notin Listed(priorities_[w])

StopDrain ==
  \A c \in Client : at[c] = "stop" => \A w \in Worker :
    /\ call[w] = "stop" /\ pc[w] = "count" => \A j \in Owed : priority[j] \notin Looked(w)
    /\ call[w] = "stop" /\ pc[w] \in {"exit", "finished"} => w \in gave_up \/ Drained(w)
    /\ w \in thread_workers_ /\ w < cursor => w \in gave_up \/ Drained(w)

LEMMA NoNewDebts ==
  ASSUME TPInv, Stopping, [TPNext]_vars
  PROVE  Owed' \subseteq Owed /\ gave_up \subseteq gave_up'
<1>1. /\ fate \in [Job -> Fates] /\ push_job \in [Thread -> Job \cup {NoJob}]
      /\ \A t \in Thread : push_at[t] # "idle" => push_job[t] \in Job
      /\ WTypeOK
  BY DEF TPInv, WInv, JPInv, JPTypeOK, PushesAreApart
<1>2. ASSUME Queued' \subseteq Queued, UNCHANGED late PROVE Owed' \subseteq Owed
  BY <1>2 DEF Owed
<1>3. ASSUME NEW t \in Thread, Insert(t) PROVE Owed' \subseteq Owed /\ gave_up \subseteq gave_up'
  <2>1. /\ fate' = [fate EXCEPT ![push_job[t]] = "queued"] /\ late' = late \cup {push_job[t]}
        /\ UNCHANGED gave_up
    BY <1>3 DEF Insert, PushInsert
  <2> QED
    BY <1>1, <2>1 DEF Owed, Queued
<1>4. ASSUME \A t \in Thread : ~Insert(t) PROVE UNCHANGED late /\ gave_up \subseteq gave_up'
  <2> USE DEF UnchangedMembers, UnchangedHistory, poolVars
  <2>1. ASSUME NEW c \in Client, Invoke(c) PROVE UNCHANGED <<late, gave_up>>
    BY <2>1 DEF Invoke, Push, StartBegin, Add, PauseBegin, RemoveBegin, StopBegin, SetLock,
                DestroyBegin
  <2>2. ASSUME NEW c \in Client, Continue(c) PROVE UNCHANGED <<late, gave_up>>
    BY <2>2 DEF Continue, StartWorker, StartFails, StartEnd, AddStarts, AddEnd, PauseWorker,
         PauseEnd, RemoveAcquire, RemovePriority, RemoveSignals, RemoveStopped, RemoveEnd,
         StopClear, StopWorker, StopFails, StopUnlock, StopEnd, DestroyStops, DestroyWorker,
         DestroyEnd
  <2>3. ASSUME NEW t \in Thread, Notify(t) PROVE UNCHANGED <<late, gave_up>>
    BY <1>4, <2>3 DEF Notify, NotifyBegin, NotifyWorker, NotifyEnd
  <2>4. ASSUME NEW w \in Worker, Run(w) PROVE UNCHANGED late /\ gave_up \subseteq gave_up'
    BY <2>4 DEF Run
  <2>5. UNCHANGED vars => UNCHANGED <<late, gave_up>>
    BY DEF vars
  <2> QED
    BY <2>1, <2>2, <2>3, <2>4, <2>5 DEF TPNext, Gone
<1>5. ASSUME \A t \in Thread : ~Insert(t) PROVE Queued' \subseteq Queued
  <2>1. ASSUME UNCHANGED fate PROVE Queued' \subseteq Queued
    BY <2>1 DEF Queued
  <2>2. ASSUME NEW P \in SUBSET Priority, Emptied(P) PROVE Queued' \subseteq Queued
    BY <2>2 DEF Emptied, Queued
  <2>3. ASSUME NEW t \in Thread, NEW j \in Job, PushCheck(t, j) PROVE Queued' \subseteq Queued
    BY <1>1, <2>3 DEF PushCheck, Queued
  <2>4. ASSUME NEW list, NEW j \in Job, Pop(list, j) PROVE Queued' \subseteq Queued
    BY <1>1, <2>4 DEF Pop, Queued
  <2>5. Priority \in SUBSET Priority /\ \A p \in Priority : {p} \in SUBSET Priority
    OBVIOUS
  <2>6. ASSUME NEW c \in Client, Invoke(c) PROVE Queued' \subseteq Queued
    <3>1. c \in Thread
      BY PoolAssumption
    <3>2. ASSUME NEW j \in Job, Push(c, j) PROVE Queued' \subseteq Queued
      BY <2>3, <3>1, <3>2 DEF Push
    <3>3. ASSUME NEW p \in Priority, RemoveBegin(c, p) PROVE Queued' \subseteq Queued
      BY <2>2, <2>5, <3>3 DEF RemoveBegin, ClearPriority, ClearQueues
    <3>4. ASSUME \A j \in Job : ~Push(c, j), \A p \in Priority : ~RemoveBegin(c, p)
          PROVE  UNCHANGED fate
      BY <2>6, <3>4 DEF Invoke, StartBegin, Add, Pause, PauseBegin, StopBegin, Lock, SetLock,
                        DestroyBegin, jobPoolVars
    <3> QED
      BY <2>1, <3>2, <3>3, <3>4
  <2>7. ASSUME NEW c \in Client, Continue(c) PROVE Queued' \subseteq Queued
    <3>1. CASE StopClear(c) \/ DestroyEnd(c)
      <4>1. Emptied(Priority)
        BY <3>1 DEF StopClear, Clear, ClearQueues, DestroyEnd, Dispose
      <4> QED
        BY <2>2, <2>5, <4>1
    <3>2. CASE ~StopClear(c) /\ ~DestroyEnd(c)
      <4>1. UNCHANGED fate
        BY <2>7, <3>2
           DEF Continue, StartWorker, StartFails, StartEnd, AddStarts, AddEnd, PauseWorker,
               PauseEnd, RemoveAcquire, RemovePriority, RemoveSignals, RemoveStopped, RemoveEnd,
               StopWorker, StopFails, StopUnlock, StopEnd, DestroyStops, DestroyWorker, Lock,
               SignalStop, Join, StartThread, StartReturn, StartGivesUp, SetPriorities, Pause,
               jobPoolVars, allWorkerVars
      <4> QED
        BY <2>1, <4>1
    <3> QED
      BY <3>1, <3>2
  <2>8. ASSUME NEW t \in Thread, Notify(t) PROVE UNCHANGED fate
    BY <1>5, <2>8 DEF Notify, NotifyBegin, NotifyWorker, NotifyEnd, NotifyOne, PushReturn,
                      jobPoolVars, allWorkerVars
  <2>9. ASSUME NEW w \in Worker, Run(w) PROVE Queued' \subseteq Queued
    BY <2>1, <2>4, <2>9
       DEF Run, RunStep, Begin, AcquireAndCheck, CountAll, CountOne, TakeJob, TakeNull, PopNull,
           AfterNull, FinishJob, Exit, jobPoolVars
  <2>10. ASSUME NEW w \in Worker, SpuriousWake(w) PROVE UNCHANGED fate
    BY <2>10 DEF SpuriousWake, jobPoolVars
  <2>11. ASSUME NEW w \in Worker, NEW j \in Job, WorkPushes(w, j) PROVE Queued' \subseteq Queued
    <3>1. w \in Thread
      BY WorkerAssumption
    <3> QED
      BY <2>3, <2>11, <3>1 DEF WorkPushes
  <2>12. UNCHANGED vars => UNCHANGED fate
    BY DEF vars, jobPoolVars
  <2> QED
    BY <2>1, <2>6, <2>7, <2>8, <2>9, <2>10, <2>11, <2>12 DEF TPNext, Gone
<1> QED
  BY <1>2, <1>3, <1>4, <1>5

\* A queue with a job in it is not empty.
LEMMA QueuedIsSeen ==
  ASSUME TPInv, NEW j \in Queued
  PROVE  HasQueued(priority[j])
  BY DEF TPInv, WInv, JPInv, QueuesHoldTheQueued, Queued, HasQueued

\* The steps of the worker that is joined.
LEMMA RunDrains ==
  ASSUME TPInv, CountsAreReset, NEW w \in Worker, Run(w), call[w] = "stop", call'[w] = call[w],
         pc[w] = "count" => \A j \in Owed : priority[j] \notin Looked(w),
         pc[w] \in {"exit", "finished"} => w \in gave_up \/ Drained(w),
         Owed' \subseteq Owed, gave_up \subseteq gave_up'
  PROVE  /\ pc'[w] = "count" => \A j \in Owed' : priority[j] \notin Looked(w)'
         /\ pc'[w] \in {"exit", "finished"} => w \in gave_up' \/ Drained(w)'
<1> USE DEF Goto
<1>1. /\ pc \in [Worker -> Steps] /\ counted \in [Worker -> SUBSET Nat]
      /\ counted[w] \subseteq DOMAIN priorities_[w]
      /\ pc[w] # "count" => counted[w] = {}
  BY DEF TPInv, WInv, WTypeOK, CountsAreReset
<1>2. UNCHANGED priorities_
  BY DEF Run, RunStep, Begin, AcquireAndCheck, CountAll, CountOne, TakeJob, TakeNull, AfterNull,
         FinishJob, Exit
<1>3. Drained(w) => Drained(w)'
  BY <1>2 DEF Drained
<1>4. CASE Begin(w) \/ FinishJob(w) \/ TakeNull(w) \/ \E j \in Job : TakeJob(w, j)
  BY <1>1, <1>4 DEF Begin, FinishJob, TakeNull, TakeJob
<1>5. CASE AcquireAndCheck(w)
  <2>1. pc'[w] \notin {"exit", "finished"} /\ counted' = counted /\ counted[w] = {}
    BY <1>1, <1>5 DEF AcquireAndCheck
  <2> QED
    BY <2>1 DEF Looked
<1>6. CASE CountAll(w)
  <2>1. pc'[w] # "count" /\ DOMAIN priorities_[w] = {}
    BY <1>1, <1>6 DEF CountAll
  <2>2. Drained(w)'
    BY <1>2, <2>1 DEF Drained, Listed
  <2> QED
    BY <2>1, <2>2
<1>7. CASE AfterNull(w)
  <2>1. pc[w] = "null" /\ pc'[w] \in {"exit", "lock"}
    BY <1>1, <1>7 DEF AfterNull
  <2>2. pc'[w] = "exit" => w \in gave_up'
    BY <2>1 DEF Run
  <2> QED
    BY <2>1, <2>2
<1>8. CASE Exit(w)
  BY <1>1, <1>3, <1>8 DEF Exit
<1>9. CASE CountOne(w)
  <2>1. PICK i \in ToCount(w) :
          IF ~HasQueued(priorities_[w][i]) /\ ToCount(w) # {i}
          THEN counted' = [counted EXCEPT ![w] = @ \cup {i}] /\ UNCHANGED pc
          ELSE /\ counted' = [counted EXCEPT ![w] = {}]
               /\ Goto(w, IF HasQueued(priorities_[w][i]) THEN "pop"
                          ELSE IF thread_stop_[w] THEN "exit" ELSE "asleep")
    BY <1>9 DEF CountOne
  <2>2. pc[w] = "count" /\ i \in DOMAIN priorities_[w]
    BY <1>9, <2>1 DEF CountOne, ToCount
  <2>3. \A j \in Owed : HasQueued(priority[j])
    BY QueuedIsSeen DEF Owed
  <2>4. CASE ~HasQueued(priorities_[w][i]) /\ ToCount(w) # {i}
    <3>1. counted'[w] = counted[w] \cup {i} /\ pc'[w] = "count"
      BY <1>1, <2>1, <2>2, <2>4
    <3>2. ASSUME NEW j \in Owed', priority[j] \in Looked(w)' PROVE FALSE
      <4>1. j \in Owed /\ HasQueued(priority[j])
        BY <2>3
      <4>2. PICK k \in counted[w] \cup {i} : priority[j] = priorities_[w][k]
        BY <1>2, <3>1, <3>2 DEF Looked
      <4>3. k \in counted[w]
        BY <2>4, <4>1, <4>2
      <4> QED
        BY <2>2, <4>1, <4>2, <4>3 DEF Looked
    <3> QED
      BY <3>1, <3>2
  <2>5. CASE HasQueued(priorities_[w][i])
    BY <1>1, <2>1, <2>5
  <2>6. CASE ~HasQueued(priorities_[w][i]) /\ ToCount(w) = {i}
    <3>1. pc'[w] \in {"exit", "asleep"}
      BY <1>1, <2>1, <2>6
    <3>2. \A k \in DOMAIN priorities_[w] : k = i \/ k \in counted[w]
      BY <2>6 DEF ToCount
    <3>3. ASSUME NEW j \in Owed, priority[j] \in Listed(priorities_[w]) PROVE FALSE
      <4>1. PICK k \in DOMAIN priorities_[w] : priority[j] = priorities_[w][k]
        BY <3>3 DEF Listed
      <4>2. k \in counted[w]
        BY <2>3, <2>6, <3>2, <4>1
      <4> QED
        BY <2>2, <4>1, <4>2 DEF Looked
    <3>4. Drained(w)
      BY <3>3 DEF Drained
    <3> QED
      BY <1>3, <3>1, <3>4
  <2> QED
    BY <2>4, <2>5, <2>6
<1> QED
  BY <1>4, <1>5, <1>6, <1>7, <1>8, <1>9 DEF Run, RunStep

LEMMA StopDrainNext ==
  ASSUME TPInv, CallsInv, MembersInv, StopWalk, WakeInv, StopDrain, CallsInv', MembersInv',
         [TPNext]_vars
  PROVE  StopDrain'
<1> DEFINE Counts(w) == call[w] = "stop" /\ pc[w] = "count" =>
                          \A j \in Owed : priority[j] \notin Looked(w)
           Ends(w) == call[w] = "stop" /\ pc[w] \in {"exit", "finished"} =>
                        w \in gave_up \/ Drained(w)
           Ended(w) == w \in thread_workers_ /\ w < cursor => w \in gave_up \/ Drained(w)
<1>1. /\ at \in [Client -> Places] /\ cursor \in Nat /\ Worker \subseteq Nat
      /\ pc \in [Worker -> Steps] /\ call \in [Worker -> {"none", "start", "stop"}]
      /\ counted \in [Worker -> SUBSET Nat] /\ priorities_ \in [Worker -> PriorityList]
      /\ thread_workers_ \subseteq Worker
  BY PoolAssumption DEF TPInv, OwnTypes, WInv, WTypeOK
<1>2. ASSUME NEW c \in Client, at[c] # "stop", at'[c] = "stop", NEW w \in Worker
      PROVE  Counts(w)' /\ Ends(w)' /\ Ended(w)'
  <2>1. StopClear(c) \/ \E immediately \in BOOLEAN : StopBegin(c, immediately)
    <3>1. CASE Invoke(c)
      BY <1>1, <1>2, <3>1 DEF Invoke, Push, StartBegin, Add, PauseBegin, RemoveBegin, SetLock,
                              DestroyBegin, Moves, poolVars
    <3>2. CASE Continue(c)
      BY <1>1, <1>2, <3>2
         DEF Continue, StartWorker, StartFails, StartEnd, AddStarts, AddEnd, PauseWorker, PauseEnd,
             RemoveAcquire, RemovePriority, RemoveSignals, RemoveStopped, RemoveEnd, StopWorker,
             StopFails, StopUnlock, StopEnd, DestroyStops, DestroyWorker, DestroyEnd, Moves,
             AfterStop, poolVars
    <3> QED
      BY <1>2, <3>1, <3>2, OnlyOwnMoves
  <2>2. Quiet
    BY <2>1, NobodyCalls DEF StopClear, StopBegin, MayCall, Moves, Acquire
  <2>3. call'[w] = "none"
    BY <2>1, <2>2 DEF StopClear, StopBegin, Quiet, workerVars
  <2>4. cursor' = 0
    BY <2>1 DEF StopClear, StopBegin, Moves, Acquire, StopWalk
  <2>5. w \in Nat
    BY <1>1
  <2> QED
    BY <2>3, <2>4, <2>5
<1>3. ASSUME NEW c \in Client, at[c] = "stop", at'[c] = "stop", NEW w \in Worker
      PROVE  Counts(w)' /\ Ends(w)' /\ Ended(w)'
  <2>1. Owed' \subseteq Owed /\ gave_up \subseteq gave_up'
    BY <1>3, NoNewDebts DEF Stopping
  <2>2. Counts(w) /\ Ends(w) /\ Ended(w)
    BY <1>3 DEF StopDrain
  <2>3. priorities_'[w] = priorities_[w] => (Drained(w) => Drained(w)')
    BY <2>1 DEF Drained
  <2>4. ASSUME UNCHANGED <<pc, counted, priorities_, call, thread_workers_, cursor>>
        PROVE  Counts(w)' /\ Ends(w)' /\ Ended(w)'
    BY <2>1, <2>2, <2>3, <2>4 DEF Looked
  <2>5. CASE Continue(c)
    <3>1. StopWorker(c)
      BY <1>1, <1>3, <2>5
         DEF Continue, StartWorker, StartFails, StartEnd, AddStarts, AddEnd, PauseWorker, PauseEnd,
             RemoveAcquire, RemovePriority, RemoveSignals, RemoveStopped, RemoveEnd, StopClear,
             StopFails, StopUnlock, StopEnd, DestroyStops, DestroyWorker, DestroyEnd, Moves,
             AfterStop
    <3>2. PICK v \in Worker : /\ Current(v)
                              /\ \/ SignalStop(v) /\ Stay
                                 \/ Join(v) /\ Advance(v)
      BY <3>1 DEF StopWorker
    <3>3. UNCHANGED <<thread_workers_, priorities_, counted>>
      BY <3>1, <3>2 DEF StopWorker, UnchangedMembers, SignalStop, Join
    <3>4. CASE SignalStop(v) /\ Stay
      <4>1. /\ cursor' = cursor /\ call[v] = "none" /\ pc[v] \notin {"count", "exit", "finished"}
            /\ call' = [call EXCEPT ![v] = "stop"]
            /\ pc' = [pc EXCEPT ![v] = IF @ = "asleep" THEN "lock" ELSE @]
        BY <3>4 DEF SignalStop, MutexFree, Wake, Stay, TPInv, WInv, ThreadLifecycle
      <4>2. CASE w = v
        BY <1>1, <2>1, <2>2, <2>3, <3>3, <4>1, <4>2
      <4>3. CASE w # v
        BY <1>1, <2>1, <2>2, <2>3, <3>3, <4>1, <4>3 DEF Looked
      <4> QED
        BY <4>2, <4>3
    <3>5. CASE Join(v) /\ Advance(v)
      <4>1. /\ cursor' = v + 1 /\ call[v] = "stop" /\ pc[v] = "finished"
            /\ call' = [call EXCEPT ![v] = "none"] /\ pc' = [pc EXCEPT ![v] = "none"]
        BY <3>5 DEF Join, Goto, Advance
      <4>2. w \in thread_workers_ /\ w < v + 1 => w = v \/ w < cursor
        BY <1>1, <3>2 DEF Current
      <4>3. Counts(w)' /\ Ends(w)'
        BY <1>1, <2>1, <2>2, <2>3, <3>3, <4>1 DEF Looked
      <4>4. Ended(w)'
        BY <2>1, <2>2, <2>3, <3>3, <4>1, <4>2
      <4> QED
        BY <4>3, <4>4
    <3> QED
      BY <3>2, <3>4, <3>5
  <2>6. CASE ~Continue(c)
    <3>1. UNCHANGED <<cursor, thread_workers_, call, priorities_>> /\ at[c] \in Holding
      BY <1>3, <2>6, OwnerIsUndisturbed DEF Undisturbed, Holding
    <3>2. Ended(w)'
      BY <2>1, <2>2, <2>3, <3>1
    <3>3. ASSUME ~Run(w), call[w] = "stop"
          PROVE  /\ pc'[w] = "count" => pc[w] = "count" /\ counted'[w] = counted[w]
                 /\ pc'[w] \in {"exit", "finished"} => pc[w] \in {"exit", "finished"}
      <4>1. ASSUME NEW d \in Client, Invoke(d) PROVE UNCHANGED <<pc, counted>>
        <5>1. \A v \in Worker : ~Add(d, v)
          BY <3>1, PoolAssumption DEF Add, CallsInv, OneCallEach
        <5> QED
          BY <4>1, <5>1 DEF Invoke, Push, StartBegin, PauseBegin, RemoveBegin, StopBegin,
                            SetLock, DestroyBegin, workerVars
      <4>2. ASSUME NEW d \in Client, Continue(d) PROVE UNCHANGED <<pc, counted>>
        <5>1. d # c /\ at[d] \notin Holding /\ mutex_ = c /\ c # Nobody
          BY <2>6, <3>1, <4>2, PoolAssumption DEF CallsInv, OneCallEach
        <5>2. at[d] \notin {"destroy", "destroy workers"}
          BY <1>3, <5>1, PoolAssumption DEF CallsInv, DestroyerIsAlone
        <5>3. StopEnd(d)
          BY <4>2, <5>1, <5>2
             DEF Continue, StartWorker, StartFails, StartEnd, AddStarts, AddEnd, PauseWorker,
                 PauseEnd, RemoveAcquire, RemovePriority, RemoveSignals, RemoveStopped, RemoveEnd,
                 StopClear, StopWorker, StopFails, StopUnlock, DestroyStops, DestroyWorker,
                 DestroyEnd, Moves, Acquire, Holding
        <5> QED
          BY <5>3 DEF StopEnd, workerVars
      <4>3. ASSUME NEW t \in Thread, Notify(t) PROVE UNCHANGED <<pc, counted>>
        <5>1. mutex_ = c /\ c # Nobody /\ push_at[c] = "idle"
          BY <1>3, <3>1, PoolAssumption DEF CallsInv, OneCallEach
        <5>2. Insert(t)
          BY <4>3, <5>1 DEF Notify, NotifyBegin, Acquire, NotifyWorker, NotifyEnd, PushReturn,
                            Release
        <5> QED
          BY <5>2 DEF Insert, workerVars
      <4>4. ASSUME NEW v \in Worker, v # w, Run(v) PROVE pc'[w] = pc[w] /\ counted'[w] = counted[w]
        BY <1>1, <4>4 DEF Run, RunStep, Begin, AcquireAndCheck, CountAll, CountOne, TakeJob,
                          TakeNull, AfterNull, FinishJob, Exit, Goto
      <4>5. ASSUME NEW v \in Worker, SpuriousWake(v)
            PROVE  /\ pc'[w] = "count" => pc[w] = "count"
                   /\ pc'[w] \in {"exit", "finished"} => pc[w] \in {"exit", "finished"}
                   /\ counted' = counted
        BY <1>1, <4>5 DEF SpuriousWake, Goto
      <4>6. ASSUME NEW v \in Worker, NEW j \in Job, WorkPushes(v, j) PROVE UNCHANGED <<pc, counted>>
        BY <4>6 DEF WorkPushes, workerVars
      <4>7. UNCHANGED vars => UNCHANGED <<pc, counted>>
        BY DEF vars, workerVars
      <4> QED
        BY <3>3, <4>1, <4>2, <4>3, <4>4, <4>5, <4>6, <4>7 DEF TPNext, Gone
    <3>4. CASE call[w] = "stop" /\ Run(w)
      <4>1. /\ pc'[w] = "count" => \A j \in Owed' : priority[j] \notin Looked(w)'
            /\ pc'[w] \in {"exit", "finished"} => w \in gave_up' \/ Drained(w)'
        BY <2>1, <2>2, <3>1, <3>4, RunDrains DEF WakeInv
      <4> QED
        BY <3>2, <4>1
    <3>5. CASE call[w] = "stop" /\ ~Run(w)
      BY <2>1, <2>2, <2>3, <3>1, <3>2, <3>3, <3>5 DEF Looked
    <3>6. CASE call[w] # "stop"
      BY <3>1, <3>2, <3>6
    <3> QED
      BY <3>4, <3>5, <3>6
  <2> QED
    BY <2>5, <2>6
<1> QED
  BY <1>2, <1>3 DEF StopDrain

-----------------------------------------------------------------------------
(* The invariant of the pool, and the theorems.                            *)

PoolInv ==
  /\ TPInv
  /\ CallsInv
  /\ MembersInv
  /\ StopWalk
  /\ PushersWork
  /\ DestroyedLeavesNothing
  /\ PauseWalk
  /\ WakeInv
  /\ StopDrain

LEMMA PoolInitInv == TPInit => PoolInv
<1> SUFFICES ASSUME TPInit PROVE PoolInv
  OBVIOUS
<1>1. TPInv /\ CallsInv /\ MembersInv
  BY TPInitInv, CallsInit, MembersInit
<1>2. /\ at = [c \in Client |-> "idle"] /\ push_at = [t \in Thread |-> "idle"]
      /\ pause_ = [w \in Worker |-> FALSE] /\ pool_pause_ = FALSE
      /\ pc = [w \in Worker |-> "none"] /\ counted = [w \in Worker |-> {}]
      /\ thread_workers_ \subseteq Worker /\ Worker \subseteq Thread
  BY PoolAssumption, WorkerAssumption DEF TPInit, WInit, JPInit
<1>3. StopWalk /\ DestroyedLeavesNothing /\ StopDrain
  BY <1>2 DEF StopWalk, DestroyedLeavesNothing, StopDrain
<1>4. PushersWork
  BY <1>2 DEF PushersWork
<1>5. PauseWalk
  BY <1>2 DEF PauseWalk, Agrees
<1>6. WakeInv
  BY <1>2 DEF WakeInv, CountsAreReset, SleepersAreCalled, ReliesOn
<1> QED
  BY <1>1, <1>3, <1>4, <1>5, <1>6 DEF PoolInv

LEMMA PoolNextInv ==
  ASSUME PoolInv, [TPNext]_vars
  PROVE  PoolInv'
<1> USE DEF PoolInv
<1>1. TPInv' /\ CallsInv' /\ MembersInv'
  BY TPNextInv, CallsNext, MembersNext
<1>2. StopWalk' /\ PushersWork'
  BY StopWalkNext, PushersWorkNext
<1>3. DestroyedLeavesNothing'
  BY <1>1, DestroyedNext
<1>4. PauseWalk'
  BY <1>1, PauseWalkNext
<1>5. WakeInv'
  BY WakeNext
<1>6. StopDrain'
  BY <1>1, StopDrainNext
<1> QED
  BY <1>1, <1>2, <1>3, <1>4, <1>5, <1>6

\* No two calls walk the vector at once, nobody waits for a worker that is not
\* in it, and every worker that has a thread is.
THEOREM PoolMutexDiscipline == TPSpec => []MutexDiscipline
<1>1. PoolInv => MutexDiscipline
  <2> SUFFICES ASSUME PoolInv PROVE MutexDiscipline
    OBVIOUS
  <2>1. \A c \in Client : at[c] \in Holding => mutex_ = c /\ push_at[c] = "idle"
    BY DEF PoolInv, CallsInv, OneCallEach, Holding
  <2>2. \A t \in Thread : mutex_ = t =>
          push_at[t] = "notify" \/ (t \in Client /\ at[t] \in Holding)
    BY DEF PoolInv, CallsInv, OneCallEach
  <2>3. \A w \in Worker : call[w] # "none" => \E c \in Client : CalledBy(c, w)
    BY DEF PoolInv, MembersInv, CallsHaveCallers
  <2>4. \A w \in Worker : thread_[w] => w \in thread_workers_
    BY DEF PoolInv, MembersInv, ThreadsAreMembers
  <2> QED
    BY <2>1, <2>2, <2>3, <2>4 DEF MutexDiscipline, CalledBy
<1> QED
  BY <1>1, PoolInitInv, PoolNextInv, PTL DEF TPSpec

\* A worker that sleeps and is not paused has no job to do, or is about to be
\* notified by a push that has not walked past it.
THEOREM PoolLosesNoWakeup == TPSpec => []NoLostWakeup
<1>1. PoolInv => NoLostWakeup
  <2> SUFFICES ASSUME PoolInv, NEW w \in Worker, pc[w] = "asleep", ~pause_[w],
                      NEW p \in Listed(priorities_[w]), HasQueued(p)
               PROVE  \E t \in Thread : /\ push_at[t] = "notify"
                                        /\ priority[push_job[t]] \in Listed(priorities_[w])
                                        /\ mutex_ = t => cursor <= w
    BY DEF NoLostWakeup
  <2>1. p \in Priority
    BY ListAssumption DEF PoolInv, TPInv, WInv, WTypeOK, Listed, IsList
  <2>2. Pending(w, p)
    BY <2>1 DEF PoolInv, WakeInv, SleepersAreCalled, ReliesOn
  <2> QED
    BY <2>2 DEF Pending
<1> QED
  BY <1>1, PoolInitInv, PoolNextInv, PTL DEF TPSpec

\* When no call holds the mutex the pool's pause_ is that of all its workers.
THEOREM PoolPauseReachesAll == TPSpec => []PauseReachesEveryWorker
<1>1. PoolInv => PauseReachesEveryWorker
  <2> SUFFICES ASSUME PoolInv, mutex_ = Nobody PROVE \A w \in thread_workers_ : Agrees(w)
    BY DEF PauseReachesEveryWorker, Agrees
  <2>1. \A c \in Client : at[c] # "pause"
    BY PoolAssumption DEF PoolInv, CallsInv, OneCallEach, Holding
  <2> QED
    BY <2>1 DEF PoolInv, PauseWalk
<1> QED
  BY <1>1, PoolInitInv, PoolNextInv, PTL DEF TPSpec

\* A pool that is paused works on no further job until somebody resumes it,
\* stops it or takes workers away.
THEOREM PausedPoolIsIdle == TPSpec => PausedPoolTakesNothing
<1>1. ASSUME PoolInv, [TPNext]_vars
      PROVE  pool_pause_ /\ (\A c \in Client : at[c] \notin Holding \cup {"destroy workers"})
               => Taken' = Taken
  BY <1>1, PausedTakesNone DEF PoolInv
<1>2. PoolInv /\ [TPNext]_vars =>
        [pool_pause_ /\ (\A c \in Client : at[c] \notin Holding \cup {"destroy workers"})
           => Taken' = Taken]_vars
  BY <1>1
<1> QED
  BY <1>2, PoolInitInv, PoolNextInv, PTL DEF TPSpec, PausedPoolTakesNothing

\* The step in which a stop() succeeds.
LEMMA StopSucceeds ==
  ASSUME PoolInv, [TPNext]_vars, NEW c \in Client, at[c] = "stop", at'[c] = "stopped"
  PROVE  StopUnlock(c)
<1>1. Continue(c)
  BY OwnerIsUndisturbed DEF PoolInv, Undisturbed, Holding
<1>2. at \in [Client -> Places]
  BY DEF PoolInv, TPInv, OwnTypes
<1> QED
  BY <1>1, <1>2
     DEF Continue, StartWorker, StartFails, StartEnd, AddStarts, AddEnd, PauseWorker, PauseEnd,
         RemoveAcquire, RemovePriority, RemoveSignals, RemoveStopped, RemoveEnd, StopClear,
         StopWorker, StopFails, StopEnd, DestroyStops, DestroyWorker, DestroyEnd, Moves, AfterStop

\* stop() succeeds with every thread joined.
THEOREM StopJoinsAll == TPSpec => StopJoinsEveryThread
<1> DEFINE Joined == \A c \in Client : at[c] = "stop" /\ at'[c] = "stopped" =>
                       \A w \in Worker : ~thread_[w]
<1>1. ASSUME PoolInv, [TPNext]_vars, NEW c \in Client, at[c] = "stop", at'[c] = "stopped",
             NEW w \in Worker
      PROVE  ~thread_[w]
  <2>1. StopUnlock(c)
    BY <1>1, StopSucceeds
  <2>2. \A v \in thread_workers_ : ~thread_[v]
    BY <1>1, <2>1 DEF PoolInv, StopUnlock, Walked, StopWalk
  <2> QED
    BY <1>1, <2>2 DEF PoolInv, MembersInv, ThreadsAreMembers
<1>2. PoolInv /\ [TPNext]_vars => [Joined]_vars
  BY <1>1
<1> QED
  BY <1>2, PoolInitInv, PoolNextInv, PTL DEF TPSpec, StopJoinsEveryThread

\* stop() succeeds with no job left over, of a priority that the pool serves,
\* unless the job came while stop() was in progress or each worker that serves
\* it lost a job it had counted to another.
THEOREM StopDrainsQueues == TPSpec => StopDrains
<1> DEFINE Step == \A c \in Client : at[c] = "stop" /\ at'[c] = "stopped" =>
                     \A j \in Queued \ late : \A w \in thread_workers_ :
                       priority[j] \in Listed(priorities_[w]) => w \in gave_up
<1>1. ASSUME PoolInv, [TPNext]_vars, NEW c \in Client, at[c] = "stop", at'[c] = "stopped",
             NEW j \in Queued \ late, NEW w \in thread_workers_,
             priority[j] \in Listed(priorities_[w])
      PROVE  w \in gave_up
  <2>1. Walked /\ w \in Worker
    BY <1>1, StopSucceeds DEF StopUnlock, PoolInv, TPInv, OwnTypes
  <2>2. w < cursor
    BY <2>1 DEF Walked
  <2>3. ~Drained(w)
    BY <1>1 DEF Drained, Owed
  <2> QED
    BY <1>1, <2>1, <2>2, <2>3 DEF PoolInv, StopDrain
<1>2. PoolInv /\ [TPNext]_vars => [Step]_vars
  BY <1>1
<1> QED
  BY <1>2, PoolInitInv, PoolNextInv, PTL DEF TPSpec, StopDrains

\* Nothing of a destroyed pool is left: no thread, no job, no call.
THEOREM DestructorLeavesNothing == TPSpec => []DestroyedLeavesNothing
<1>1. PoolInv => DestroyedLeavesNothing
  BY DEF PoolInv
<1> QED
  BY <1>1, PoolInitInv, PoolNextInv, PTL DEF TPSpec
-----------------------------------------------------------------------------
(* A stop() of workers that share no priority, in a pool that nobody removes *)
(* workers from, works off what was queued before it.                      *)
(*                                                                         *)
(* There only a stop(true) takes from a worker the job it has counted.     *)
(* Either that stop is the one in progress, and owes nothing after it has  *)
(* cleared the queues, or it has ended: then some worker is left without a *)
(* thread and never gets one again, and every later stop() fails there.    *)

NobodyRemoves == \A c \in Client : "remove" \notin Menu[c]

NoneShared ==
  \A v, w \in Worker : v # w =>
    Listed(InitialPriorities[v]) \cap Listed(InitialPriorities[w]) = {}

KeepsPriorities ==
  /\ priorities_ = InitialPriorities
  /\ \A c \in Client : at[c] \notin {"remove cleared", "remove", "remove stop"}

Destroyed == \E c \in Client : at[c] = "destroyed"

\* A member that no start() makes a thread for.
NeverStarts(w) ==
  /\ w \in thread_workers_ /\ ~thread_[w]
  /\ promise_[w] # "fresh" \/ DOMAIN priorities_[w] = {}

StopWillFail ==
  \E v \in Worker : NeverStarts(v) /\ ((\E c \in Client : at[c] = "stop") => v >= cursor)

\* A start() has tried the worker, or the push that added it is about to.
Tried(w) ==
  \/ promise_[w] # "fresh"
  \/ DOMAIN priorities_[w] = {}
  \/ \E c \in Client : at[c] = "add" /\ arg[c] = w

StartWalk ==
  /\ working_ \/ (\E c \in Client : at[c] \in {"destroy", "clear", "stop"}) =>
       \A w \in thread_workers_ : Tried(w)
  /\ \A c \in Client : at[c] = "start" => \A w \in thread_workers_ : w < cursor => Tried(w)

\* The worker has counted a job and finds, or has found, none.
FindsNone(w) == \A p \in Listed(priorities_[w]) : ~HasQueued(p)

Loses(w) ==
  \/ pc[w] = "pop" /\ FindsNone(w)
  \/ pc[w] = "null"
  \/ w \in gave_up

GaveUpHere == \A w \in gave_up : promise_[w] # "fresh" /\ (w \in thread_workers_ \/ Destroyed)

LosersAreCleared ==
  \A w \in Worker : Loses(w) =>
    \/ (\E c \in Client : at[c] = "stop") /\ Drained(w)
    \/ StopWillFail
    \/ Destroyed

DrainInv ==
  /\ PoolInv
  /\ KeepsPriorities
  /\ StartWalk
  /\ GaveUpHere
  /\ LosersAreCleared

\* With nobody who calls remove_workers() the lists stay what they were.
LEMMA PrioritiesAreKept ==
  ASSUME NobodyRemoves, TPInv, KeepsPriorities, [TPNext]_vars
  PROVE  KeepsPriorities'
<1>1. at \in [Client -> Places]
  BY DEF TPInv, OwnTypes
<1>2. ASSUME UNCHANGED <<priorities_, at>> PROVE KeepsPriorities'
  BY <1>2 DEF KeepsPriorities
<1>3. ASSUME NEW c \in Client, Invoke(c) PROVE KeepsPriorities'
  <2>1. \A p \in Priority : ~RemoveBegin(c, p)
    BY DEF RemoveBegin, MayCall, NobodyRemoves
  <2>2. UNCHANGED priorities_
    BY <1>3, <2>1 DEF Invoke, Push, StartBegin, Add, Pause, PauseBegin, StopBegin, SetLock,
                      DestroyBegin, workerVars
  <2>3. \A d \in Client : at'[d] = at[d] \/ at'[d] \notin {"remove cleared", "remove", "remove stop"}
    BY <1>1, <1>3, <2>1 DEF Invoke, Push, StartBegin, Add, PauseBegin, StopBegin, SetLock,
                      DestroyBegin, Moves, poolVars
  <2> QED
    BY <2>2, <2>3 DEF KeepsPriorities
<1>4. ASSUME NEW c \in Client, Continue(c) PROVE KeepsPriorities'
  <2>1. ~RemoveAcquire(c) /\ ~RemovePriority(c) /\ ~RemoveSignals(c) /\ ~RemoveStopped(c)
        /\ ~RemoveEnd(c)
    BY DEF KeepsPriorities, RemoveAcquire, RemovePriority, RemoveSignals, RemoveStopped, RemoveEnd,
           Moves
  <2>2. UNCHANGED priorities_
    BY <1>4, <2>1 DEF Continue, StartWorker, StartFails, StartEnd, AddStarts, AddEnd, PauseWorker,
         PauseEnd, StopClear, StopWorker, StopFails, StopUnlock, StopEnd, DestroyStops,
         DestroyWorker, DestroyEnd, SignalStop, Join, StartGivesUp, StartThread, StartReturn, Pause,
         allWorkerVars, workerVars
  <2>3. \A d \in Client : at'[d] = at[d] \/ at'[d] \notin {"remove cleared", "remove", "remove stop"}
    BY <1>1, <1>4, <2>1 DEF Continue, StartWorker, StartFails, StartEnd, AddStarts, AddEnd,
         PauseWorker, PauseEnd, StopClear, StopWorker, StopFails, StopUnlock, StopEnd, DestroyStops,
         DestroyWorker, DestroyEnd, Moves, AfterStop, poolVars
  <2> QED
    BY <2>2, <2>3 DEF KeepsPriorities
<1>5. ASSUME NEW t \in Thread, Notify(t) PROVE KeepsPriorities'
  BY <1>2, <1>5 DEF Notify, Insert, NotifyBegin, NotifyWorker, NotifyEnd, NotifyOne, allWorkerVars,
                    workerVars
<1>6. ASSUME NEW w \in Worker, Run(w) PROVE KeepsPriorities'
  BY <1>2, <1>6 DEF Run, RunStep, Begin, AcquireAndCheck, CountAll, CountOne, TakeJob, TakeNull,
                    AfterNull, FinishJob, Exit
<1>7. ASSUME NEW w \in Worker, SpuriousWake(w), UNCHANGED poolVars PROVE KeepsPriorities'
  BY <1>2, <1>7 DEF SpuriousWake, poolVars
<1>8. ASSUME NEW w \in Worker, NEW j \in Job, WorkPushes(w, j), UNCHANGED poolVars
      PROVE  KeepsPriorities'
  BY <1>2, <1>8 DEF WorkPushes, workerVars, poolVars
<1>9. UNCHANGED vars => KeepsPriorities'
  BY <1>2 DEF vars, workerVars, poolVars
<1> QED
  BY <1>3, <1>4, <1>5, <1>6, <1>7, <1>8, <1>9 DEF TPNext, Gone

\* A promise is used once, and only a worker whose promise is fresh and which
\* has a priority gets a thread.
LEMMA PromisesAreUsedOnce ==
  ASSUME TPInv, [TPNext]_vars, NEW w \in Worker
  PROVE  /\ promise_[w] # "fresh" => promise_'[w] # "fresh"
         /\ thread_'[w] /\ ~thread_[w] => promise_[w] = "fresh" /\ DOMAIN priorities_[w] # {}
<1> DEFINE Goal == /\ promise_[w] # "fresh" => promise_'[w] # "fresh"
                   /\ thread_'[w] /\ ~thread_[w] =>
                        promise_[w] = "fresh" /\ DOMAIN priorities_[w] # {}
<1>1. /\ promise_ \in [Worker -> {"fresh", "retrieved", "set"}] /\ thread_ \in [Worker -> BOOLEAN]
  BY DEF TPInv, WInv, WTypeOK
<1>2. UNCHANGED <<promise_, thread_>> => Goal
  OBVIOUS
<1>3. ASSUME NEW v \in Worker, RunStep(v) PROVE Goal
  BY <1>1, <1>3 DEF RunStep, Begin, AcquireAndCheck, CountAll, CountOne, TakeJob, TakeNull,
                    AfterNull, FinishJob, Exit
<1>4. ASSUME NEW v \in Worker, WorkerCall(v) PROVE Goal
  BY <1>1, <1>4 DEF WorkerCall, SignalStop, Join, StartGivesUp, StartThread, StartReturn, Pause,
                    NotifyOne, SetPriorities, CanStart
<1>5. ASSUME NEW v \in Worker, SpuriousWake(v) PROVE Goal
  BY <1>2, <1>5 DEF SpuriousWake
<1>6. ASSUME NEW v \in Worker, NEW j \in Job, WorkPushes(v, j) PROVE Goal
  BY <1>2, <1>6 DEF WorkPushes, workerVars
<1>7. PoolCall \/ UNCHANGED allWorkerVars => Goal
  BY <1>2 DEF PoolCall, allWorkerVars, workerVars
<1>8. [WNext]_allWorkerVars
  BY PoolRefinesWorkers
<1> QED
  BY <1>3, <1>4, <1>5, <1>6, <1>7, <1>8 DEF WNext

\* Without remove_workers() a member stays one until the pool is gone.
LEMMA MembersStay ==
  ASSUME TPInv, KeepsPriorities, [TPNext]_vars
  PROVE  thread_workers_ \subseteq thread_workers_' \/ Destroyed'
<1>1. at \in [Client -> Places]
  BY DEF TPInv, OwnTypes
<1>2. ASSUME NEW c \in Client, Invoke(c) PROVE thread_workers_ \subseteq thread_workers_'
  BY <1>2 DEF Invoke, Push, StartBegin, Add, PauseBegin, RemoveBegin, StopBegin, SetLock,
              DestroyBegin, UnchangedMembers, poolVars
<1>3. ASSUME NEW c \in Client, Continue(c)
      PROVE  thread_workers_ \subseteq thread_workers_' \/ Destroyed'
  <2>1. ~RemoveEnd(c)
    BY DEF KeepsPriorities, RemoveEnd, Moves
  <2>2. CASE DestroyEnd(c)
    BY <1>1, <2>2 DEF DestroyEnd, Moves, Destroyed
  <2>3. CASE ~DestroyEnd(c)
    BY <1>3, <2>1, <2>3 DEF Continue, StartWorker, StartFails, StartEnd, AddStarts, AddEnd,
         PauseWorker, PauseEnd, RemoveAcquire, RemovePriority, RemoveSignals, RemoveStopped,
         StopClear, StopWorker, StopFails, StopUnlock, StopEnd, DestroyStops, DestroyWorker,
         UnchangedMembers, poolVars
  <2> QED
    BY <2>2, <2>3
<1>4. ASSUME NEW t \in Thread, Notify(t) PROVE UNCHANGED thread_workers_
  BY <1>4 DEF Notify, Insert, NotifyBegin, NotifyWorker, NotifyEnd, UnchangedMembers
<1>5. ASSUME NEW w \in Worker, Run(w) PROVE UNCHANGED thread_workers_
  BY <1>5 DEF Run
<1>6. UNCHANGED poolVars => UNCHANGED thread_workers_
  BY DEF poolVars
<1>7. UNCHANGED vars => UNCHANGED thread_workers_
  BY DEF vars, poolVars
<1> QED
  BY <1>2, <1>3, <1>4, <1>5, <1>6, <1>7 DEF TPNext, Gone

\* A worker that never starts remains one that never starts.
LEMMA NeverStartsIsForEver ==
  ASSUME NobodyRemoves, TPInv, KeepsPriorities, [TPNext]_vars, NEW w \in Worker, NeverStarts(w)
  PROVE  NeverStarts(w)' \/ Destroyed'
<1>1. priorities_' = priorities_
  BY PrioritiesAreKept DEF KeepsPriorities
<1>2. thread_' \in [Worker -> BOOLEAN]
  BY TPNextInv DEF TPInv, WInv, WTypeOK
<1> QED
  BY <1>1, <1>2, PromisesAreUsedOnce, MembersStay DEF NeverStarts

\* A stop() begins at the first worker.
LEMMA StopBeginsAtZero ==
  ASSUME TPInv, StopWalk, [TPNext]_vars, NEW c \in Client, at[c] # "stop", at'[c] = "stop"
  PROVE  \/ StopClear(c)
         \/ working_ /\ \E b \in BOOLEAN : StopBegin(c, b)
<1>1. at \in [Client -> Places]
  BY DEF TPInv, OwnTypes
<1>2. CASE Invoke(c)
  BY <1>1, <1>2 DEF Invoke, Push, StartBegin, Add, PauseBegin, RemoveBegin, SetLock,
                    DestroyBegin, Moves, StopBegin, poolVars
<1>3. CASE Continue(c)
  BY <1>1, <1>3
     DEF Continue, StartWorker, StartFails, StartEnd, AddStarts, AddEnd, PauseWorker, PauseEnd,
         RemoveAcquire, RemovePriority, RemoveSignals, RemoveStopped, RemoveEnd, StopWorker,
         StopFails, StopUnlock, StopEnd, DestroyStops, DestroyWorker, DestroyEnd, Moves,
         AfterStop, poolVars
<1> QED
  BY <1>2, <1>3, OnlyOwnMoves

\* While a worker that never starts is still before it, a stop() does not pass.
LEMMA StopWillFailStays ==
  ASSUME NobodyRemoves, PoolInv, KeepsPriorities, [TPNext]_vars, StopWillFail
  PROVE  StopWillFail' \/ Destroyed'
<1> USE DEF PoolInv
<1>1. /\ at \in [Client -> Places] /\ cursor \in Nat /\ Worker \subseteq Nat
      /\ thread_workers_ \subseteq Worker
  BY PoolAssumption DEF TPInv, OwnTypes
<1>2. PICK v \in Worker : NeverStarts(v) /\ ((\E c \in Client : at[c] = "stop") => v >= cursor)
  BY DEF StopWillFail
<1>3. NeverStarts(v)' \/ Destroyed'
  BY <1>2, NeverStartsIsForEver
<1>4. ASSUME NEW c \in Client, at'[c] = "stop", at[c] # "stop" PROVE v >= cursor'
  <2>1. cursor' = 0
    BY <1>1, <1>4, StopBeginsAtZero DEF StopClear, StopBegin, Moves, Acquire, StopWalk
  <2> QED
    BY <1>1, <2>1
<1>5. ASSUME NEW c \in Client, at'[c] = "stop", at[c] = "stop" PROVE v >= cursor'
  <2>1. v >= cursor
    BY <1>2, <1>5
  <2>2. CASE ~Continue(c)
    BY <1>5, <2>1, <2>2, OwnerIsUndisturbed DEF Undisturbed, Holding
  <2>3. CASE Continue(c)
    <3>1. StopWorker(c)
      BY <1>1, <1>5, <2>3
         DEF Continue, StartWorker, StartFails, StartEnd, AddStarts, AddEnd, PauseWorker, PauseEnd,
             RemoveAcquire, RemovePriority, RemoveSignals, RemoveStopped, RemoveEnd, StopClear,
             StopFails, StopUnlock, StopEnd, DestroyStops, DestroyWorker, DestroyEnd, Moves,
             AfterStop
    <3>2. PICK u \in Worker : /\ Current(u)
                              /\ \/ SignalStop(u) /\ Stay
                                 \/ Join(u) /\ Advance(u)
      BY <3>1 DEF StopWorker
    <3>3. CASE SignalStop(u) /\ Stay
      BY <2>1, <3>3 DEF Stay
    <3>4. CASE Join(u) /\ Advance(u)
      <4>1. thread_[u] /\ cursor' = u + 1
        BY <3>4 DEF Join, Advance, MembersInv, CallsHaveCallers
      <4>2. v # u /\ v \in thread_workers_ /\ ~(v < cursor)
        BY <1>1, <1>2, <2>1, <4>1 DEF NeverStarts
      <4>3. ~(v < u)
        BY <3>2, <4>2 DEF Current
      <4> QED
        BY <1>1, <4>1, <4>2, <4>3
    <3> QED
      BY <3>2, <3>3, <3>4
  <2> QED
    BY <2>2, <2>3
<1> QED
  BY <1>3, <1>4, <1>5 DEF StopWillFail

\* What has been tried once has been tried for ever.
LEMMA TriedIsForEver ==
  ASSUME NobodyRemoves, PoolInv, KeepsPriorities, [TPNext]_vars, NEW w \in Worker, Tried(w)
  PROVE  Tried(w)'
<1> USE DEF PoolInv
<1>1. priorities_' = priorities_
  BY PrioritiesAreKept DEF KeepsPriorities
<1>2. CASE promise_[w] # "fresh" \/ DOMAIN priorities_[w] = {}
  BY <1>1, <1>2, PromisesAreUsedOnce DEF Tried
<1>3. ASSUME NEW c \in Client, at[c] = "add", arg[c] = w PROVE Tried(w)'
  <2>1. CASE ~Continue(c)
    BY <1>3, <2>1, OwnerIsUndisturbed DEF Undisturbed, Holding, Tried
  <2>2. CASE Continue(c)
    <3>1. AddStarts(c) \/ AddEnd(c)
      BY <1>3, <2>2
         DEF Continue, StartWorker, StartFails, StartEnd, PauseWorker, PauseEnd, RemoveAcquire,
             RemovePriority, RemoveSignals, RemoveStopped, RemoveEnd, StopClear, StopWorker,
             StopFails, StopUnlock, StopEnd, DestroyStops, DestroyWorker, DestroyEnd, Moves
    <3>2. CASE AddStarts(c)
      BY <1>3, <3>2 DEF AddStarts, poolVars, Tried
    <3>3. CASE AddEnd(c)
      <4>1. CASE StartReturn(w) \/ CannotStart(w)
        <5>1. promise_[w] # "fresh" \/ DOMAIN priorities_[w] = {}
          BY <4>1 DEF StartReturn, CannotStart
        <5> QED
          BY <1>1, <5>1, PromisesAreUsedOnce DEF Tried
      <4>2. CASE StartGivesUp(w)
        BY <4>2 DEF StartGivesUp, Tried, TPInv, WInv, WTypeOK
      <4> QED
        BY <1>3, <3>3, <4>1, <4>2 DEF AddEnd
    <3> QED
      BY <3>1, <3>2, <3>3
  <2> QED
    BY <2>1, <2>2
<1> QED
  BY <1>2, <1>3 DEF Tried

\* Every worker of a pool that is working, or being stopped, has been tried;
\* so has every worker that start() has walked past.
LEMMA StartWalkNext ==
  ASSUME NobodyRemoves, PoolInv, KeepsPriorities, StartWalk, [TPNext]_vars
  PROVE  StartWalk'
<1> USE DEF PoolInv
<1> DEFINE Started == working_ \/ \E c \in Client : at[c] \in {"destroy", "clear", "stop"}
<1>1. /\ at \in [Client -> Places] /\ cursor \in Nat /\ Worker \subseteq Nat
      /\ thread_workers_ \subseteq Worker /\ working_ \in BOOLEAN
      /\ arg \in [Client -> Worker \cup Priority \cup {Nobody}]
      /\ thread_workers_' \subseteq Worker /\ cursor' \in Nat
  BY PoolAssumption, TPNextInv DEF TPInv, OwnTypes
<1>2. \A w \in Worker : Tried(w) => Tried(w)'
  BY TriedIsForEver
<1>3. ASSUME NEW c \in Client, NEW w \in Worker, Add(c, w)
      PROVE  /\ Started' => Started /\ Tried(w)'
             /\ thread_workers_' = thread_workers_ \cup {w}
             /\ \A d \in Client : at'[d] # "start"
  <2>1. mutex_ = Nobody /\ destroyer = Nobody /\ at[c] = "idle"
    BY <1>3 DEF Add, MayCall
  <2>2. \A d \in Client : at[d] \notin Holding /\ at[d] \notin {"destroy"}
    BY <2>1, PoolAssumption DEF CallsInv, OneCallEach, DestroyerIsAlone
  <2>3. CASE working_
    <3>1. at'[c] = "add" /\ arg'[c] = w
      BY <1>1, <1>3, <2>3 DEF Add, Moves
    <3>2. Tried(w)'
      BY <3>1 DEF Tried
    <3>3. \A d \in Client : at'[d] # "start"
      BY <1>1, <1>3, <2>2, <2>3 DEF Add, Moves, Holding
    <3> QED
      BY <1>3, <2>3, <3>2, <3>3 DEF Add
  <2>4. CASE ~working_
    BY <1>3, <2>2, <2>4 DEF Add, Holding
  <2> QED
    BY <1>1, <2>3, <2>4
<1>4. ASSUME NEW c \in Client, at[c] # "start", at'[c] = "start", NEW w \in Worker
      PROVE  ~(w < cursor')
  <2>1. CASE Invoke(c)
    <3>1. StartBegin(c)
      BY <1>1, <1>4, <2>1 DEF Invoke, Push, StartBegin, Add, PauseBegin, RemoveBegin, StopBegin,
                              SetLock, DestroyBegin, Moves, poolVars
    <3> QED
      BY <1>1, <3>1 DEF StartBegin, Acquire
  <2>2. ~Continue(c)
    BY <1>1, <1>4 DEF Continue, StartWorker, StartFails, StartEnd, AddStarts, AddEnd, PauseWorker,
         PauseEnd, RemoveAcquire, RemovePriority, RemoveSignals, RemoveStopped, RemoveEnd, StopClear,
         StopWorker, StopFails, StopUnlock, StopEnd, DestroyStops, DestroyWorker, DestroyEnd, Moves,
         AfterStop, poolVars
  <2> QED
    BY <1>4, <2>1, <2>2, OnlyOwnMoves
<1>5. ASSUME NEW c \in Client, at[c] = "start", at'[c] = "start", NEW w \in thread_workers_',
             w < cursor'
      PROVE  Tried(w)'
  <2>1. CASE ~Continue(c)
    BY <1>1, <1>2, <1>5, <2>1, OwnerIsUndisturbed DEF Undisturbed, Holding, StartWalk
  <2>2. CASE Continue(c)
    <3>1. StartWorker(c)
      BY <1>1, <1>5, <2>2
         DEF Continue, StartFails, StartEnd, AddStarts, AddEnd, PauseWorker, PauseEnd,
             RemoveAcquire, RemovePriority, RemoveSignals, RemoveStopped, RemoveEnd, StopClear,
             StopWorker, StopFails, StopUnlock, StopEnd, DestroyStops, DestroyWorker, DestroyEnd,
             Moves
    <3>2. PICK v \in Worker : /\ Current(v)
                              /\ \/ Stay
                                 \/ StartReturn(v) /\ Advance(v)
      BY <3>1 DEF StartWorker
    <3>3. w \in thread_workers_ /\ w \in Worker
      BY <1>1, <1>5, <3>1 DEF StartWorker, UnchangedMembers
    <3>4. CASE Stay
      BY <1>2, <1>5, <3>3, <3>4 DEF Stay, StartWalk
    <3>5. CASE StartReturn(v) /\ Advance(v)
      <4>1. cursor' = v + 1 /\ promise_[v] # "fresh"
        BY <3>5 DEF StartReturn, Advance
      <4>2. w = v \/ w < cursor
        BY <1>1, <1>5, <3>2, <3>3, <4>1 DEF Current
      <4>3. Tried(w)
        BY <1>5, <3>3, <4>1, <4>2 DEF StartWalk, Tried
      <4> QED
        BY <1>2, <3>3, <4>3
    <3> QED
      BY <3>2, <3>4, <3>5
  <2> QED
    BY <2>1, <2>2
<1>6. ASSUME NEW c \in Client, StartEnd(c) PROVE \A w \in thread_workers_ : Tried(w)
  BY <1>1, <1>6 DEF StartEnd, Moves, Walked, StartWalk
<1>7. ASSUME \A c \in Client : ~StartEnd(c), \A c \in Client, w \in Worker : ~Add(c, w)
      PROVE  (Started' => Started) /\ thread_workers_' \subseteq thread_workers_
  <2>1. ASSUME NEW c \in Client, at'[c] \in {"destroy", "clear", "stop"},
               at[c] \notin {"destroy", "clear", "stop"}
        PROVE  working_
    <3>1. ~Continue(c)
      BY <1>1, <2>1 DEF Continue, StartWorker, StartFails, StartEnd, AddStarts, AddEnd,
           PauseWorker, PauseEnd, RemoveAcquire, RemovePriority, RemoveSignals, RemoveStopped,
           RemoveEnd, StopClear, StopWorker, StopFails, StopUnlock, StopEnd, DestroyStops,
           DestroyWorker, DestroyEnd, Moves, AfterStop, poolVars
    <3>2. CASE Invoke(c)
      BY <1>1, <2>1, <3>2 DEF Invoke, Push, StartBegin, Add, PauseBegin, RemoveBegin, StopBegin,
                              SetLock, DestroyBegin, Moves, poolVars
    <3> QED
      BY <2>1, <3>1, <3>2, OnlyOwnMoves
  <2>2. (working_' => working_) /\ thread_workers_' \subseteq thread_workers_
    <3> USE DEF UnchangedMembers
    <3>1. ASSUME NEW c \in Client, Invoke(c) PROVE UNCHANGED <<working_, thread_workers_>>
      BY <1>7, <3>1 DEF Invoke, Push, StartBegin, PauseBegin, RemoveBegin, StopBegin, SetLock,
                        DestroyBegin, poolVars
    <3>2. ASSUME NEW c \in Client, Continue(c)
          PROVE  (working_' => working_) /\ thread_workers_' \subseteq thread_workers_
      <4>1. CASE RemoveEnd(c)
        <5>1. thread_workers_' = {w \in thread_workers_ : DOMAIN priorities_[w] # {}}
              /\ working_' = working_
          BY <4>1 DEF RemoveEnd
        <5> QED
          BY <5>1
      <4>2. CASE DestroyEnd(c) \/ StopEnd(c)
        <5>1. \/ working_' = working_ /\ thread_workers_' = {}
              \/ working_' = FALSE /\ thread_workers_' = thread_workers_
          BY <4>2 DEF DestroyEnd, StopEnd
        <5> QED
          BY <5>1
      <4>3. CASE ~RemoveEnd(c) /\ ~DestroyEnd(c) /\ ~StopEnd(c)
        <5>1. UNCHANGED <<working_, thread_workers_>>
          BY <1>7, <3>2, <4>3 DEF Continue, StartWorker, StartFails, AddStarts, AddEnd,
               PauseWorker, PauseEnd, RemoveAcquire, RemovePriority, RemoveSignals, RemoveStopped,
               StopClear, StopWorker, StopFails, StopUnlock, DestroyStops, DestroyWorker, poolVars
        <5> QED
          BY <5>1
      <4> QED
        BY <4>1, <4>2, <4>3
    <3>3. ASSUME NEW t \in Thread, Notify(t) PROVE UNCHANGED <<working_, thread_workers_>>
      BY <3>3 DEF Notify, Insert, NotifyBegin, NotifyWorker, NotifyEnd
    <3>4. ASSUME NEW w \in Worker, Run(w) PROVE UNCHANGED <<working_, thread_workers_>>
      BY <3>4 DEF Run
    <3>5. UNCHANGED poolVars \/ UNCHANGED vars => UNCHANGED <<working_, thread_workers_>>
      BY DEF poolVars, vars
    <3> QED
      BY <3>1, <3>2, <3>3, <3>4, <3>5 DEF TPNext, Gone
  <2> QED
    BY <2>1, <2>2
<1>8. Started' => \A w \in thread_workers_' : Tried(w)'
  <2> HIDE DEF Started
  <2>1. Started => \A w \in thread_workers_ : Tried(w)
    BY DEF StartWalk, Started
  <2>2. ASSUME NEW c \in Client, StartEnd(c) PROVE \A w \in thread_workers_' : Tried(w)'
    BY <1>1, <1>2, <1>6, <2>2 DEF StartEnd
  <2>3. ASSUME NEW c \in Client, NEW v \in Worker, Add(c, v), Started'
        PROVE  \A w \in thread_workers_' : Tried(w)'
    BY <1>1, <1>2, <1>3, <2>1, <2>3
  <2>4. ASSUME \A c \in Client : ~StartEnd(c), \A c \in Client, w \in Worker : ~Add(c, w), Started'
        PROVE  \A w \in thread_workers_' : Tried(w)'
    BY <1>1, <1>2, <1>7, <2>1, <2>4
  <2> QED
    BY <2>2, <2>3, <2>4
<1> QED
  BY <1>1, <1>4, <1>5, <1>8 DEF StartWalk

\* Which steps of a worker lead to its losing a job.
LEMMA PopLeadsOn ==
  ASSUME TPInv, [TPNext]_vars, NEW w \in Worker
  PROVE  /\ pc'[w] = "null" /\ pc[w] # "null" => TakeNull(w)
         /\ pc'[w] = "pop" /\ pc[w] # "pop" => CountAll(w) \/ CountOne(w)
         /\ w \in gave_up' \ gave_up => pc[w] = "null"
<1> DEFINE Enters == /\ pc'[w] = "null" /\ pc[w] # "null" => TakeNull(w)
                     /\ pc'[w] = "pop" /\ pc[w] # "pop" => CountAll(w) \/ CountOne(w)
<1>1. pc \in [Worker -> Steps]
  BY DEF TPInv, WInv, WTypeOK
<1>2. ASSUME NEW v \in Worker, RunStep(v) PROVE Enters
  <2>1. CASE v # w
    BY <1>1, <1>2, <2>1 DEF RunStep, Begin, AcquireAndCheck, CountAll, CountOne, TakeJob, TakeNull,
                            AfterNull, FinishJob, Exit, Goto
  <2>2. CASE v = w /\ ~CountAll(w) /\ ~CountOne(w) /\ ~TakeNull(w)
    BY <1>1, <1>2, <2>2 DEF RunStep, Begin, AcquireAndCheck, TakeJob, AfterNull, FinishJob, Exit,
                            Goto
  <2>3. CASE v = w /\ TakeNull(w)
    BY <1>1, <2>3 DEF TakeNull, Goto
  <2>4. CASE v = w /\ (CountAll(w) \/ CountOne(w))
    BY <1>1, <2>4 DEF CountAll, CountOne, Goto
  <2> QED
    BY <2>1, <2>2, <2>3, <2>4
<1>3. ASSUME NEW v \in Worker, WorkerCall(v) PROVE Enters
  BY <1>1, <1>3 DEF WorkerCall, SignalStop, Join, StartGivesUp, StartThread, StartReturn, Pause,
                    NotifyOne, SetPriorities, Wake, Goto
<1>4. ASSUME NEW v \in Worker, SpuriousWake(v) PROVE Enters
  BY <1>1, <1>4 DEF SpuriousWake, Goto
<1>5. ASSUME NEW v \in Worker, NEW j \in Job, WorkPushes(v, j) PROVE Enters
  BY <1>5 DEF WorkPushes, workerVars
<1>6. PoolCall \/ UNCHANGED allWorkerVars => Enters
  BY DEF PoolCall, allWorkerVars, workerVars
<1>7. Enters
  BY <1>2, <1>3, <1>4, <1>5, <1>6, PoolRefinesWorkers DEF WNext
<1>8. w \in gave_up' \ gave_up => pc[w] = "null"
  <2> USE DEF UnchangedMembers, UnchangedHistory, poolVars
  <2>1. ASSUME NEW c \in Client, Invoke(c) PROVE UNCHANGED gave_up
    BY <2>1 DEF Invoke, Push, StartBegin, Add, PauseBegin, RemoveBegin, StopBegin, SetLock,
                DestroyBegin
  <2>2. ASSUME NEW c \in Client, Continue(c) PROVE UNCHANGED gave_up
    BY <2>2 DEF Continue, StartWorker, StartFails, StartEnd, AddStarts, AddEnd, PauseWorker,
         PauseEnd, RemoveAcquire, RemovePriority, RemoveSignals, RemoveStopped, RemoveEnd,
         StopClear, StopWorker, StopFails, StopUnlock, StopEnd, DestroyStops, DestroyWorker,
         DestroyEnd
  <2>3. ASSUME NEW t \in Thread, Notify(t) PROVE UNCHANGED gave_up
    BY <2>3 DEF Notify, Insert, NotifyBegin, NotifyWorker, NotifyEnd
  <2>4. ASSUME NEW v \in Worker, Run(v), w \in gave_up' \ gave_up PROVE pc[w] = "null"
    BY <2>4 DEF Run
  <2>5. UNCHANGED vars => UNCHANGED gave_up
    BY DEF vars
  <2> QED
    BY <2>1, <2>2, <2>3, <2>4, <2>5 DEF TPNext, Gone
<1> QED
  BY <1>7, <1>8

\* A worker gives up in its thread, which is a member's and used its promise.
LEMMA GaveUpHereNext ==
  ASSUME PoolInv, KeepsPriorities, GaveUpHere, [TPNext]_vars
  PROVE  GaveUpHere'
<1> USE DEF PoolInv
<1>1. ASSUME NEW w \in gave_up, w \in Worker PROVE promise_'[w] # "fresh"
  BY <1>1, PromisesAreUsedOnce DEF GaveUpHere
<1>2. Destroyed => Destroyed'
  BY DestroyedIsTheEnd DEF Destroyed, vars, poolVars
<1>3. ASSUME NEW w \in gave_up PROVE w \in thread_workers_' \/ Destroyed'
  BY <1>2, <1>3, MembersStay DEF GaveUpHere
<1>4. ASSUME NEW w \in gave_up' \ gave_up
      PROVE  /\ w \in Worker /\ promise_'[w] # "fresh"
             /\ w \in thread_workers_' \/ Destroyed'
  <2>1. w \in Worker /\ pc[w] = "null"
    BY <1>4, PopLeadsOn, TPNextInv DEF TPInv, OwnTypes
  <2>2. promise_[w] # "fresh" /\ w \in thread_workers_
    BY <2>1 DEF TPInv, WInv, ThreadLifecycle, MembersInv, ThreadsAreMembers
  <2> QED
    BY <2>1, <2>2, PromisesAreUsedOnce, MembersStay
<1>5. gave_up \subseteq Worker
  BY DEF TPInv, OwnTypes
<1> QED
  BY <1>1, <1>3, <1>4, <1>5 DEF GaveUpHere

\* A queue is emptied by a pop of a worker that serves it, by a stop(true) or
\* by the end of the pool.
LEMMA QueuesAreEmptiedBy ==
  ASSUME NobodyRemoves, TPInv, [TPNext]_vars, NEW p \in Priority, HasQueued(p), ~HasQueued(p)'
  PROVE  \/ \E v \in Worker : pc[v] = "pop" /\ pc'[v] = "work" /\ p \in Listed(priorities_[v])
         \/ \E c \in Client : StopClear(c) \/ DestroyEnd(c)
<1>1. /\ job_queues_ \in [Priority -> Seq(Job)] /\ pc \in [Worker -> Steps]
      /\ push_job \in [Thread -> Job \cup {NoJob}]
      /\ \A t \in Thread : push_at[t] # "idle" => push_job[t] \in Job
  BY DEF TPInv, WInv, WTypeOK, JPInv, JPTypeOK, PushesAreApart
<1>2. UNCHANGED job_queues_ => FALSE
  BY DEF HasQueued
<1>3. ASSUME NEW c \in Client, Invoke(c) PROVE FALSE
  <2>1. \A q \in Priority : ~RemoveBegin(c, q)
    BY DEF RemoveBegin, MayCall, NobodyRemoves
  <2> QED
    BY <1>2, <1>3, <2>1 DEF Invoke, Push, PushCheck, StartBegin, Add, Pause, PauseBegin, StopBegin,
                            SetLock, Lock, DestroyBegin, jobPoolVars
<1>4. ASSUME NEW c \in Client, Continue(c) PROVE StopClear(c) \/ DestroyEnd(c)
  BY <1>2, <1>4
     DEF Continue, StartWorker, StartFails, StartEnd, AddStarts, AddEnd, PauseWorker, PauseEnd,
         RemoveAcquire, RemovePriority, RemoveSignals, RemoveStopped, RemoveEnd, StopWorker,
         StopFails, StopUnlock, StopEnd, DestroyStops, DestroyWorker, Lock, SignalStop, Join,
         StartThread, StartReturn, StartGivesUp, SetPriorities, Pause, jobPoolVars, allWorkerVars
<1>5. ASSUME NEW t \in Thread, Notify(t) PROVE FALSE
  <2>1. CASE Insert(t)
    <3>1. push_job[t] \in Job /\ priority[push_job[t]] \in Priority
      BY <1>1, <2>1, PriorityAssumption DEF Insert, PushInsert
    <3>2. job_queues_' = [job_queues_ EXCEPT ![priority[push_job[t]]] = Append(@, push_job[t])]
      BY <2>1 DEF Insert, PushInsert
    <3>3. job_queues_'[p] = job_queues_[p] \/ job_queues_'[p] = Append(job_queues_[p], push_job[t])
      BY <1>1, <3>1, <3>2
    <3>4. Append(job_queues_[p], push_job[t]) # <<>>
      BY <1>1, <3>1
    <3> QED
      BY <3>3, <3>4 DEF HasQueued
  <2>2. CASE NotifyBegin(t) \/ NotifyWorker(t) \/ NotifyEnd(t)
    BY <1>2, <2>2 DEF NotifyBegin, NotifyWorker, NotifyEnd, NotifyOne, PushReturn, jobPoolVars,
                      allWorkerVars
  <2> QED
    BY <1>5, <2>1, <2>2 DEF Notify
<1>6. ASSUME NEW v \in Worker, Run(v)
      PROVE  pc[v] = "pop" /\ pc'[v] = "work" /\ p \in Listed(priorities_[v])
  <2>1. PICK j \in Job : TakeJob(v, j)
    BY <1>2, <1>6 DEF Run, RunStep, Begin, AcquireAndCheck, CountAll, CountOne, TakeNull, PopNull,
                      AfterNull, FinishJob, Exit, jobPoolVars
  <2>2. PICK i \in DOMAIN priorities_[v] :
          job_queues_' = [job_queues_ EXCEPT ![priorities_[v][i]] = Tail(@)]
    BY <2>1 DEF TakeJob, Pop
  <2>3. p = priorities_[v][i]
    BY <1>1, <2>2 DEF HasQueued
  <2> QED
    BY <1>1, <2>1, <2>3 DEF TakeJob, Goto, Listed
<1>7. ASSUME NEW w \in Worker, SpuriousWake(w) PROVE FALSE
  BY <1>2, <1>7 DEF SpuriousWake, jobPoolVars
<1>8. ASSUME NEW w \in Worker, NEW j \in Job, WorkPushes(w, j) PROVE FALSE
  BY <1>2, <1>8 DEF WorkPushes, PushCheck
<1>9. UNCHANGED vars => FALSE
  BY <1>2 DEF vars, jobPoolVars
<1> QED
  BY <1>3, <1>4, <1>5, <1>6, <1>7, <1>8, <1>9 DEF TPNext, Gone

\* A worker comes to lose a job that it has counted only to a stop(true), which
\* then has nothing left to wait for, or to the end of the pool.
LEMMA LosersAreNew ==
  ASSUME NobodyRemoves, NoneShared, PoolInv, KeepsPriorities, [TPNext]_vars,
         NEW w \in Worker, ~Loses(w), Loses(w)'
  PROVE  \/ (\E c \in Client : at'[c] = "stop") /\ Drained(w)'
         \/ Destroyed'
<1> USE DEF PoolInv
<1>1. /\ pc \in [Worker -> Steps] /\ pc' \in [Worker -> Steps]
      /\ at \in [Client -> Places]
      /\ priorities_' = priorities_ /\ priorities_ = InitialPriorities
      /\ priorities_ \in [Worker -> PriorityList]
  BY TPNextInv, PrioritiesAreKept DEF TPInv, OwnTypes, WInv, WTypeOK, KeepsPriorities
<1>2. Listed(priorities_[w]) \subseteq Priority
  BY <1>1, ListAssumption DEF Listed, IsList
<1>3. CASE pc[w] = "pop"
  <2>1. PICK p \in Listed(priorities_[w]) : HasQueued(p)
    BY <1>3 DEF Loses, FindsNone
  <2>2. ~TakeNull(w)
    BY <2>1 DEF TakeNull, PopNull, HasQueued, Listed
  <2>3. pc'[w] # "null" /\ w \notin gave_up'
    BY <1>1, <1>3, <2>2, PopLeadsOn DEF Loses
  <2>4. pc'[w] = "pop" /\ FindsNone(w)'
    BY <2>3 DEF Loses
  <2>5. ~HasQueued(p)'
    BY <1>1, <2>1, <2>4 DEF FindsNone, Listed
  <2>6. ASSUME NEW v \in Worker, pc[v] = "pop", pc'[v] = "work", p \in Listed(priorities_[v])
        PROVE  FALSE
    <3>1. v # w
      BY <2>4, <2>6
    <3> QED
      BY <1>1, <2>1, <2>6, <3>1 DEF NoneShared
  <2>7. PICK c \in Client : StopClear(c) \/ DestroyEnd(c)
    BY <1>2, <2>1, <2>5, <2>6, QueuesAreEmptiedBy
  <2>8. CASE DestroyEnd(c)
    BY <1>1, <2>8 DEF DestroyEnd, Moves, Destroyed
  <2>9. CASE StopClear(c)
    <3>1. at'[c] = "stop" /\ Emptied(Priority)
      BY <1>1, <2>9 DEF StopClear, Moves, Clear, ClearQueues
    <3>2. Queued' = {}
      BY <3>1, PriorityAssumption DEF Emptied, Queued
    <3>3. Drained(w)'
      BY <3>2 DEF Drained, Owed
    <3> QED
      BY <3>1, <3>3
  <2> QED
    BY <2>7, <2>8, <2>9
<1>4. CASE pc[w] # "pop"
  <2>1. CountAll(w) \/ CountOne(w)
    BY <1>1, <1>4, PopLeadsOn DEF Loses, TakeNull
  <2>2. thread_[w] /\ pc[w] = "count"
    BY <2>1 DEF CountAll, CountOne, TPInv, WInv, ThreadLifecycle
  <2>3. DOMAIN priorities_[w] # {}
    BY <2>2 DEF MembersInv, ThreadsAreMembers, KeepsPriorities
  <2>4. CountOne(w)
    BY <2>1, <2>3 DEF CountAll
  <2>5. PICK i \in ToCount(w) :
          IF ~HasQueued(priorities_[w][i]) /\ ToCount(w) # {i}
          THEN counted' = [counted EXCEPT ![w] = @ \cup {i}] /\ UNCHANGED pc
          ELSE /\ counted' = [counted EXCEPT ![w] = {}]
               /\ Goto(w, IF HasQueued(priorities_[w][i]) THEN "pop"
                          ELSE IF thread_stop_[w] THEN "exit" ELSE "asleep")
    BY <2>4 DEF CountOne
  <2>6. pc'[w] # "null" /\ w \notin gave_up'
    BY <1>1, <1>4, <2>2, PopLeadsOn DEF Loses, TakeNull
  <2>7. pc'[w] = "pop" /\ FindsNone(w)'
    BY <2>6 DEF Loses
  <2>8. HasQueued(priorities_[w][i])
    BY <1>1, <2>2, <2>5, <2>7 DEF Goto
  <2>9. job_queues_' = job_queues_ /\ priorities_[w][i] \in Listed(priorities_[w])
    BY <2>4, <2>5 DEF CountOne, jobPoolVars, ToCount, Listed
  <2> QED
    BY <1>1, <2>7, <2>8, <2>9 DEF FindsNone, HasQueued
<1> QED
  BY <1>3, <1>4

\* What a worker that has lost a job can say of the stop() in progress, and of
\* those to come.
LEMMA LosersAreClearedNext ==
  ASSUME NobodyRemoves, NoneShared, DrainInv, [TPNext]_vars
  PROVE  LosersAreCleared'
<1> USE DEF DrainInv, PoolInv
<1>1. /\ at \in [Client -> Places] /\ cursor \in Nat /\ Worker \subseteq Nat
      /\ thread_workers_ \subseteq Worker /\ TPInv' /\ CallsInv'
  BY PoolAssumption, TPNextInv, CallsNext DEF TPInv, OwnTypes
<1> SUFFICES ASSUME NEW w \in Worker, Loses(w)'
             PROVE  \/ (\E c \in Client : at'[c] = "stop") /\ Drained(w)'
                    \/ StopWillFail'
                    \/ Destroyed'
  BY DEF LosersAreCleared
<1>2. CASE ~Loses(w)
  BY <1>2, LosersAreNew
<1>3. CASE Loses(w) /\ Destroyed
  BY <1>3, DestroyedIsTheEnd DEF Destroyed, vars, poolVars
<1>4. CASE StopWillFail
  BY <1>4, StopWillFailStays
<1>5. ASSUME NEW c \in Client, at[c] = "stop", Drained(w), Loses(w)
      PROVE  \/ at'[c] = "stop" /\ Drained(w)'
             \/ StopWillFail'
  <2>1. CASE at'[c] = "stop"
    <3>1. Owed' \subseteq Owed
      BY <1>5, NoNewDebts DEF Stopping
    <3>2. priorities_' = priorities_
      BY PrioritiesAreKept DEF KeepsPriorities
    <3>3. Drained(w)'
      BY <1>5, <3>1, <3>2 DEF Drained
    <3> QED
      BY <2>1, <3>3
  <2>2. CASE at'[c] # "stop"
    <3>1. StopFails(c) \/ StopUnlock(c)
      <4>1. Continue(c)
        BY <1>5, <2>2, OwnerIsUndisturbed DEF Undisturbed, Holding
      <4> QED
        BY <1>1, <1>5, <2>2, <4>1
           DEF Continue, StartWorker, StartFails, StartEnd, AddStarts, AddEnd, PauseWorker,
               PauseEnd, RemoveAcquire, RemovePriority, RemoveSignals, RemoveStopped, RemoveEnd,
               StopClear, StopWorker, StopEnd, DestroyStops, DestroyWorker, DestroyEnd, Moves,
               UnchangedMembers
    <3>2. \A d \in Client : at'[d] # "stop"
      <4>1. \A d \in Client : d # c => at[d] # "stop" /\ at'[d] = at[d]
        <5>1. \A d \in Client : d # c => at[d] # "stop"
          BY <1>5, PoolAssumption DEF CallsInv, OneCallEach, Holding
        <5>2. \A d \in Client : d # c => at'[d] = at[d]
          BY <1>1, <3>1 DEF StopFails, StopUnlock, Moves
        <5> QED
          BY <5>1, <5>2
      <4> QED
        BY <2>2, <4>1
    <3>3. UNCHANGED <<thread_workers_, thread_, promise_, priorities_, gave_up, pc>>
      BY <3>1 DEF StopFails, StopUnlock, UnchangedMembers, UnchangedHistory, workerVars
    <3>4. \E v \in Worker : NeverStarts(v)
      <4>1. CASE StopFails(c)
        <5>1. PICK v \in Worker : Current(v) /\ ~thread_[v]
          BY <4>1 DEF StopFails
        <5>2. Tried(v) /\ v \in thread_workers_
          BY <1>5, <5>1 DEF StartWalk, Current
        <5>3. \A d \in Client : at[d] # "add"
          BY <1>5, PoolAssumption DEF CallsInv, OneCallEach, Holding
        <5> QED
          BY <5>1, <5>2, <5>3 DEF Tried, NeverStarts
      <4>2. CASE StopUnlock(c)
        <5>1. \A v \in thread_workers_ : ~thread_[v]
          BY <1>1, <1>5, <4>2 DEF StopUnlock, Walked, StopWalk
        <5>2. ~thread_[w]
          BY <5>1 DEF MembersInv, ThreadsAreMembers
        <5>3. w \in gave_up
          BY <1>5, <5>2 DEF Loses, TPInv, WInv, ThreadLifecycle
        <5>4. ~Destroyed
          BY <1>5, PoolAssumption DEF Destroyed, CallsInv, DestroyerIsAlone
        <5> QED
          BY <5>2, <5>3, <5>4 DEF GaveUpHere, NeverStarts
      <4> QED
        BY <3>1, <4>1, <4>2
    <3> QED
      BY <3>2, <3>3, <3>4 DEF StopWillFail, NeverStarts
  <2> QED
    BY <2>1, <2>2
<1> QED
  BY <1>2, <1>3, <1>4, <1>5 DEF LosersAreCleared

\* The invariant of a pool that nobody removes workers from and whose workers
\* share no priority.
LEMMA DrainInitInv == TPInit => DrainInv
<1> SUFFICES ASSUME TPInit PROVE DrainInv
  OBVIOUS
<1>1. PoolInv
  BY PoolInitInv
<1>2. /\ at = [c \in Client |-> "idle"] /\ working_ = FALSE /\ gave_up = {}
      /\ pc = [w \in Worker |-> "none"] /\ priorities_ = InitialPriorities
  BY DEF TPInit, WInit
<1>3. KeepsPriorities /\ StartWalk /\ GaveUpHere
  BY <1>2 DEF KeepsPriorities, StartWalk, GaveUpHere
<1>4. LosersAreCleared
  BY <1>2 DEF LosersAreCleared, Loses
<1> QED
  BY <1>1, <1>3, <1>4 DEF DrainInv

LEMMA DrainNextInv ==
  ASSUME NobodyRemoves, NoneShared, DrainInv, [TPNext]_vars
  PROVE  DrainInv'
<1> USE DEF DrainInv
<1>1. PoolInv'
  BY PoolNextInv
<1>2. KeepsPriorities'
  BY PrioritiesAreKept DEF PoolInv
<1>3. StartWalk' /\ GaveUpHere'
  BY StartWalkNext, GaveUpHereNext
<1>4. LosersAreCleared'
  BY LosersAreClearedNext
<1> QED
  BY <1>1, <1>2, <1>3, <1>4

\* A stop() that succeeds has worked off every job that the pool serves and
\* that was queued before it, in a pool that nobody calls remove_workers() of
\* and in which no two workers share a priority.
THEOREM GracefulStopLosesNothing ==
  NobodyRemoves /\ NoneShared /\ TPSpec => GracefulStopDrains
<1> DEFINE Step == \A c \in Client : at[c] = "stop" /\ at'[c] = "stopped" =>
                     \A j \in Queued \ late : ~Served(j)
<1> SUFFICES ASSUME NobodyRemoves, NoneShared PROVE TPSpec => GracefulStopDrains
  OBVIOUS
<1>1. ASSUME DrainInv, [TPNext]_vars, NEW c \in Client, at[c] = "stop", at'[c] = "stopped",
             NEW j \in Queued \ late, Served(j)
      PROVE  FALSE
  <2> USE DEF DrainInv, PoolInv
  <2>1. PICK w \in thread_workers_ : priority[j] \in Listed(priorities_[w])
    BY <1>1 DEF Served
  <2>2. Walked /\ w \in Worker /\ thread_workers_ \subseteq Worker
        /\ cursor \in Nat /\ Worker \subseteq Nat
    BY <1>1, StopSucceeds, PoolAssumption DEF StopUnlock, TPInv, OwnTypes
  <2>3. ~Drained(w)
    BY <1>1, <2>1 DEF Drained, Owed
  <2>4. w \in gave_up
    BY <1>1, <2>1, <2>2, <2>3 DEF Walked, StopDrain
  <2>5. ~Destroyed
    BY <1>1, PoolAssumption DEF Destroyed, CallsInv, DestroyerIsAlone
  <2>6. StopWillFail
    BY <1>1, <2>2, <2>3, <2>4, <2>5 DEF LosersAreCleared, Loses
  <2>7. PICK v \in Worker : v \in thread_workers_ /\ v >= cursor
    BY <1>1, <2>6 DEF StopWillFail, NeverStarts
  <2> QED
    BY <2>2, <2>7 DEF Walked
<1>2. DrainInv /\ [TPNext]_vars => [Step]_vars
  BY <1>1
<1>3. TPInit => DrainInv
  BY DrainInitInv
<1>4. DrainInv /\ [TPNext]_vars => DrainInv'
  BY DrainNextInv
<1> QED
  BY <1>2, <1>3, <1>4, PTL DEF TPSpec, GracefulStopDrains
=============================================================================
