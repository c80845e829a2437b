------------------------- MODULE ThreadWorkerProofs -------------------------
(***************************************************************************)
(* Theorems about JobPool.tla and ThreadWorker.tla, for every set of       *)
(* workers, threads, jobs, priorities and priority lists.                  *)
(*                                                                         *)
(* The invariant of the job pool is the conjunction of the type invariant, *)
(* of QueuesHoldTheQueued and of PushesAreApart: a push can only append a  *)
(* job that is in no queue because its fate is still "pushing", and that   *)
(* fate belongs to one thread.                                             *)
(*                                                                         *)
(* Every step of the workers and their callers is a step of the job pool or *)
(* leaves it alone, so what is proved of the pool holds of them; on top of *)
(* it the invariant says where a job is after pop(), what a stop request   *)
(* guarantees, and that a worker inside its critical section has not been  *)
(* paused since it looked.                                                 *)
(***************************************************************************)
EXTENDS ThreadWorker, SequenceTheorems, TLAPS

\* The jobs on their way in belong to one push call each, and to no queue.
PushesAreApart ==
  /\ \A t \in Thread : push_at[t] # "idle" => push_job[t] \in Job
  /\ \A t \in Thread : push_at[t] = "insert" => fate[push_job[t]] = "pushing"
  /\ \A t \in Thread : push_at[t] = "notify" => fate[push_job[t]] \notin {"new", "pushing"}
  /\ \A t, u \in Thread :
       push_at[t] # "idle" /\ push_at[u] # "idle" /\ push_job[t] = push_job[u] => t = u

JPInv ==
  /\ JPTypeOK
  /\ QueuesHoldTheQueued
  /\ PushesAreApart

-----------------------------------------------------------------------------
(* The effect on one queue of the two operations on it.                    *)

\* Appending a job that the queue does not hold: the queue holds the same jobs
\* and the new one, each once.
LEMMA AppendToQueue ==
  ASSUME NEW q \in Seq(Job), NEW j \in Job
  PROVE  /\ Append(q, j) \in Seq(Job)
         /\ Len(Append(q, j)) = Len(q) + 1
         /\ \A i \in 1 .. Len(q) : Append(q, j)[i] = q[i]
         /\ Append(q, j)[Len(q) + 1] = j
  BY AppendProperties

\* Removing the front of a queue moves every other job one place.
LEMMA TailOfQueue ==
  ASSUME NEW q \in Seq(Job), q # <<>>
  PROVE  /\ Tail(q) \in Seq(Job)
         /\ Len(q) \in Nat /\ Len(q) >= 1
         /\ Len(Tail(q)) = Len(q) - 1
         /\ \A i \in 1 .. Len(Tail(q)) : Tail(q)[i] = q[i + 1]
         /\ Head(q) = q[1] /\ q[1] \in Job
  BY HeadTailProperties, LenProperties, ElementOfSeq, EmptySeq

-----------------------------------------------------------------------------
(* The steps.                                                              *)

LEMMA JPInitInv == JPInit => JPInv
<1> SUFFICES ASSUME JPInit PROVE JPInv
  OBVIOUS
<1>1. JPTypeOK
  <2>1. <<>> \in Seq(Job)
    BY EmptySeq
  <2> QED
    BY <2>1 DEF JPInit, JPTypeOK, Fates
<1>2. QueuesHoldTheQueued
  <2>1. \A p \in Priority : Len(job_queues_[p]) = 0
    BY EmptySeq DEF JPInit
  <2> QED
    BY <2>1, PriorityAssumption DEF JPInit, QueuesHoldTheQueued
<1>3. PushesAreApart
  BY DEF JPInit, PushesAreApart
<1> QED
  BY <1>1, <1>2, <1>3 DEF JPInv

LEMMA PushCheckInv ==
  ASSUME JPInv, NEW t \in Thread, NEW j \in Job, PushCheck(t, j)
  PROVE  JPInv'
<1> USE DEF JPInv, PushCheck
<1>1. JPTypeOK'
  BY DEF JPTypeOK, Fates
<1>2. QueuesHoldTheQueued'
  <2>1. /\ QueuesHoldTheQueued /\ job_queues_' = job_queues_
        /\ \A k \in Job : fate'[k] = "queued" => fate[k] = "queued"
        /\ \A k \in Job : fate[k] = "queued" => fate'[k] = "queued"
    BY DEF JPTypeOK
  <2>2. \A p \in Priority : \A i \in 1 .. Len(job_queues_[p]) : job_queues_[p][i] \in Job
    BY ElementOfSeq DEF JPTypeOK
  <2> QED  BY ONLY <2>1, <2>2, PriorityAssumption DEF QueuesHoldTheQueued
<1>3. PushesAreApart'
  BY DEF JPTypeOK, PushesAreApart
<1> QED
  BY <1>1, <1>2, <1>3

LEMMA PushReturnInv ==
  ASSUME JPInv, NEW t \in Thread, PushReturn(t)
  PROVE  JPInv'
<1> USE DEF JPInv, PushReturn
<1>1. JPTypeOK'
  BY DEF JPTypeOK, Fates
<1>2. QueuesHoldTheQueued'
  BY DEF QueuesHoldTheQueued
<1>3. PushesAreApart'
  BY DEF JPTypeOK, PushesAreApart
<1> QED
  BY <1>1, <1>2, <1>3

LEMMA LockInv ==
  ASSUME JPInv, NEW condition \in BOOLEAN, Lock(condition)
  PROVE  JPInv'
  BY DEF JPInv, JPTypeOK, QueuesHoldTheQueued, PushesAreApart, Lock

LEMMA EmptiedInv ==
  ASSUME JPInv, NEW P \in SUBSET Priority, Emptied(P), lock_condition_' \in BOOLEAN
  PROVE  JPInv'
<1> USE DEF JPInv, Emptied
<1>1. JPTypeOK'
  BY EmptySeq DEF JPTypeOK, Fates
<1>2. QueuesHoldTheQueued'
  <2>1. \A p \in Priority :
          \/ job_queues_'[p] = job_queues_[p] /\ p \notin P
          \/ Len(job_queues_'[p]) = 0 /\ p \in P
    BY EmptySeq
  <2>2. \A p \in Priority \ P : \A i \in 1 .. Len(job_queues_[p]) :
          job_queues_[p][i] \in Job /\ fate'[job_queues_[p][i]] = "queued"
    BY PriorityAssumption, ElementOfSeq DEF JPTypeOK, QueuesHoldTheQueued
  <2>3. \A j \in Job : fate'[j] = "queued" => fate[j] = "queued" /\ priority[j] \notin P
    OBVIOUS
  <2> QED
    BY <2>1, <2>2, <2>3, PriorityAssumption DEF QueuesHoldTheQueued
<1>3. PushesAreApart'
  BY DEF JPTypeOK, PushesAreApart
<1> QED
  BY <1>1, <1>2, <1>3

LEMMA PushInsertInv ==
  ASSUME JPInv, NEW t \in Thread, PushInsert(t)
  PROVE  JPInv'
<1> USE DEF JPInv, PushInsert
<1> DEFINE j == push_job[t]
           q == job_queues_[priority[j]]
<1>1. /\ j \in Job /\ priority[j] \in Priority /\ q \in Seq(Job)
      /\ fate[j] = "pushing"
  BY PriorityAssumption DEF JPTypeOK, PushesAreApart
<1>2. /\ job_queues_'[priority[j]] = Append(q, j)
      /\ \A p \in Priority \ {priority[j]} : job_queues_'[p] = job_queues_[p]
      /\ fate'[j] = "queued"
      /\ \A k \in Job \ {j} : fate'[k] = fate[k]
  BY <1>1 DEF JPTypeOK
<1>3. JPTypeOK'
  BY <1>1, AppendToQueue DEF JPTypeOK, Fates
<1>4. QueuesHoldTheQueued'
  <2>1. \A p \in Priority : \A i \in 1 .. Len(job_queues_[p]) :
          job_queues_[p][i] \in Job /\ job_queues_[p][i] # j
    BY <1>1, ElementOfSeq DEF JPTypeOK, QueuesHoldTheQueued
  <2>2. Len(q) \in Nat
    BY <1>1, LenProperties
  <2>3. /\ Len(Append(q, j)) = Len(q) + 1
        /\ \A i \in 1 .. Len(q) : Append(q, j)[i] = q[i]
        /\ Append(q, j)[Len(q) + 1] = j
    BY <1>1, AppendToQueue
  <2>4. \A p \in Priority : \A i \in 1 .. Len(job_queues_'[p]) :
          /\ fate'[job_queues_'[p][i]] = "queued"
          /\ priority[job_queues_'[p][i]] = p
    BY <1>1, <1>2, <2>1, <2>2, <2>3 DEF QueuesHoldTheQueued
  <2>5. \A p \in Priority : \A i, k \in 1 .. Len(job_queues_'[p]) :
          job_queues_'[p][i] = job_queues_'[p][k] => i = k
    <3>1. \A p \in Priority : \A i, k \in 1 .. Len(job_queues_[p]) :
            job_queues_[p][i] = job_queues_[p][k] => i = k
      BY DEF QueuesHoldTheQueued
    <3>2. \A i, k \in 1 .. Len(Append(q, j)) : Append(q, j)[i] = Append(q, j)[k] => i = k
      <4>1. \A i \in 1 .. Len(q) : q[i] # j
        BY <1>1, <2>1
      <4>2. \A i, k \in 1 .. Len(q) : q[i] = q[k] => i = k
        BY <1>1, <3>1
      <4> HIDE DEF q, j
      <4> QED  BY ONLY <4>1, <4>2, <2>2, <2>3
    <3> QED  BY <1>2, <3>1, <3>2
  <2>6. \A k \in Job : fate'[k] = "queued" =>
          \E i \in 1 .. Len(job_queues_'[priority[k]]) : job_queues_'[priority[k]][i] = k
    <3> SUFFICES ASSUME NEW k \in Job, fate'[k] = "queued"
                 PROVE  \E i \in 1 .. Len(job_queues_'[priority[k]]) :
                          job_queues_'[priority[k]][i] = k
      OBVIOUS
    <3>1. CASE k = j
      BY <3>1, <1>2, <2>2, <2>3
    <3>2. CASE k # j
      <4>1. PICK i \in 1 .. Len(job_queues_[priority[k]]) : job_queues_[priority[k]][i] = k
        BY <3>2, <1>2 DEF QueuesHoldTheQueued
      <4>2. CASE priority[k] = priority[j]
        BY <4>1, <4>2, <1>2, <2>2, <2>3
      <4>3. CASE priority[k] # priority[j]
        BY <4>1, <4>3, <1>2, PriorityAssumption
      <4> QED
        BY <4>2, <4>3
    <3> QED
      BY <3>1, <3>2
  <2> QED
    BY <2>4, <2>5, <2>6 DEF QueuesHoldTheQueued
<1>5. PushesAreApart'
  BY <1>1, <1>2 DEF JPTypeOK, PushesAreApart
<1> QED
  BY <1>3, <1>4, <1>5

LEMMA PopInv ==
  ASSUME JPInv, NEW list \in PriorityList, NEW j \in Job, Pop(list, j)
  PROVE  JPInv'
<1> USE DEF JPInv
<1>1. PICK i \in DOMAIN list :
        /\ FirstServed(list, i)
        /\ j = Head(job_queues_[list[i]])
        /\ job_queues_' = [job_queues_ EXCEPT ![list[i]] = Tail(@)]
  BY DEF Pop
<1> DEFINE p == list[i]
           q == job_queues_[p]
<1>2. p \in Priority /\ q \in Seq(Job) /\ q # <<>>
  BY <1>1, ListAssumption DEF JPTypeOK, FirstServed, IsList
<1>3. /\ Tail(q) \in Seq(Job)
      /\ Len(q) \in Nat /\ Len(q) >= 1
      /\ Len(Tail(q)) = Len(q) - 1
      /\ \A n \in 1 .. Len(Tail(q)) : Tail(q)[n] = q[n + 1]
      /\ j = q[1]
  BY <1>1, <1>2, TailOfQueue
<1>4. /\ job_queues_'[p] = Tail(q)
      /\ \A r \in Priority \ {p} : job_queues_'[r] = job_queues_[r]
      /\ fate'[j] = "taken"
      /\ \A k \in Job \ {j} : fate'[k] = fate[k]
  BY <1>1, <1>2 DEF JPTypeOK, Pop
<1>5. fate[j] = "queued" /\ priority[j] = p
  BY <1>2, <1>3 DEF QueuesHoldTheQueued
<1>6. JPTypeOK'
  BY <1>1, <1>2, <1>3 DEF JPTypeOK, Fates, Pop
<1>7. QueuesHoldTheQueued'
  <2>1. \A n \in 1 .. Len(Tail(q)) : n + 1 \in 1 .. Len(q) /\ n + 1 # 1
    BY <1>3
  <2>2. \A r \in Priority : \A n \in 1 .. Len(job_queues_'[r]) :
          /\ job_queues_'[r][n] \in Job /\ job_queues_'[r][n] # j
          /\ fate'[job_queues_'[r][n]] = "queued"
          /\ priority[job_queues_'[r][n]] = r
    <3> SUFFICES ASSUME NEW r \in Priority, NEW n \in 1 .. Len(job_queues_'[r])
                 PROVE  /\ job_queues_'[r][n] \in Job /\ job_queues_'[r][n] # j
                        /\ fate'[job_queues_'[r][n]] = "queued"
                        /\ priority[job_queues_'[r][n]] = r
      OBVIOUS
    <3>1. CASE r = p
      <4>0. n \in 1 .. Len(Tail(q)) /\ job_queues_'[r] = Tail(q)
        BY <3>1, <1>4
      <4>1. job_queues_'[r][n] = q[n + 1] /\ n + 1 \in 1 .. Len(q) /\ 1 \in 1 .. Len(q)
        BY <4>0, <2>1, <1>3
      <4>2. q[n + 1] \in Job /\ q[n + 1] # q[1]
        BY <4>0, <4>1, <1>2, <2>1, ElementOfSeq DEF QueuesHoldTheQueued
      <4> QED
        BY <4>1, <4>2, <1>2, <1>3, <1>4, <3>1 DEF QueuesHoldTheQueued
    <3>2. CASE r # p
      <4>1. job_queues_'[r] = job_queues_[r] /\ job_queues_[r] \in Seq(Job)
        BY <3>2, <1>4 DEF JPTypeOK
      <4>2. job_queues_[r][n] \in Job /\ priority[job_queues_[r][n]] = r
        BY <4>1, ElementOfSeq DEF QueuesHoldTheQueued
      <4> QED
        BY <4>1, <4>2, <3>2, <1>4, <1>5 DEF QueuesHoldTheQueued
    <3> QED
      BY <3>1, <3>2
  <2>3. \A r \in Priority : \A n, k \in 1 .. Len(job_queues_'[r]) :
          job_queues_'[r][n] = job_queues_'[r][k] => n = k
    <3> SUFFICES ASSUME NEW r \in Priority,
                        NEW n \in 1 .. Len(job_queues_'[r]), NEW k \in 1 .. Len(job_queues_'[r]),
                        job_queues_'[r][n] = job_queues_'[r][k]
                 PROVE  n = k
      OBVIOUS
    <3>1. CASE r = p
      <4>1. n + 1 \in 1 .. Len(q) /\ k + 1 \in 1 .. Len(q) /\ q[n + 1] = q[k + 1]
        BY <3>1, <1>3, <1>4, <2>1
      <4> QED
        BY <4>1, <1>2 DEF QueuesHoldTheQueued
    <3>2. CASE r # p
      BY <3>2, <1>4 DEF QueuesHoldTheQueued
    <3> QED
      BY <3>1, <3>2
  <2>4. \A k \in Job : fate'[k] = "queued" =>
          \E n \in 1 .. Len(job_queues_'[priority[k]]) : job_queues_'[priority[k]][n] = k
    <3> SUFFICES ASSUME NEW k \in Job, fate'[k] = "queued"
                 PROVE  \E n \in 1 .. Len(job_queues_'[priority[k]]) :
                          job_queues_'[priority[k]][n] = k
      OBVIOUS
    <3>1. k # j /\ fate[k] = "queued" /\ priority[k] \in Priority
      BY <1>4, PriorityAssumption
    <3>2. PICK n \in 1 .. Len(job_queues_[priority[k]]) : job_queues_[priority[k]][n] = k
      BY <3>1 DEF QueuesHoldTheQueued
    <3>3. CASE priority[k] = p
      <4>1. n # 1
        BY <3>1, <3>2, <3>3, <1>3
      <4>2. n - 1 \in 1 .. Len(Tail(q)) /\ (n - 1) + 1 = n
        BY <3>2, <3>3, <4>1, <1>3
      <4>3. Tail(q)[n - 1] = k
        BY <4>2, <3>2, <3>3, <1>3
      <4> QED
        BY <4>2, <4>3, <3>3, <1>4
    <3>4. CASE priority[k] # p
      BY <3>1, <3>2, <3>4, <1>4
    <3> QED
      BY <3>3, <3>4
  <2> QED
    BY <2>2, <2>3, <2>4 DEF QueuesHoldTheQueued
<1>8. PushesAreApart'
  BY <1>4, <1>5 DEF JPTypeOK, PushesAreApart, Pop
<1> QED
  BY <1>6, <1>7, <1>8

LEMMA JPNextInv ==
  ASSUME JPInv, [JPNext]_jobPoolVars
  PROVE  JPInv'
<1>1. ASSUME NEW t \in Thread, NEW j \in Job, PushCheck(t, j) PROVE JPInv'
  BY <1>1, PushCheckInv
<1>2. ASSUME NEW t \in Thread, PushInsert(t) PROVE JPInv'
  BY <1>2, PushInsertInv
<1>3. ASSUME NEW t \in Thread, PushReturn(t) PROVE JPInv'
  BY <1>3, PushReturnInv
<1>4. ASSUME NEW list \in PriorityList, NEW j \in Job, Pop(list, j) PROVE JPInv'
  BY <1>4, PopInv
<1>5. ASSUME Clear PROVE JPInv'
  BY <1>5, EmptiedInv DEF Clear, ClearQueues, JPInv, JPTypeOK
<1>6. ASSUME NEW p \in Priority, ClearPriority(p) PROVE JPInv'
  <2>1. {p} \in SUBSET Priority /\ Emptied({p}) /\ lock_condition_' \in BOOLEAN
    BY <1>6 DEF ClearPriority, ClearQueues, JPInv, JPTypeOK
  <2> QED
    BY <2>1, EmptiedInv
<1>7. ASSUME NEW condition \in BOOLEAN, Lock(condition) PROVE JPInv'
  BY <1>7, LockInv
<1>8. ASSUME Dispose PROVE JPInv'
  BY <1>8, EmptiedInv DEF Dispose
<1>9. CASE UNCHANGED jobPoolVars
  BY <1>9 DEF jobPoolVars, JPInv, JPTypeOK, QueuesHoldTheQueued, PushesAreApart
<1> QED
  BY <1>1, <1>2, <1>3, <1>4, <1>5, <1>6, <1>7, <1>8, <1>9 DEF JPNext

\* Whatever the threads do, the variables keep their types, the queues hold
\* exactly the jobs that were inserted and neither taken nor cleared, each once
\* and under its own priority.
THEOREM JPInvariant == JPSpec => [](JPTypeOK /\ QueuesHoldTheQueued)
<1>1. JPInit => JPInv
  BY JPInitInv
<1>2. JPInv /\ [JPNext]_jobPoolVars => JPInv'
  BY JPNextInv
<1>3. JPInv => JPTypeOK /\ QueuesHoldTheQueued
  BY DEF JPInv
<1> QED
  BY <1>1, <1>2, <1>3, PTL DEF JPSpec

-----------------------------------------------------------------------------
(* The pool implements the abstract dispenser.                             *)

Spent == {j \in Job : fate[j] \in {"taken", "cleared"}}

\* A queue position holds a queued job of the queue's priority.
LEMMA QueuePositions ==
  ASSUME JPInv, NEW p \in Priority, NEW i \in 1 .. Len(job_queues_[p])
  PROVE  job_queues_[p][i] \in Queued /\ priority[job_queues_[p][i]] = p
<1>1. job_queues_[p][i] \in Job
  BY ElementOfSeq DEF JPInv, JPTypeOK
<1> QED
  BY <1>1 DEF JPInv, QueuesHoldTheQueued, Queued

LEMMA InitRefines == JPInit => Dispenser!Init
<1> SUFFICES ASSUME JPInit PROVE Dispenser!Init
  OBVIOUS
<1>1. Queued = {} /\ Spent = {}
  BY DEF JPInit, Queued, Spent
<1>2. QueueOrder = {}
  BY <1>1 DEF QueueOrder
<1> QED
  BY <1>1, <1>2 DEF Dispenser!Init, Spent

LEMMA InsertAccepts ==
  ASSUME JPInv, JPInv', NEW t \in Thread, PushInsert(t)
  PROVE  Dispenser!Accept(push_job[t])
<1> DEFINE j == push_job[t]
           q == job_queues_[priority[j]]
<1>1. /\ j \in Job /\ priority[j] \in Priority /\ q \in Seq(Job)
      /\ fate[j] = "pushing"
  BY PriorityAssumption DEF JPInv, JPTypeOK, PushesAreApart, PushInsert
<1>2. /\ job_queues_'[priority[j]] = Append(q, j)
      /\ \A p \in Priority \ {priority[j]} : job_queues_'[p] = job_queues_[p]
      /\ \A k \in Job : fate'[k] = IF k = j THEN "queued" ELSE fate[k]
  BY <1>1 DEF JPInv, JPTypeOK, PushInsert
<1>3. /\ Len(q) \in Nat
      /\ Len(Append(q, j)) = Len(q) + 1
      /\ \A i \in 1 .. Len(q) : Append(q, j)[i] = q[i]
      /\ Append(q, j)[Len(q) + 1] = j
  BY <1>1, AppendToQueue, LenProperties
<1>4. Queued' = Queued \cup {j} /\ j \notin Queued /\ j \notin Spent /\ Spent' = Spent
  BY <1>1, <1>2 DEF Queued, Spent
<1> DEFINE older == {<<k, j>> : k \in {i \in Queued : priority[i] = priority[j]}}
<1>5. QueueOrder' \subseteq QueueOrder \cup older
  <2> SUFFICES ASSUME NEW x \in Queued', NEW y \in Queued', NEW p \in Priority,
                      NEW a \in 1 .. Len(job_queues_'[p]), NEW b \in 1 .. Len(job_queues_'[p]),
                      a < b, job_queues_'[p][a] = x, job_queues_'[p][b] = y
               PROVE  <<x, y>> \in QueueOrder \cup older
    BY DEF QueueOrder
  <2>1. CASE p = priority[j] /\ b = Len(q) + 1
    <3>1. y = j /\ a \in 1 .. Len(q) /\ q[a] = x
      BY <2>1, <1>2, <1>3
    <3>2. x \in Queued /\ priority[x] = priority[j]
      BY <3>1, <1>1, QueuePositions
    <3> QED
      BY <3>1, <3>2
  <2>2. CASE p = priority[j] /\ b # Len(q) + 1
    <3>1. a \in 1 .. Len(q) /\ b \in 1 .. Len(q) /\ q[a] = x /\ q[b] = y
      BY <2>2, <1>2, <1>3
    <3>2. x \in Queued /\ y \in Queued
      BY <3>1, <1>1, QueuePositions
    <3> QED
      BY <3>1, <3>2, <1>1 DEF QueueOrder
  <2>3. CASE p # priority[j]
    <3>1. job_queues_'[p] = job_queues_[p]
      BY <2>3, <1>2
    <3>2. x \in Queued /\ y \in Queued
      BY <3>1, QueuePositions
    <3> QED
      BY <3>1, <3>2 DEF QueueOrder
  <2> QED
    BY <2>1, <2>2, <2>3
<1>6. QueueOrder \subseteq QueueOrder'
  <2> SUFFICES ASSUME NEW x \in Queued, NEW y \in Queued, NEW p \in Priority,
                      NEW a \in 1 .. Len(job_queues_[p]), NEW b \in 1 .. Len(job_queues_[p]),
                      a < b, job_queues_[p][a] = x, job_queues_[p][b] = y
               PROVE  <<x, y>> \in QueueOrder'
    BY SMTT(30) DEF QueueOrder
  <2>1. /\ a \in 1 .. Len(job_queues_'[p]) /\ b \in 1 .. Len(job_queues_'[p])
        /\ job_queues_'[p][a] = x /\ job_queues_'[p][b] = y
    <3>1. CASE p = priority[j]
      BY <3>1, <1>2, <1>3
    <3>2. CASE p # priority[j]
      BY <3>2, <1>2
    <3> QED
      BY <3>1, <3>2
  <2> QED
    BY <2>1, <1>4 DEF QueueOrder
<1>7. older \subseteq QueueOrder'
  <2> SUFFICES ASSUME NEW k \in Queued, priority[k] = priority[j]
               PROVE  <<k, j>> \in QueueOrder'
    OBVIOUS
  <2>1. PICK i \in 1 .. Len(q) : q[i] = k
    BY DEF JPInv, QueuesHoldTheQueued, Queued
  <2>2. /\ i \in 1 .. Len(job_queues_'[priority[j]])
        /\ Len(q) + 1 \in 1 .. Len(job_queues_'[priority[j]])
        /\ i < Len(q) + 1
        /\ job_queues_'[priority[j]][i] = k
        /\ job_queues_'[priority[j]][Len(q) + 1] = j
    BY <2>1, <1>2, <1>3
  <2> QED
    BY <2>2, <1>1, <1>4 DEF QueueOrder
<1>8. QueueOrder' = QueueOrder \cup older
  BY <1>5, <1>6, <1>7
<1> QED
  BY <1>4, <1>8 DEF Dispenser!Accept, Spent

LEMMA PopDispenses ==
  ASSUME JPInv, JPInv', NEW list \in PriorityList, NEW j \in Job, Pop(list, j)
  PROVE  Dispenser!Dispense(j)
<1>1. PICK i \in DOMAIN list :
        /\ FirstServed(list, i)
        /\ j = Head(job_queues_[list[i]])
        /\ job_queues_' = [job_queues_ EXCEPT ![list[i]] = Tail(@)]
  BY DEF Pop
<1> DEFINE p == list[i]
           q == job_queues_[p]
<1>2. p \in Priority /\ q \in Seq(Job) /\ q # <<>>
  BY <1>1, ListAssumption DEF JPInv, JPTypeOK, FirstServed, IsList
<1>3. /\ Len(q) \in Nat /\ Len(q) >= 1
      /\ Len(Tail(q)) = Len(q) - 1
      /\ \A n \in 1 .. Len(Tail(q)) : Tail(q)[n] = q[n + 1]
      /\ j = q[1]
  BY <1>1, <1>2, TailOfQueue
<1>4. /\ job_queues_'[p] = Tail(q)
      /\ \A r \in Priority \ {p} : job_queues_'[r] = job_queues_[r]
      /\ \A k \in Job : fate'[k] = IF k = j THEN "taken" ELSE fate[k]
  BY <1>1, <1>2 DEF JPInv, JPTypeOK, Pop
<1>5. j \in Queued /\ priority[j] = p
  BY <1>2, <1>3, QueuePositions
<1>6. Queued' = Queued \ {j} /\ Spent' = Spent \cup {j}
  BY <1>4, <1>5 DEF Queued, Spent
<1>7. \A k \in Queued : <<k, j>> \notin QueueOrder
  <2> SUFFICES ASSUME NEW r \in Priority,
                      NEW a \in 1 .. Len(job_queues_[r]), NEW b \in 1 .. Len(job_queues_[r]),
                      a < b, job_queues_[r][b] = j
               PROVE  FALSE
    BY DEF QueueOrder
  <2>1. r = p
    BY <1>5, QueuePositions
  <2>2. b = 1
    BY <2>1, <1>2, <1>3 DEF JPInv, QueuesHoldTheQueued
  <2> QED
    BY <2>2
<1> DEFINE kept == {e \in QueueOrder : e[1] \notin {j} /\ e[2] \notin {j}}
<1>8. QueueOrder' \subseteq kept
  <2> SUFFICES ASSUME NEW x \in Queued', NEW y \in Queued', NEW r \in Priority,
                      NEW a \in 1 .. Len(job_queues_'[r]), NEW b \in 1 .. Len(job_queues_'[r]),
                      a < b, job_queues_'[r][a] = x, job_queues_'[r][b] = y
               PROVE  <<x, y>> \in kept
    BY DEF QueueOrder
  <2>1. x \in Queued \ {j} /\ y \in Queued \ {j}
    BY <1>6
  <2>2. CASE r = p
    <3>1. a \in 1 .. Len(Tail(q)) /\ b \in 1 .. Len(Tail(q)) /\ Tail(q)[a] = x /\ Tail(q)[b] = y
      BY <2>2, <1>4
    <3>2. /\ a + 1 \in 1 .. Len(q) /\ b + 1 \in 1 .. Len(q) /\ a + 1 < b + 1
          /\ q[a + 1] = x /\ q[b + 1] = y
      BY <3>1, <1>3
    <3> QED
      BY <2>1, <3>2, <1>2 DEF QueueOrder
  <2>3. CASE r # p
    BY <2>1, <2>3, <1>4 DEF QueueOrder
  <2> QED
    BY <2>2, <2>3
<1>9. kept \subseteq QueueOrder'
  <2> SUFFICES ASSUME NEW x \in Queued \ {j}, NEW y \in Queued \ {j}, NEW r \in Priority,
                      NEW a \in 1 .. Len(job_queues_[r]), NEW b \in 1 .. Len(job_queues_[r]),
                      a < b, job_queues_[r][a] = x, job_queues_[r][b] = y
               PROVE  <<x, y>> \in QueueOrder'
    BY DEF QueueOrder
  <2>1. CASE r = p
    <3>1. a # 1 /\ b # 1
      BY <2>1, <1>3
    <3>2. /\ a - 1 \in 1 .. Len(Tail(q)) /\ b - 1 \in 1 .. Len(Tail(q)) /\ a - 1 < b - 1
          /\ (a - 1) + 1 = a /\ (b - 1) + 1 = b
      BY <2>1, <3>1, <1>3
    <3>3. Tail(q)[a - 1] = x /\ Tail(q)[b - 1] = y
      BY <2>1, <3>2, <1>3
    <3>4. /\ a - 1 \in 1 .. Len(job_queues_'[r]) /\ b - 1 \in 1 .. Len(job_queues_'[r])
          /\ job_queues_'[r][a - 1] = x /\ job_queues_'[r][b - 1] = y
      BY <2>1, <3>2, <3>3, <1>4
    <3> QED
      BY <3>2, <3>4, <1>6 DEF QueueOrder
  <2>2. CASE r # p
    BY <2>2, <1>4, <1>6 DEF QueueOrder
  <2> QED
    BY <2>1, <2>2
<1>10. QueueOrder' = kept
  BY <1>8, <1>9
<1> QED
  BY <1>5, <1>6, <1>7, <1>10 DEF Dispenser!Dispense, Dispenser!Remove, Spent

LEMMA ClearDrops ==
  ASSUME JPInv, JPInv', NEW P \in SUBSET Priority, Emptied(P)
  PROVE  Dispenser!Drop(P)
<1> DEFINE S == {j \in Queued : priority[j] \in P}
<1>1. \A j \in Job : fate'[j] = IF j \in S THEN "cleared" ELSE fate[j]
  BY DEF Emptied, Queued
<1>2. Queued' = Queued \ S /\ Spent' = Spent \cup S
  BY <1>1 DEF Queued, Spent
<1>3. \A p \in Priority : IF p \in P THEN job_queues_'[p] = <<>>
                                     ELSE job_queues_'[p] = job_queues_[p]
  BY DEF Emptied
<1> HIDE DEF S
<1> DEFINE kept == {e \in QueueOrder : e[1] \notin S /\ e[2] \notin S}
<1>4. QueueOrder' \subseteq kept
  <2> SUFFICES ASSUME NEW x \in Queued', NEW y \in Queued', NEW r \in Priority,
                      NEW a \in 1 .. Len(job_queues_'[r]), NEW b \in 1 .. Len(job_queues_'[r]),
                      a < b, job_queues_'[r][a] = x, job_queues_'[r][b] = y
               PROVE  <<x, y>> \in kept
    BY DEF QueueOrder
  <2>1. r \notin P
    BY <1>3, EmptySeq
  <2> QED
    BY <2>1, <1>2, <1>3 DEF QueueOrder
<1>5. kept \subseteq QueueOrder'
  <2> SUFFICES ASSUME NEW x \in Queued \ S, NEW y \in Queued \ S, NEW r \in Priority,
                      NEW a \in 1 .. Len(job_queues_[r]), NEW b \in 1 .. Len(job_queues_[r]),
                      a < b, job_queues_[r][a] = x, job_queues_[r][b] = y
               PROVE  <<x, y>> \in QueueOrder'
    BY DEF QueueOrder
  <2>1. priority[x] = r
    BY QueuePositions
  <2>2. job_queues_'[r] = job_queues_[r]
    BY <2>1, <1>3 DEF S
  <2> QED
    BY <2>2, <1>2 DEF QueueOrder
<1> QED
  BY <1>2, <1>4, <1>5 DEF Dispenser!Drop, Dispenser!Remove, Spent, S

LEMMA NextRefines ==
  ASSUME JPInv, JPInv', [JPNext]_jobPoolVars
  PROVE  [Dispenser!Next]_(Dispenser!dispenserVars)
<1> DEFINE Stutter == UNCHANGED <<Queued, QueueOrder, Spent>>
<1>1. ASSUME NEW t \in Thread, NEW j \in Job, PushCheck(t, j) PROVE Stutter
  BY <1>1 DEF PushCheck, JPInv, JPTypeOK, Queued, QueueOrder, Spent
<1>2. ASSUME NEW t \in Thread, PushInsert(t) PROVE \E j \in Job : Dispenser!Accept(j)
  BY <1>2, InsertAccepts DEF JPInv, PushesAreApart, PushInsert
<1>3. ASSUME NEW t \in Thread, PushReturn(t) PROVE Stutter
  BY <1>3 DEF PushReturn, Queued, QueueOrder, Spent
<1>4. ASSUME NEW list \in PriorityList, NEW j \in Job, Pop(list, j) PROVE Dispenser!Dispense(j)
  BY <1>4, PopDispenses
<1>5. ASSUME Clear PROVE \E P \in SUBSET Priority : Dispenser!Drop(P)
  BY <1>5, ClearDrops DEF Clear, ClearQueues
<1>6. ASSUME NEW p \in Priority, ClearPriority(p) PROVE \E P \in SUBSET Priority : Dispenser!Drop(P)
  <2>1. {p} \in SUBSET Priority /\ Emptied({p})
    BY <1>6 DEF ClearPriority, ClearQueues
  <2> QED
    BY <2>1, ClearDrops
<1>7. ASSUME NEW condition \in BOOLEAN, Lock(condition) PROVE Stutter
  BY <1>7 DEF Lock, Queued, QueueOrder, Spent
<1>8. ASSUME UNCHANGED jobPoolVars PROVE Stutter
  BY <1>8 DEF jobPoolVars, Queued, QueueOrder, Spent
<1>9. ASSUME Dispose PROVE \E P \in SUBSET Priority : Dispenser!Drop(P)
  BY <1>9, ClearDrops DEF Dispose
<1>10. Stutter => UNCHANGED Dispenser!dispenserVars
  BY DEF Dispenser!dispenserVars, Spent
<1> QED
  BY <1>1, <1>2, <1>3, <1>4, <1>5, <1>6, <1>7, <1>8, <1>9, <1>10 DEF JPNext, Dispenser!Next

\* A job is handed out or dropped at most once, only after it was accepted, and
\* the oldest job of a priority leaves first.
THEOREM JPImplementsDispenser == JPSpec => ImplementsDispenser
<1>1. JPInit => Dispenser!Init
  BY InitRefines
<1>2. JPInv /\ JPInv' /\ [JPNext]_jobPoolVars => [Dispenser!Next]_(Dispenser!dispenserVars)
  BY NextRefines
<1>3. JPInit => JPInv
  BY JPInitInv
<1>4. JPInv /\ [JPNext]_jobPoolVars => JPInv'
  BY JPNextInv
<1> QED
  BY <1>1, <1>2, <1>3, <1>4, PTL DEF JPSpec, ImplementsDispenser, Dispenser!Spec

-----------------------------------------------------------------------------
(* The workers.                                                            *)

\* Until it leaves the section in which it found pause_ FALSE a worker cannot
\* be paused, unless it has been asked to stop.
SectionNotPaused ==
  \A w \in Worker : pc[w] \in {"count", "pop"} => ~pause_[w] \/ thread_stop_[w]

WInv ==
  /\ JPInv
  /\ WTypeOK
  /\ JobAccounting
  /\ JoinedThreadIsAwake
  /\ ThreadLifecycle
  /\ SectionNotPaused

-----------------------------------------------------------------------------
(* The pool under the workers.                                             *)

LEMMA WorkersRefinePool ==
  ASSUME WTypeOK, [WNext]_allWorkerVars
  PROVE  [JPNext]_jobPoolVars
<1>1. ASSUME NEW w \in Worker, RunStep(w) PROVE [JPNext]_jobPoolVars
  <2>1. priorities_[w] \in PriorityList
    BY DEF WTypeOK
  <2>2. ASSUME NEW j \in Job, TakeJob(w, j) PROVE JPNext
    BY <2>1, <2>2 DEF TakeJob, JPNext
  <2>3. CASE TakeNull(w)
    BY <2>3 DEF TakeNull, PopNull
  <2>4. CASE Begin(w) \/ AcquireAndCheck(w) \/ CountAll(w) \/ CountOne(w) \/ AfterNull(w)
             \/ FinishJob(w) \/ Exit(w)
    BY <2>4 DEF Begin, AcquireAndCheck, CountAll, CountOne, AfterNull, FinishJob, Exit
  <2> QED
    BY <1>1, <2>2, <2>3, <2>4 DEF RunStep
<1>2. ASSUME NEW w \in Worker, SpuriousWake(w) PROVE UNCHANGED jobPoolVars
  BY <1>2 DEF SpuriousWake
<1>3. ASSUME NEW w \in Worker, NEW j \in Job, WorkPushes(w, j) PROVE JPNext
  BY <1>3, WorkerAssumption DEF WorkPushes, JPNext
<1>4. ASSUME NEW w \in Worker, WorkerCall(w) PROVE UNCHANGED jobPoolVars
  BY <1>4 DEF WorkerCall, SignalStop, Join, StartGivesUp, StartThread, StartReturn, Pause,
              NotifyOne, SetPriorities
<1>5. ASSUME PoolCall PROVE JPNext
  BY <1>5 DEF PoolCall, JPNext
<1>6. ASSUME UNCHANGED allWorkerVars PROVE UNCHANGED jobPoolVars
  BY <1>6 DEF allWorkerVars
<1> QED
  BY <1>1, <1>2, <1>3, <1>4, <1>5, <1>6 DEF WNext

\* What pop() does to the fate of the jobs.
LEMMA PopTakesQueued ==
  ASSUME JPInv, NEW list \in PriorityList, NEW j \in Job, Pop(list, j)
  PROVE  /\ fate[j] = "queued"
         /\ Taken' = Taken \cup {j}
         /\ \E i \in DOMAIN list : FirstServed(list, i) /\ list[i] = priority[j]
<1>1. PICK i \in DOMAIN list :
        FirstServed(list, i) /\ j = Head(job_queues_[list[i]])
  BY DEF Pop
<1>2. list[i] \in Priority /\ job_queues_[list[i]] \in Seq(Job) /\ job_queues_[list[i]] # <<>>
  BY <1>1, ListAssumption DEF JPInv, JPTypeOK, FirstServed, IsList
<1>3. 1 \in 1 .. Len(job_queues_[list[i]]) /\ j = job_queues_[list[i]][1]
  BY <1>1, <1>2, TailOfQueue
<1>4. fate[j] = "queued" /\ priority[j] = list[i]
  BY <1>2, <1>3 DEF JPInv, QueuesHoldTheQueued
<1>5. Taken' = Taken \cup {j}
  BY DEF Pop, JPInv, JPTypeOK, Taken
<1> QED
  BY <1>1, <1>4, <1>5

-----------------------------------------------------------------------------
(* The invariant, one lemma per group of actions.  JPInv' follows from the *)
(* refinement above, so the lemmas prove the rest.                         *)

WorkerInv ==
  /\ WTypeOK
  /\ JobAccounting
  /\ JoinedThreadIsAwake
  /\ ThreadLifecycle
  /\ SectionNotPaused

\* A step that leaves the jobs alone keeps the accounting when it moves no
\* worker in or out of do_run.
LEMMA AccountingKept ==
  ASSUME JobAccounting, Taken' = Taken, UNCHANGED <<current_job, done>>,
         \A w \in Worker : (pc'[w] = "work") <=> (pc[w] = "work")
  PROVE  JobAccounting'
  BY DEF JobAccounting

LEMMA ListPositions ==
  ASSUME NEW list \in PriorityList
  PROVE  DOMAIN list \subseteq Nat
  BY ListAssumption DEF IsList

LEMMA RunKeepsInv ==
  ASSUME JPInv, WorkerInv, NEW w \in Worker,
         \/ Begin(w) \/ AcquireAndCheck(w) \/ SpuriousWake(w) \/ CountAll(w) \/ CountOne(w)
         \/ TakeNull(w) \/ AfterNull(w) \/ Exit(w)
  PROVE  WorkerInv'
<1> USE DEF WorkerInv
<1>1. Taken' = Taken /\ JPTypeOK'
  BY DEF WTypeOK, JPTypeOK, Taken, Begin, AcquireAndCheck, SpuriousWake, CountAll, CountOne,
         TakeNull, PopNull, AfterNull, Exit, jobPoolVars
<1>2. WTypeOK'
  <2>1. CASE CountOne(w)
    BY <2>1, <1>1, ListPositions DEF WTypeOK, CountOne, ToCount, Goto, Steps
  <2>2. CASE ~CountOne(w)
    BY <2>2, <1>1 DEF WTypeOK, Begin, AcquireAndCheck, SpuriousWake, CountAll, TakeNull,
           AfterNull, Exit, Goto, Steps
  <2> QED
    BY <2>1, <2>2
<1>3. JobAccounting'
  <2>1. /\ UNCHANGED <<current_job, done>>
        /\ \A v \in Worker : (pc'[v] = "work") <=> (pc[v] = "work")
    BY DEF WTypeOK, Begin, AcquireAndCheck, SpuriousWake, CountAll, CountOne, TakeNull,
           AfterNull, Exit, Goto, Steps
  <2> QED
    BY <1>1, <2>1, AccountingKept
<1>4. JoinedThreadIsAwake' /\ ThreadLifecycle'
  BY DEF WTypeOK, JoinedThreadIsAwake, ThreadLifecycle, Begin, AcquireAndCheck, SpuriousWake,
         CountAll, CountOne, TakeNull, AfterNull, Exit, Goto, Steps
<1>5. SectionNotPaused'
  BY DEF WTypeOK, SectionNotPaused, Begin, AcquireAndCheck, SpuriousWake,
         CountAll, CountOne, TakeNull, AfterNull, Exit, Goto, Steps
<1> QED
  BY <1>2, <1>3, <1>4, <1>5

LEMMA TakeJobKeepsInv ==
  ASSUME JPInv, JPInv', WorkerInv, NEW w \in Worker, NEW j \in Job, TakeJob(w, j)
  PROVE  WorkerInv'
<1> USE DEF WorkerInv, TakeJob, Goto
<1>1. fate[j] = "queued" /\ Taken' = Taken \cup {j}
  BY PopTakesQueued DEF WTypeOK
<1>2. WTypeOK'
  BY DEF WTypeOK, Steps, JPInv
<1>3. JobAccounting'
  <2>1. j \notin done /\ \A v \in Worker : current_job[v] # j
    BY <1>1, NoJobAssumption DEF JobAccounting, Taken
  <2>2. current_job[w] = NoJob /\ NoJob \notin done
    BY NoJobAssumption DEF JobAccounting, WTypeOK
  <2>3. /\ current_job'[w] = j
        /\ \A v \in Worker \ {w} : current_job'[v] = current_job[v] /\ pc'[v] = pc[v]
        /\ pc'[w] = "work"
        /\ done' = done
    BY DEF WTypeOK
  <2>4. {current_job'[v] : v \in Worker} \ {NoJob} = ({current_job[v] : v \in Worker} \ {NoJob}) \cup {j}
    BY <2>2, <2>3, NoJobAssumption
  <2>5. Taken' = done' \cup ({current_job'[v] : v \in Worker} \ {NoJob})
    BY <1>1, <2>3, <2>4 DEF JobAccounting
  <2>6. \A v \in Worker : (pc'[v] = "work") <=> (current_job'[v] # NoJob)
    BY <2>3, NoJobAssumption DEF JobAccounting
  <2>7. \A u, v \in Worker : current_job'[u] # NoJob /\ current_job'[u] = current_job'[v] => u = v
    BY <2>1, <2>3 DEF JobAccounting
  <2>8. \A v \in Worker : current_job'[v] \notin done'
    BY <2>1, <2>3 DEF JobAccounting
  <2> QED
    BY <2>5, <2>6, <2>7, <2>8 DEF JobAccounting
<1>4. JoinedThreadIsAwake' /\ ThreadLifecycle' /\ SectionNotPaused'
  BY DEF WTypeOK, JoinedThreadIsAwake, ThreadLifecycle, SectionNotPaused, Steps
<1> QED
  BY <1>2, <1>3, <1>4

LEMMA FinishJobKeepsInv ==
  ASSUME JPInv, WorkerInv, NEW w \in Worker, FinishJob(w)
  PROVE  WorkerInv'
<1> USE DEF WorkerInv, FinishJob, Goto
<1> DEFINE j == current_job[w]
<1>1. Taken' = Taken /\ JPTypeOK'
  BY DEF WTypeOK, JPTypeOK, Taken, jobPoolVars
<1>2. j \in Job
  BY DEF WTypeOK, JobAccounting
<1>3. WTypeOK'
  BY <1>1, <1>2 DEF WTypeOK, Steps
<1>4. JobAccounting'
  <2>1. /\ current_job'[w] = NoJob /\ pc'[w] = "lock"
        /\ \A v \in Worker \ {w} : current_job'[v] = current_job[v] /\ pc'[v] = pc[v]
        /\ done' = done \cup {j}
    BY DEF WTypeOK
  <2>2. \A v \in Worker \ {w} : current_job[v] # j
    BY <1>2, NoJobAssumption DEF JobAccounting
  <2>3. done' \cup ({current_job'[v] : v \in Worker} \ {NoJob})
          = done \cup ({current_job[v] : v \in Worker} \ {NoJob})
    BY <1>2, <2>1, NoJobAssumption
  <2>4. Taken' = done' \cup ({current_job'[v] : v \in Worker} \ {NoJob})
    BY <1>1, <2>3 DEF JobAccounting
  <2>5. \A v \in Worker : (pc'[v] = "work") <=> (current_job'[v] # NoJob)
    BY <2>1 DEF JobAccounting
  <2>6. \A u, v \in Worker : current_job'[u] # NoJob /\ current_job'[u] = current_job'[v] => u = v
    BY <2>1 DEF JobAccounting
  <2>7. \A v \in Worker : current_job'[v] \notin done'
    BY <2>1, <2>2, <1>2, NoJobAssumption DEF JobAccounting, WTypeOK
  <2> QED
    BY <2>4, <2>5, <2>6, <2>7 DEF JobAccounting
<1>5. JoinedThreadIsAwake' /\ ThreadLifecycle' /\ SectionNotPaused'
  BY DEF WTypeOK, JoinedThreadIsAwake, ThreadLifecycle, SectionNotPaused, Steps
<1> QED
  BY <1>3, <1>4, <1>5

LEMMA CallKeepsInv ==
  ASSUME JPInv, WorkerInv, NEW w \in Worker, WorkerCall(w)
  PROVE  WorkerInv'
<1> USE DEF WorkerInv
<1>1. UNCHANGED jobPoolVars /\ UNCHANGED <<current_job, done>>
  BY DEF WorkerCall, SignalStop, Join, StartGivesUp, StartThread, StartReturn, Pause, NotifyOne,
         SetPriorities
<1>2. Taken' = Taken /\ JPTypeOK'
  BY <1>1 DEF WTypeOK, JPTypeOK, Taken, jobPoolVars
<1>3. WTypeOK'
  <2>1. \A p \in Priority : Without(priorities_[w], p) \in PriorityList
    BY ListAssumption DEF WTypeOK
  <2>2. CASE \E p \in Priority : SetPriorities(w, Without(priorities_[w], p))
    BY <1>1, <1>2, <2>1, <2>2 DEF WTypeOK, SetPriorities
  <2>3. CASE SignalStop(w) \/ Join(w) \/ (\E pause \in BOOLEAN : Pause(w, pause))
             \/ (\E p \in Priority : NotifyOne(w, p))
    BY <1>1, <1>2, <2>3 DEF WTypeOK, SignalStop, Join, Pause, NotifyOne, Goto, Wake, Steps
  <2>4. CASE StartGivesUp(w) \/ StartThread(w) \/ StartReturn(w)
    BY <1>1, <1>2, <2>4 DEF WTypeOK, StartGivesUp, StartThread, StartReturn, Goto, Steps
  <2> QED
    BY <2>2, <2>3, <2>4 DEF WorkerCall
<1>4. JobAccounting'
  <2>1. \A v \in Worker : (pc'[v] = "work") <=> (pc[v] = "work")
    BY DEF WTypeOK, WorkerCall, SignalStop, Join, StartGivesUp, StartThread, StartReturn,
       Pause, NotifyOne, SetPriorities, Goto, Wake, Steps, CanStart, ThreadLifecycle
  <2> QED
    BY <1>1, <1>2, <2>1, AccountingKept
<1>5. JoinedThreadIsAwake' /\ ThreadLifecycle' /\ SectionNotPaused'
  <2> USE DEF JoinedThreadIsAwake, ThreadLifecycle, SectionNotPaused
  <2>1. CASE SignalStop(w)
    BY <2>1 DEF WTypeOK, SignalStop, Wake, Steps, MutexFree
  <2>2. CASE Join(w)
    BY <2>2 DEF WTypeOK, Join, Goto, Steps
  <2>3. CASE StartGivesUp(w)
    BY <2>3 DEF WTypeOK, StartGivesUp, CanStart
  <2>4. CASE StartThread(w)
    BY <2>4 DEF WTypeOK, StartThread, CanStart, Goto, Steps
  <2>5. CASE StartReturn(w)
    BY <2>5 DEF WTypeOK, StartReturn
  <2>6. ASSUME NEW pause \in BOOLEAN, Pause(w, pause)
        PROVE  JoinedThreadIsAwake' /\ ThreadLifecycle' /\ SectionNotPaused'
    BY <2>6 DEF WTypeOK, Pause, Wake, MutexFree, Steps
  <2>7. ASSUME NEW p \in Priority, NotifyOne(w, p)
        PROVE  JoinedThreadIsAwake' /\ ThreadLifecycle' /\ SectionNotPaused'
    BY <2>7 DEF WTypeOK, NotifyOne, Wake, MutexFree, Steps
  <2>8. ASSUME NEW p \in Priority, SetPriorities(w, Without(priorities_[w], p))
        PROVE  JoinedThreadIsAwake' /\ ThreadLifecycle' /\ SectionNotPaused'
    BY <2>8 DEF SetPriorities
  <2> QED
    BY <2>1, <2>2, <2>3, <2>4, <2>5, <2>6, <2>7, <2>8 DEF WorkerCall
<1> QED
  BY <1>3, <1>4, <1>5

LEMMA PoolCallKeepsInv ==
  ASSUME JPInv, JPInv', WorkerInv, UNCHANGED workerVars, Taken' = Taken
  PROVE  WorkerInv'
<1> USE DEF WorkerInv, workerVars
<1>1. JPTypeOK'
  BY DEF JPInv
<1> QED
  BY <1>1 DEF WTypeOK, JobAccounting, JoinedThreadIsAwake, ThreadLifecycle, SectionNotPaused

\* Only the workers take jobs.
LEMMA PoolCallTakesNothing ==
  ASSUME JPInv, PoolCall
  PROVE  Taken' = Taken
<1>1. ASSUME NEW t \in Thread, NEW j \in Job, PushCheck(t, j) PROVE Taken' = Taken
  BY <1>1 DEF JPInv, JPTypeOK, PushCheck, Taken
<1>2. ASSUME NEW t \in Thread, PushInsert(t) PROVE Taken' = Taken
  BY <1>2 DEF JPInv, JPTypeOK, PushesAreApart, PushInsert, Taken
<1>3. ASSUME NEW t \in Thread, PushReturn(t) PROVE Taken' = Taken
  BY <1>3 DEF PushReturn, Taken
<1>4. ASSUME NEW P \in SUBSET Priority, Emptied(P) PROVE Taken' = Taken
  BY <1>4 DEF Emptied, Taken
<1>5. ASSUME NEW b \in BOOLEAN, Lock(b) PROVE Taken' = Taken
  BY <1>5 DEF Lock, Taken
<1>6. \A p \in Priority : {p} \in SUBSET Priority
  OBVIOUS
<1> QED
  BY <1>1, <1>2, <1>3, <1>4, <1>5, <1>6 DEF PoolCall, Clear, ClearPriority, ClearQueues, Dispose

LEMMA WInitInv == WInit => WInv
<1> SUFFICES ASSUME WInit PROVE WInv
  OBVIOUS
<1>1. JPInv
  BY JPInitInv DEF WInit
<1>2. WTypeOK
  BY <1>1, WorkerAssumption DEF WInit, WTypeOK, JPInv, Steps
<1>3. JobAccounting
  <2>1. Taken = {}
    BY DEF WInit, JPInit, Taken
  <2> QED
    BY <2>1 DEF WInit, JobAccounting
<1>4. JoinedThreadIsAwake /\ ThreadLifecycle /\ SectionNotPaused
  BY DEF WInit, JoinedThreadIsAwake, ThreadLifecycle, SectionNotPaused
<1> QED
  BY <1>1, <1>2, <1>3, <1>4 DEF WInv

LEMMA WNextInv ==
  ASSUME WInv, [WNext]_allWorkerVars
  PROVE  WInv'
<1>1. JPInv /\ WorkerInv
  BY DEF WInv, WorkerInv
<1>2. JPInv'
  BY <1>1, WorkersRefinePool, JPNextInv DEF WorkerInv
<1>3. ASSUME NEW w \in Worker, RunStep(w) PROVE WorkerInv'
  BY <1>1, <1>2, <1>3, RunKeepsInv, TakeJobKeepsInv, FinishJobKeepsInv DEF RunStep
<1>4. ASSUME NEW w \in Worker, SpuriousWake(w) PROVE WorkerInv'
  BY <1>1, <1>4, RunKeepsInv
<1>5. ASSUME NEW w \in Worker, NEW j \in Job, WorkPushes(w, j) PROVE WorkerInv'
  <2>1. Taken' = Taken /\ UNCHANGED workerVars
    BY <1>1, <1>5 DEF WorkPushes, PushCheck, Taken, JPInv, JPTypeOK
  <2> QED
    BY <1>1, <1>2, <2>1, PoolCallKeepsInv
<1>6. ASSUME NEW w \in Worker, WorkerCall(w) PROVE WorkerInv'
  BY <1>1, <1>6, CallKeepsInv
<1>7. ASSUME PoolCall PROVE WorkerInv'
  <2>1. Taken' = Taken
    BY <1>1, <1>7, PoolCallTakesNothing
  <2> QED
    BY <1>1, <1>2, <1>7, <2>1, PoolCallKeepsInv DEF PoolCall
<1>8. ASSUME UNCHANGED allWorkerVars PROVE WorkerInv'
  <2>1. Taken' = Taken /\ UNCHANGED workerVars
    BY <1>8 DEF allWorkerVars, jobPoolVars, Taken
  <2> QED
    BY <1>1, <1>2, <2>1, PoolCallKeepsInv
<1>9. WorkerInv'
  BY <1>3, <1>4, <1>5, <1>6, <1>7, <1>8 DEF WNext
<1> QED
  BY <1>2, <1>9 DEF WInv, WorkerInv

\* The workers use the job pool as any threads would.
LEMMA WImplementsPool == WSpec => JPSpec
<1>1. WInit => WInv /\ JPInit
  BY WInitInv DEF WInit
<1>2. WInv /\ [WNext]_allWorkerVars => WInv'
  BY WNextInv
<1>3. WInv /\ [WNext]_allWorkerVars => [JPNext]_jobPoolVars
  BY WorkersRefinePool DEF WInv
<1> QED
  BY <1>1, <1>2, <1>3, PTL DEF WSpec, JPSpec

\* However the workers and the callers interleave, every job taken from a queue
\* is worked on by exactly one worker or done.
THEOREM WorkerAccounting == WSpec => []JobAccounting
<1>1. WInit => WInv
  BY WInitInv
<1>2. WInv /\ [WNext]_allWorkerVars => WInv'
  BY WNextInv
<1>3. WInv => JobAccounting
  BY DEF WInv
<1> QED
  BY <1>1, <1>2, <1>3, PTL DEF WSpec

\* A caller in join() waits for a thread that is awake and still has the stop
\* request: no interleaving of stop(), pause() and notify_one() loses it.
THEOREM StopRequestIsKept == WSpec => []JoinedThreadIsAwake
<1>1. WInit => WInv
  BY WInitInv
<1>2. WInv /\ [WNext]_allWorkerVars => WInv'
  BY WNextInv
<1>3. WInv => JoinedThreadIsAwake
  BY DEF WInv
<1> QED
  BY <1>1, <1>2, <1>3, PTL DEF WSpec

\* thread_, promise_ and thread_stop_ follow the life of the thread.
THEOREM WorkerLifecycle == WSpec => []ThreadLifecycle
<1>1. WInit => WInv
  BY WInitInv
<1>2. WInv /\ [WNext]_allWorkerVars => WInv'
  BY WNextInv
<1>3. WInv => ThreadLifecycle
  BY DEF WInv
<1> QED
  BY <1>1, <1>2, <1>3, PTL DEF WSpec

-----------------------------------------------------------------------------
(* What a step may never do.                                               *)

\* A worker gets a job in one way only.
LEMMA JobsComeFromPop ==
  ASSUME WInv, [WNext]_allWorkerVars, NEW w \in Worker,
         current_job'[w] \notin {current_job[w], NoJob}
  PROVE  \E j \in Job : TakeJob(w, j) /\ current_job'[w] = j
<1> USE DEF WInv, WTypeOK
<1>1. ASSUME NEW v \in Worker, RunStep(v)
      PROVE  \E j \in Job : TakeJob(w, j) /\ current_job'[w] = j
  <2>1. ASSUME NEW j \in Job, TakeJob(v, j)
        PROVE  TakeJob(w, j) /\ current_job'[w] = j
    BY <2>1 DEF TakeJob
  <2>2. ~FinishJob(v)
    BY DEF FinishJob
  <2>3. ~(Begin(v) \/ AcquireAndCheck(v) \/ CountAll(v) \/ CountOne(v) \/ TakeNull(v)
          \/ AfterNull(v) \/ Exit(v))
    BY DEF Begin, AcquireAndCheck, CountAll, CountOne, TakeNull, AfterNull, Exit
  <2> QED
    BY <1>1, <2>1, <2>2, <2>3 DEF RunStep
<1>2. ASSUME NEW v \in Worker PROVE ~SpuriousWake(v) /\ ~WorkerCall(v)
  BY DEF SpuriousWake, WorkerCall, SignalStop, Join, StartGivesUp, StartThread, StartReturn,
         Pause, NotifyOne, SetPriorities
<1>3. ASSUME NEW v \in Worker, NEW j \in Job PROVE ~WorkPushes(v, j)
  BY DEF WorkPushes, workerVars
<1>4. ~PoolCall /\ ~UNCHANGED allWorkerVars
  BY DEF PoolCall, workerVars, allWorkerVars
<1> QED
  BY <1>1, <1>2, <1>3, <1>4 DEF WNext

\* From the moment pause(true) has returned, the worker takes no job unless it
\* is stopping.
THEOREM WorkerPauseHolds == WSpec => PausedTakesNothing
<1>1. ASSUME WInv, [WNext]_allWorkerVars, NEW w \in Worker, pause_[w], ~thread_stop_[w]
      PROVE  current_job'[w] \in {current_job[w], NoJob}
  <2> SUFFICES ASSUME current_job'[w] \notin {current_job[w], NoJob} PROVE FALSE
    OBVIOUS
  <2>1. PICK j \in Job : TakeJob(w, j)
    BY <1>1, JobsComeFromPop
  <2> QED
    BY <1>1, <2>1 DEF TakeJob, WInv, SectionNotPaused
<1>2. WInv /\ [WNext]_allWorkerVars =>
        [\A w \in Worker : pause_[w] /\ ~thread_stop_[w] =>
           current_job'[w] \in {current_job[w], NoJob}]_allWorkerVars
  BY <1>1
<1>3. WInit => WInv
  BY WInitInv
<1>4. WInv /\ [WNext]_allWorkerVars => WInv'
  BY WNextInv
<1> QED
  BY <1>2, <1>3, <1>4, PTL DEF WSpec, PausedTakesNothing

\* The job a worker takes has the first priority of its list that has any.
THEOREM WorkerServesInOrder == WSpec => EarlierPriorityFirst
<1> DEFINE Earlier(w, i) == {priorities_[w][n] : n \in {m \in DOMAIN priorities_[w] : m < i}}
           Step(w, j) == \E i \in DOMAIN priorities_[w] :
                           /\ priorities_[w][i] = priority[j]
                           /\ \A k \in Queued : priority[k] \notin Earlier(w, i)
<1>1. ASSUME WInv, [WNext]_allWorkerVars, NEW w \in Worker, NEW j \in Job,
             current_job[w] = NoJob, current_job'[w] = j
      PROVE  Step(w, j)
  <2>1. TakeJob(w, j) /\ priorities_[w] \in PriorityList
    BY <1>1, NoJobAssumption, JobsComeFromPop DEF WInv, WTypeOK
  <2>2. PICK i \in DOMAIN priorities_[w] :
          FirstServed(priorities_[w], i) /\ priorities_[w][i] = priority[j]
    BY <1>1, <2>1, PopTakesQueued DEF TakeJob, WInv
  <2>3. ASSUME NEW k \in Queued, NEW n \in DOMAIN priorities_[w], n < i,
               priority[k] = priorities_[w][n]
        PROVE  FALSE
    <3>1. PICK a \in 1 .. Len(job_queues_[priority[k]]) : TRUE
      BY <1>1 DEF WInv, JPInv, QueuesHoldTheQueued, Queued
    <3>2. job_queues_[priority[k]] = <<>>
      BY <2>2, <2>3 DEF FirstServed
    <3> QED
      BY <3>1, <3>2, EmptySeq
  <2> QED
    BY <2>2, <2>3
<1>2. WInv /\ [WNext]_allWorkerVars =>
        [\A w \in Worker : \A j \in Job :
           current_job[w] = NoJob /\ current_job'[w] = j => Step(w, j)]_allWorkerVars
  BY <1>1
<1>3. WInit => WInv
  BY WInitInv
<1>4. WInv /\ [WNext]_allWorkerVars => WInv'
  BY WNextInv
<1> QED
  BY <1>2, <1>3, <1>4, PTL DEF WSpec, EarlierPriorityFirst
=============================================================================
