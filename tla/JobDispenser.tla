---------------------------- MODULE JobDispenser ----------------------------
(***************************************************************************)
(* What the queues of a job pool promise to whoever pushes and pops: a job *)
(* is accepted once, it leaves once, and among the jobs of one priority    *)
(* the oldest leaves first.  Nothing is said of locks, threads or          *)
(* containers.  JobPool.tla implements this specification.                 *)
(***************************************************************************)
CONSTANTS Job, Priority, priority

VARIABLES
  pending,  \* the jobs accepted and not yet handed out or dropped
  before,   \* <<k, j>> : k and j are pending and k was accepted before j
  spent     \* the jobs that were handed out or dropped

dispenserVars == <<pending, before, spent>>

Init ==
  /\ pending = {}
  /\ before = {}
  /\ spent = {}

Accept(j) ==
  /\ j \notin pending \cup spent
  /\ pending' = pending \cup {j}
  /\ before' = before \cup {<<k, j>> : k \in {i \in pending : priority[i] = priority[j]}}
  /\ UNCHANGED spent

Remove(S) ==
  /\ pending' = pending \ S
  /\ before' = {e \in before : e[1] \notin S /\ e[2] \notin S}
  /\ spent' = spent \cup S

Dispense(j) ==
  /\ j \in pending
  /\ \A k \in pending : <<k, j>> \notin before
  /\ Remove({j})

\* Dropping is by whole priorities: clear() takes them all, clear(p) takes one.
Drop(P) == Remove({j \in pending : priority[j] \in P})

Next ==
  \/ \E j \in Job : Accept(j) \/ Dispense(j)
  \/ \E P \in SUBSET Priority : Drop(P)

Spec == Init /\ [][Next]_dispenserVars
=============================================================================
