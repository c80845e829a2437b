---------------------------- MODULE MCThreadPool ----------------------------
(* ThreadPool for TLC: two workers, jobs of two priorities, two            *)
(* clients with the calls that each run gives them.                        *)
EXTENDS ThreadPool, TLC

CONSTANTS high, low, h1, h2, l1, l2, main, other

MCPriority == {high, low}

MCpriority == [j \in Job |-> IF j \in {h1, h2} THEN high ELSE low]

MCPriorityList ==
  LET Lists(D) == {f \in [D -> MCPriority] : \A i, k \in D : f[i] = f[k] => i = k}
  IN  UNION {Lists(D) : D \in SUBSET (1 .. 2)}

\* Worker 1 serves high before low, worker 2 low.
Overlapping == [w \in Worker |-> IF w = 1 THEN (1 :> high) @@ (2 :> low) ELSE (1 :> low)]

\* One worker for each priority.
Disjoint == [w \in Worker |-> IF w = 1 THEN (1 :> high) ELSE (1 :> low)]

MCClient == {main, other}

MCThread == Client \cup Worker

Workers12 == {1, 2}

NoSpawns == [j \in Job |-> {}]

\* Working on h1 may push l1.
SpawnsOne == [j \in Job |-> IF j = h1 THEN {l1} ELSE {}]

\* One client controls the pool, the other pushes jobs.
ControlAndPush ==
  (main :> {"start", "stop", "stop immediately"}) @@ (other :> {"push"})

\* Both clients control the pool, one of them pushes to it.
AllCalls ==
  (main :> {"start", "stop", "add", "lock", "unlock"}) @@
  (other :> {"push", "start", "stop immediately", "remove", "pause", "resume",
             "destroy"})

\* For liveness: the pool is stopped, paused, resumed, grows and shrinks.
LiveCalls ==
  (main :> {"start", "stop", "add"}) @@ (other :> {"push", "pause", "resume", "remove", "destroy"})
=============================================================================
