---------------------------- MODULE ThreadSample ----------------------------
(***************************************************************************)
(* The order in which the documented program (src/ThreadPool/README.md,    *)
(* main) uses the logger and a thread pool that is a local variable of     *)
(* main.  The jobs of the pool are the clients of the logger.  The pool    *)
(* itself is what its stop() and its destructor do for the logger: when    *)
(* stop() has returned no job runs any more (see ThreadPool), and the      *)
(* destructor writes a message.                                            *)
(***************************************************************************)
EXTENDS Logger

VARIABLE main  \* where the program is

sampleVars == <<loggerVars, main>>

Statement(from, to) == main = from /\ main' = to

\* Threads other than that of main.
Others ==
  /\ \/ Run \/ SpuriousWake
     \/ \E c \in Client : WriteAppend(c)
     \/ main = "pool runs" /\ \E c \in Client, m \in Message : WriteAccept(c, m) \/ WriteDrop(c, m)
  /\ UNCHANGED main

\* Before start() the program sets the modes of the logger.
SetLogger ==
  /\ main = "start logger" /\ UNCHANGED main
  /\ \E file, console \in Levels : SetModes(file, console, FALSE)

StartLogger == Statement("start logger", "pool runs") /\ Spawn

\* pool.stop() returns when the jobs are done and the threads joined.
PoolStopped ==
  /\ Statement("pool runs", "stop logger")
  /\ \A c \in Client : at[c] = "idle"
  /\ UNCHANGED loggerVars

StopLogger == Statement("stop logger", "stopping") /\ Signal("stop")

Stopping ==
  \/ NotifyStop /\ UNCHANGED main
  \/ Statement("stopping", "destroy logger") /\ Join

DestroyLogger == Statement("destroy logger", "return") /\ DestroyIdle

\* return: ~ThreadPool() calls write() on the reference that handle() returns.
\* call_once makes no second logger, so that it may be a reference to nothing.
DestroyPool ==
  /\ main = "return"
  /\ main' = IF handle_ THEN "returned" ELSE "null reference"
  /\ UNCHANGED loggerVars

SInit == LInit /\ main = "start logger"

SNext ==
  \/ Others
  \/ SetLogger \/ StartLogger \/ PoolStopped \/ StopLogger \/ Stopping \/ DestroyLogger
  \/ DestroyPool

SSpec == SInit /\ [][SNext]_sampleVars

\* main, as it is documented, returns: what it uses on the way is still there.
SampleReturns == main # "null reference"
=============================================================================
