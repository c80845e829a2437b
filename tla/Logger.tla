------------------------------- MODULE Logger -------------------------------
(***************************************************************************)
(* Utilities::Logger (src/Utilities/Logger.cpp): any thread appends its    *)
(* message to messages_, and one logging thread takes all of them at once  *)
(* and writes them out.                                                    *)
(*                                                                         *)
(* The mutex is not a variable: a writer holds it between its test of      *)
(* thread_stop_ and its push_back ("append"), the logging thread from the  *)
(* moment it finds nothing to do until it sleeps ("block"), and every      *)
(* other critical section is one action.  stop() takes no mutex, neither   *)
(* to set thread_stop_ nor to notify, and the loop condition of run()      *)
(* reads messages_ without it.                                             *)
(*                                                                         *)
(* start, stop, destroy and the setters are called by one thread, the      *)
(* control of the program, as in the sample of the documentation; they     *)
(* change fields that nothing protects.                                    *)
(***************************************************************************)
EXTENDS Naturals, Sequences

CONSTANTS
  Client,    \* the threads that write
  Message,   \* the messages of the program, each written once
  NoMessage,
  Type,      \* the LogTypes of each message: 1 is Exception, 7 is Packet
  Levels     \* the levels that the program sets, 0 is None

ASSUME LoggerAssumption ==
  /\ NoMessage \notin Message
  /\ Type \in [Message -> Nat]
  /\ Levels \subseteq Nat

VARIABLES
  handle_,       \* TRUE until destroy()
  thread_stop_,
  messages_,
  file_mode_,
  console_mode_,
  write_interval_, \* TRUE when it is not zero
  thread_,       \* TRUE when the pointer to the std::thread is not null
  pc,            \* where the logging thread is
  batch,         \* the local vector of run()
  at,            \* where each client is in write()
  writing,       \* the message it writes
  control,       \* where the controlling thread is in stop()
  purpose,       \* the call that contains this stop()
  accepted,      \* (history) the messages in the order of their push_back
  written,       \* (history) the messages that write_log has output, in order
  dropped,       \* (history) the messages that write() has refused
  due,           \* (history) the messages accepted when stop() was called
  started        \* (history) start() has been called

modes == <<handle_, file_mode_, console_mode_, write_interval_>>
queue == <<messages_, batch, accepted, written>>
writers == <<at, writing, dropped>>
controls == <<thread_stop_, thread_, control, purpose, due, started>>
loggerVars == <<modes, queue, writers, controls, pc>>

Elements(s) == {s[i] : i \in 1 .. Len(s)}

LTypeOK ==
  /\ handle_ \in BOOLEAN
  /\ thread_stop_ \in BOOLEAN
  /\ messages_ \in Seq(Message)
  /\ file_mode_ \in Nat
  /\ console_mode_ \in Nat
  /\ write_interval_ \in BOOLEAN
  /\ thread_ \in BOOLEAN
  /\ pc \in {"none", "begin", "loop", "lock", "block", "asleep", "timed out", "write",
             "end", "finished"}
  /\ batch \in Seq(Message)
  /\ at \in [Client -> {"idle", "append"}]
  /\ writing \in [Client -> Message \cup {NoMessage}]
  /\ control \in {"idle", "signalled", "joining", "spawn"}
  /\ purpose \in {"stop", "start", "destroy"}
  /\ accepted \in Seq(Message)
  /\ written \in Seq(Message)
  /\ dropped \subseteq Message
  /\ due \subseteq Message
  /\ started \in BOOLEAN

\* The constructor leaves thread_stop_ uninitialised (the module is built as
\* C++17): it may hold either value until the first start() or stop().
LInit ==
  /\ handle_ = TRUE
  /\ thread_stop_ \in BOOLEAN
  /\ messages_ = <<>>
  /\ file_mode_ = 3
  /\ console_mode_ = 2
  /\ write_interval_ = FALSE
  /\ thread_ = FALSE
  /\ pc = "none"
  /\ batch = <<>>
  /\ at = [c \in Client |-> "idle"]
  /\ writing = [c \in Client |-> NoMessage]
  /\ control = "idle"
  /\ purpose = "stop"
  /\ accepted = <<>>
  /\ written = <<>>
  /\ dropped = {}
  /\ due = {}
  /\ started = FALSE

\* type <= log_types_, the greater of the two modes.
Loud(m) == Type[m] <= file_mode_ \/ Type[m] <= console_mode_

MutexFree == pc # "block" /\ \A c \in Client : at[c] = "idle"

\* condition_.notify_one()
Woken == IF pc = "asleep" THEN "lock" ELSE pc

-----------------------------------------------------------------------------
(* write(type, message, time)                                              *)

\* A program uses the logger until it calls destroy().
InUse == handle_ /\ ~(control # "idle" /\ purpose = "destroy")

Unused(m) ==
  m \notin Elements(accepted) \cup dropped /\ \A c \in Client : writing[c] # m

\* Takes the mutex and tests thread_stop_.
WriteAccept(c, m) ==
  /\ InUse /\ Unused(m) /\ MutexFree
  /\ ~thread_stop_
  /\ at' = [at EXCEPT ![c] = "append"]
  /\ writing' = [writing EXCEPT ![c] = m]
  /\ UNCHANGED <<modes, queue, dropped, controls, pc>>

WriteDrop(c, m) ==
  /\ InUse /\ Unused(m) /\ MutexFree
  /\ thread_stop_
  /\ dropped' = dropped \cup {m}
  /\ UNCHANGED <<modes, queue, at, writing, controls, pc>>

\* (Faulty variant: notifies only for the first message of an empty vector.)
WriteAppendNotifyFirst(c) ==
  /\ at[c] = "append"
  /\ messages_' = Append(messages_, writing[c])
  /\ accepted' = Append(accepted, writing[c])
  /\ pc' = IF Loud(writing[c]) /\ ~write_interval_ /\ messages_ = <<>> THEN Woken ELSE pc
  /\ at' = [at EXCEPT ![c] = "idle"]
  /\ writing' = [writing EXCEPT ![c] = NoMessage]
  /\ UNCHANGED <<modes, batch, written, dropped, controls>>

\* Appends the message, whatever its level, and notifies for a loud one.
WriteAppend(c) ==
  /\ at[c] = "append"
  /\ messages_' = Append(messages_, writing[c])
  /\ accepted' = Append(accepted, writing[c])
  /\ pc' = IF Loud(writing[c]) /\ ~write_interval_ THEN Woken ELSE pc
  /\ at' = [at EXCEPT ![c] = "idle"]
  /\ writing' = [writing EXCEPT ![c] = NoMessage]
  /\ UNCHANGED <<modes, batch, written, dropped, controls>>

-----------------------------------------------------------------------------
(* run()                                                                   *)

\* Most steps of the logging thread change nothing but its place.
Step(from, to) ==
  /\ pc = from
  /\ pc' = to
  /\ UNCHANGED <<modes, queue, writers, controls>>

Begin == Step("begin", "loop")

\* (Faulty variant: the loop ends with messages left.)
LoopTestStopOnly == Step("loop", IF thread_stop_ THEN "end" ELSE "lock")

LoopTest == Step("loop", IF thread_stop_ /\ messages_ = <<>> THEN "end" ELSE "lock")

\* (Faulty variants: the messages are copied; all but the first are lost.)
SwapCopies ==
  /\ batch' = messages_
  /\ pc' = IF messages_ = <<>> THEN "loop" ELSE "write"
  /\ UNCHANGED <<modes, messages_, accepted, written, writers, controls>>

SwapKeepsFirst ==
  /\ batch' = IF messages_ = <<>> THEN <<>> ELSE <<Head(messages_)>>
  /\ messages_' = <<>>
  /\ pc' = IF messages_ = <<>> THEN "loop" ELSE "write"
  /\ UNCHANGED <<modes, accepted, written, writers, controls>>

\* messages.swap(messages_), and the release of the mutex.
Swap ==
  /\ batch' = messages_
  /\ messages_' = <<>>
  /\ pc' = IF messages_ = <<>> THEN "loop" ELSE "write"
  /\ UNCHANGED <<modes, accepted, written, writers, controls>>

\* Takes the mutex and evaluates the predicate of the wait.
Await ==
  /\ pc = "lock" /\ MutexFree
  /\ IF thread_stop_ \/ messages_ # <<>> THEN Swap ELSE Step("lock", "block")

\* Until here a notification is lost: nobody waits yet.
FallAsleep == Step("block", "asleep")

SpuriousWake == Step("asleep", "lock")

\* wait_for() gives up, and the loop goes on whatever the predicate says.
TimeOut == write_interval_ /\ Step("asleep", "timed out")

AfterTimeOut == pc = "timed out" /\ MutexFree /\ Swap

WriteLog ==
  /\ pc = "write"
  /\ written' = written \o batch
  /\ batch' = <<>>
  /\ pc' = "loop"
  /\ UNCHANGED <<modes, messages_, accepted, writers, controls>>

End == Step("end", "finished")

Run ==
  \/ Begin \/ LoopTest \/ Await \/ FallAsleep \/ TimeOut \/ AfterTimeOut \/ WriteLog \/ End

-----------------------------------------------------------------------------
(* stop(), start() and destroy() of the controlling thread: the latter two *)
(* begin with stop(), which does nothing when there is no thread.          *)

\* (Faulty variant: the request is not stored.)
SignalOnlyNotifies(call) ==
  /\ handle_ /\ control = "idle" /\ thread_
  /\ call = "destroy" => \A c \in Client : at[c] = "idle"
  /\ control' = "signalled"
  /\ purpose' = call
  /\ due' = Elements(accepted)
  /\ UNCHANGED <<modes, queue, writers, thread_stop_, thread_, started, pc>>

Signal(call) ==
  /\ handle_ /\ control = "idle" /\ thread_
  /\ call = "destroy" => \A c \in Client : at[c] = "idle"
  /\ thread_stop_' = TRUE
  /\ control' = "signalled"
  /\ purpose' = call
  /\ due' = Elements(accepted)
  /\ UNCHANGED <<modes, queue, writers, thread_, started, pc>>

NotifyStop ==
  /\ control = "signalled"
  /\ control' = "joining"
  /\ pc' = Woken
  /\ UNCHANGED <<modes, queue, writers, thread_stop_, thread_, purpose, due, started>>

\* (Faulty variant: the request stays.)
JoinKeepsRequest ==
  /\ control = "joining" /\ pc = "finished"
  /\ thread_' = FALSE
  /\ pc' = "none"
  /\ control' = IF purpose = "start" THEN "spawn" ELSE "idle"
  /\ handle_' = (purpose # "destroy")
  /\ UNCHANGED <<file_mode_, console_mode_, write_interval_, queue, writers, thread_stop_, purpose, due, started>>

\* join(), reset() and the end of the request.
Join ==
  /\ control = "joining" /\ pc = "finished"
  /\ thread_' = FALSE
  /\ pc' = "none"
  /\ thread_stop_' = FALSE
  /\ control' = IF purpose = "start" THEN "spawn" ELSE "idle"
  /\ handle_' = (purpose # "destroy")
  /\ UNCHANGED <<file_mode_, console_mode_, write_interval_, queue, writers, purpose, due, started>>

\* The second half of start().
Spawn ==
  /\ handle_ /\ ~thread_ /\ control \in {"idle", "spawn"}
  /\ thread_stop_' = FALSE
  /\ thread_' = TRUE
  /\ pc' = "begin"
  /\ control' = "idle"
  /\ started' = TRUE
  /\ UNCHANGED <<modes, queue, writers, purpose, due>>

\* destroy() of a logger that does not run.  (After destroy() the reference
\* that handle() returns is null, and a program must not use it.)
DestroyIdle ==
  /\ handle_ /\ ~thread_ /\ control = "idle" /\ \A c \in Client : at[c] = "idle"
  /\ handle_' = FALSE
  /\ UNCHANGED <<file_mode_, console_mode_, write_interval_, queue, writers, controls, pc>>

\* The modes are plain fields: a program sets them while no thread reads them.
SetModes(file, console, interval) ==
  /\ handle_ /\ ~thread_ /\ control = "idle" /\ \A c \in Client : at[c] = "idle"
  /\ file_mode_' = file
  /\ console_mode_' = console
  /\ write_interval_' = interval
  /\ UNCHANGED <<handle_, queue, writers, controls, pc>>

\* What follows from a call that has begun.
Proceed == NotifyStop \/ Join \/ (control = "spawn" /\ Spawn)

LNext ==
  \/ \E c \in Client :
       \/ \E m \in Message : WriteAccept(c, m) \/ WriteDrop(c, m)
       \/ WriteAppend(c)
  \/ Run
  \/ SpuriousWake
  \/ \E call \in {"stop", "start", "destroy"} : Signal(call)
  \/ Proceed
  \/ control = "idle" /\ Spawn
  \/ DestroyIdle
  \/ \E file, console \in Levels, interval \in BOOLEAN : SetModes(file, console, interval)

LSpec == LInit /\ [][LNext]_loggerVars

\* Threads that can go on do, a thread gets a mutex that is released again and
\* again, and a timed wait ends.  Nobody has to call anything.
LFairSpec ==
  /\ LSpec
  /\ WF_loggerVars(Run)
  /\ SF_loggerVars(Await \/ AfterTimeOut)
  /\ WF_loggerVars(Proceed)
  /\ \A c \in Client : WF_loggerVars(WriteAppend(c))

-----------------------------------------------------------------------------
(* Properties.                                                             *)

\* Every message is output once, in the order of the calls to write(), over
\* any number of starts and stops.
FirstInFirstOut ==
  /\ accepted = (written \o batch) \o messages_
  /\ \A i, k \in 1 .. Len(accepted) : accepted[i] = accepted[k] => i = k

\* A logging thread that ends has output everything that write() had accepted
\* when stop() was called.
StopFlushes == pc = "finished" => due \subseteq Elements(written)

\* With no interval the logging thread does not sleep on a loud message.
NoSleepOverLoud ==
  pc = "asleep" /\ ~write_interval_ => \A m \in Elements(messages_) : ~Loud(m)

\* Once the logger was started, write() refuses a message only during stop().
DropsOnlyWhileStopping ==
  [][started /\ dropped' # dropped => control \in {"signalled", "joining"}]_loggerVars

\* A loud message is output, unless the logger stops first.
LoudMessageWritten ==
  \A m \in Message :
    m \in Elements(accepted) /\ Loud(m) /\ thread_ ~> m \in Elements(written) \/ ~thread_

\* With an interval every message is output, the quiet ones too: write_database
\* takes messages of any level.
MessageWritten ==
  \A m \in Message :
    m \in Elements(accepted) /\ write_interval_ /\ thread_ ~>
      m \in Elements(written) \/ ~thread_

\* With an interval stop() returns, although it sets the flag and notifies
\* without the mutex ...
IntervalStopReturns == control # "idle" /\ write_interval_ ~> control = "idle"

\* ... and so it should without one.
LoggerStopReturns == control # "idle" ~> control = "idle"
=============================================================================
