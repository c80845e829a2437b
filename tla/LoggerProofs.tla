---------------------------- MODULE LoggerProofs ----------------------------
(***************************************************************************)
(* Theorems about Logger.tla, for every set of clients, messages and       *)
(* levels.                                                                 *)
(*                                                                         *)
(* The inductive invariant adds three facts to the properties: at most one *)
(* client is between its test of thread_stop_ and its push_back, with a    *)
(* message that nobody else has (WritersApart); the batch is empty unless  *)
(* it is being written, and the queue is empty while the thread goes to    *)
(* sleep (QuietThread); and a stop request is pending only while stop() is *)
(* in progress (Requests).                                                 *)
(***************************************************************************)
EXTENDS Logger, SequenceTheorems, TLAPS

WritersApart ==
  /\ \A c \in Client : at[c] = "append" => writing[c] \in Message
  /\ \A c \in Client : at[c] = "append" => writing[c] \notin Elements(accepted)
  /\ \A c \in Client : at[c] = "append" => pc # "block"
  /\ \A c, d \in Client : at[c] = "append" /\ at[d] = "append" => c = d

QuietThread ==
  /\ pc # "write" => batch = <<>>
  /\ pc = "block" => messages_ = <<>>
  /\ thread_ <=> pc # "none"

Requests ==
  /\ control \in {"signalled", "joining"} => thread_ /\ due \subseteq Elements(accepted)
  /\ pc \in {"end", "finished"} => control \in {"signalled", "joining"}
  /\ thread_ => started
  /\ started /\ thread_stop_ => control \in {"signalled", "joining"}
  /\ pc \in {"end", "finished"} => due \subseteq Elements(written)

LInv ==
  /\ LTypeOK
  /\ FirstInFirstOut
  /\ NoSleepOverLoud
  /\ WritersApart
  /\ QuietThread
  /\ Requests

-----------------------------------------------------------------------------
(* Sequences.                                                              *)

\* What an appended sequence and a concatenation contain.
LEMMA ElementsAppend ==
  ASSUME NEW s \in Seq(Message), NEW m \in Message
  PROVE  Elements(Append(s, m)) = Elements(s) \cup {m}
<1>1. /\ Len(s) \in Nat
      /\ Len(Append(s, m)) = Len(s) + 1
      /\ \A i \in 1 .. Len(s) : Append(s, m)[i] = s[i]
      /\ Append(s, m)[Len(s) + 1] = m
  BY AppendProperties, LenProperties
<1> QED  BY <1>1 DEF Elements

LEMMA ElementsConcat ==
  ASSUME NEW s \in Seq(Message), NEW t \in Seq(Message)
  PROVE  Elements(s) \subseteq Elements(s \o t)
<1>1. /\ Len(s) \in Nat /\ Len(t) \in Nat
      /\ Len(s \o t) = Len(s) + Len(t)
      /\ \A i \in 1 .. Len(s) + Len(t) : (s \o t)[i] = IF i <= Len(s) THEN s[i] ELSE t[i - Len(s)]
  BY ConcatProperties, LenProperties
<1> QED  BY <1>1 DEF Elements

LEMMA ElementsEmpty == Elements(<<>>) = {}
<1>1. Len(<<>>) = 0
  BY EmptySeq
<1> QED  BY <1>1 DEF Elements

\* Appending a message to the last of two sequences appends it to both.
LEMMA AppendToConcat ==
  ASSUME NEW s \in Seq(Message), NEW t \in Seq(Message), NEW m \in Message
  PROVE  s \o Append(t, m) = Append(s \o t, m)
<1>1. <<m>> \in Seq(Message)
  OBVIOUS
<1>2. Append(t, m) = t \o <<m>>
  BY AppendIsConcat
<1>3. s \o t \in Seq(Message)
  BY ConcatProperties
<1>4. Append(s \o t, m) = (s \o t) \o <<m>>
  BY <1>3, AppendIsConcat
<1> QED  BY <1>1, <1>2, <1>4, ConcatAssociative

\* An appended message that is new leaves a sequence without repetition.
LEMMA AppendDistinct ==
  ASSUME NEW s \in Seq(Message), NEW m \in Message, m \notin Elements(s),
         \A i, k \in 1 .. Len(s) : s[i] = s[k] => i = k
  PROVE  \A i, k \in 1 .. Len(Append(s, m)) : Append(s, m)[i] = Append(s, m)[k] => i = k
<1>1. /\ Len(s) \in Nat
      /\ Len(Append(s, m)) = Len(s) + 1
      /\ \A i \in 1 .. Len(s) : Append(s, m)[i] = s[i]
      /\ Append(s, m)[Len(s) + 1] = m
  BY AppendProperties, LenProperties
<1>2. \A i \in 1 .. Len(s) : s[i] # m
  BY DEF Elements
<1> QED  BY <1>1, <1>2

-----------------------------------------------------------------------------
(* The steps.                                                              *)

LEMMA LInitInv == LInit => LInv
<1> SUFFICES ASSUME LInit PROVE LInv
  OBVIOUS
<1>1. <<>> \in Seq(Message) /\ Len(<<>>) = 0 /\ <<>> \o <<>> = <<>>
  BY EmptySeq, ConcatEmptySeq
<1>2. LTypeOK
  BY <1>1 DEF LInit, LTypeOK
<1>3. FirstInFirstOut
  BY <1>1 DEF LInit, FirstInFirstOut
<1> QED
  BY <1>2, <1>3 DEF LInit, LInv, NoSleepOverLoud, WritersApart, QuietThread, Requests

\* The types that a step keeps when it changes at most pc and the writers.
LEMMA KeptTypes ==
  ASSUME LTypeOK, UNCHANGED <<modes, queue, controls>>
  PROVE  /\ messages_' \in Seq(Message) /\ batch' \in Seq(Message)
         /\ accepted' \in Seq(Message) /\ written' \in Seq(Message)
         /\ handle_' \in BOOLEAN /\ thread_stop_' \in BOOLEAN /\ thread_' \in BOOLEAN
         /\ write_interval_' \in BOOLEAN /\ started' \in BOOLEAN
         /\ file_mode_' \in Nat /\ console_mode_' \in Nat
         /\ control' \in {"idle", "signalled", "joining", "spawn"}
         /\ purpose' \in {"stop", "start", "destroy"}
         /\ due' \subseteq Message
<1> USE DEF modes, queue, controls
<1>1. /\ messages_' \in Seq(Message) /\ batch' \in Seq(Message)
      /\ accepted' \in Seq(Message) /\ written' \in Seq(Message)
  BY DEF LTypeOK
<1>2. /\ handle_' \in BOOLEAN /\ thread_stop_' \in BOOLEAN /\ thread_' \in BOOLEAN
      /\ write_interval_' \in BOOLEAN /\ started' \in BOOLEAN
  BY Zenon DEF LTypeOK
<1>3. /\ file_mode_' \in Nat /\ console_mode_' \in Nat
      /\ control' = control /\ purpose' = purpose /\ due' \subseteq Message
  BY DEF LTypeOK
<1>4. control \in {"idle", "signalled", "joining", "spawn"} /\ purpose \in {"stop", "start", "destroy"}
  BY DEF LTypeOK
<1> QED  BY ONLY <1>1, <1>2, <1>3, <1>4

\* A step that changes at most the set of refused messages.
LEMMA IdleInv ==
  ASSUME LInv, UNCHANGED <<modes, queue, at, writing, controls, pc>>, dropped' \subseteq Message
  PROVE  LInv'
<1> USE DEF modes, queue, controls
<1>1. LTypeOK'
  <2>1. LTypeOK /\ UNCHANGED <<at, writing, pc>> /\ dropped' \subseteq Message
    BY DEF LInv
  <2>2. /\ at' \in [Client -> {"idle", "append"}]
        /\ writing' \in [Client -> Message \cup {NoMessage}]
    BY <2>1 DEF LTypeOK
  <2>3. pc' \in {"none", "begin", "loop", "lock", "block", "asleep", "timed out", "write", "end",
                 "finished"}
    BY <2>1 DEF LTypeOK
  <2> HIDE DEF LInv, modes, queue, controls
  <2> QED  BY <2>1, <2>2, <2>3, KeptTypes DEF LTypeOK
<1>2. FirstInFirstOut'
  BY DEF LInv, FirstInFirstOut
<1>3. NoSleepOverLoud' /\ WritersApart'
  BY DEF LInv, NoSleepOverLoud, Loud, WritersApart
<1>4. QuietThread' /\ Requests'
  BY DEF LInv, QuietThread, Requests
<1> QED  BY <1>1, <1>2, <1>3, <1>4 DEF LInv

LEMMA WriteAppendInv ==
  ASSUME LInv, NEW c \in Client, WriteAppend(c)
  PROVE  LInv'
<1> USE DEF WriteAppend, LInv
<1> DEFINE m == writing[c]
<1>1. m \in Message /\ m \notin Elements(accepted)
  BY DEF WritersApart
<1>2. /\ messages_ \in Seq(Message) /\ accepted \in Seq(Message)
      /\ written \in Seq(Message) /\ batch \in Seq(Message)
  BY DEF LTypeOK
<1>3. Append(messages_, m) \in Seq(Message) /\ Append(accepted, m) \in Seq(Message)
  BY <1>1, <1>2, AppendProperties
<1>4. written \o batch \in Seq(Message)
  BY <1>2, ConcatProperties
<1>5. Elements(accepted') = Elements(accepted) \cup {m}
  BY <1>1, <1>2, ElementsAppend
<1>6. Elements(messages_') = Elements(messages_) \cup {m}
  BY <1>1, <1>2, ElementsAppend
<1>7. LTypeOK'
  <2>1. LTypeOK /\ pc' \in {pc, "lock"}
    BY DEF Woken
  <2>2. /\ at' \in [Client -> {"idle", "append"}]
        /\ writing' \in [Client -> Message \cup {NoMessage}]
    BY <2>1 DEF LTypeOK
  <2> HIDE DEF LInv
  <2>3. messages_' \in Seq(Message) /\ accepted' \in Seq(Message)
    BY <1>3 DEF WriteAppend
  <2>4. UNCHANGED <<modes, batch, written, dropped, controls>>
    BY DEF WriteAppend
  <2> HIDE DEF WriteAppend, m
  <2>5. pc' \in {"none", "begin", "loop", "lock", "block", "asleep", "timed out", "write", "end",
                 "finished"}
    BY <2>1 DEF LTypeOK
  <2> QED  BY ONLY <2>1, <2>2, <2>3, <2>4, <2>5 DEF LTypeOK, modes, controls
<1>8. FirstInFirstOut'
  <2>1. accepted' = (written \o batch) \o Append(messages_, m)
    BY <1>1, <1>2, <1>4, AppendToConcat DEF FirstInFirstOut
  <2>2. \A i, k \in 1 .. Len(accepted') : accepted'[i] = accepted'[k] => i = k
    <3>1. \A i, k \in 1 .. Len(accepted) : accepted[i] = accepted[k] => i = k
      BY DEF FirstInFirstOut
    <3>2. \A i, k \in 1 .. Len(Append(accepted, m)) :
            Append(accepted, m)[i] = Append(accepted, m)[k] => i = k
      <4> HIDE DEF LInv, WriteAppend, m
      <4> QED  BY <1>1, <1>2, <3>1, AppendDistinct
    <3>3. accepted' = Append(accepted, m)
      OBVIOUS
    <3> QED  BY <3>2, <3>3
  <2> QED  BY <2>1, <2>2 DEF FirstInFirstOut
<1>9. NoSleepOverLoud'
  BY <1>6, <1>1 DEF NoSleepOverLoud, Woken, Loud, modes
<1>10. WritersApart'
  <2>1. \A d \in Client : at'[d] = "append" => at[d] = "append" /\ d # c /\ writing'[d] = writing[d]
    BY DEF LTypeOK
  <2>2. \A d \in Client : at'[d] # "append"
    BY <2>1 DEF WritersApart
  <2> QED  BY <2>2 DEF WritersApart
<1>11. QuietThread'
  BY DEF QuietThread, Woken, controls, WritersApart
<1>12. Requests'
  BY <1>5 DEF Requests, controls, Woken
<1> QED  BY <1>7, <1>8, <1>9, <1>10, <1>11, <1>12

\* The steps of the other writers change neither the queue nor the output.
LEMMA WriteOtherInv ==
  ASSUME LInv, NEW c \in Client, NEW m \in Message, WriteAccept(c, m) \/ WriteDrop(c, m)
  PROVE  LInv'
<1> USE DEF LInv
<1>1. CASE WriteAccept(c, m)
  <2>1. LTypeOK'
    <3>1. LTypeOK /\ UNCHANGED <<modes, queue, dropped, controls, pc>>
      BY <1>1 DEF WriteAccept
    <3>2. /\ at' \in [Client -> {"idle", "append"}]
          /\ writing' \in [Client -> Message \cup {NoMessage}]
      BY <1>1 DEF WriteAccept, LTypeOK
    <3>3. /\ dropped' \subseteq Message
          /\ pc' \in {"none", "begin", "loop", "lock", "block", "asleep", "timed out", "write",
                     "end", "finished"}
      BY <3>1 DEF LTypeOK
    <3> HIDE DEF LInv
    <3> QED  BY <3>1, <3>2, <3>3, KeptTypes DEF LTypeOK
  <2>2. WritersApart'
    <3>1. \A d \in Client : at[d] # "append"
      BY <1>1 DEF WriteAccept, MutexFree
    <3>2. at'[c] = "append" /\ writing'[c] = m /\ \A d \in Client : at'[d] = "append" => d = c
      BY <1>1, <3>1 DEF WriteAccept, LTypeOK
    <3> QED  BY <1>1, <3>2 DEF WriteAccept, WritersApart, Unused, MutexFree, queue
  <2>3. FirstInFirstOut' /\ NoSleepOverLoud' /\ QuietThread' /\ Requests'
    BY <1>1 DEF WriteAccept, FirstInFirstOut, NoSleepOverLoud, Loud, QuietThread, Requests, modes,
                queue, controls
  <2> QED  BY <2>1, <2>2, <2>3
<1>2. CASE WriteDrop(c, m)
  BY <1>2, IdleInv DEF WriteDrop, LTypeOK
<1> QED  BY <1>1, <1>2

LEMMA StepInv ==
  ASSUME LInv, Begin \/ LoopTest \/ FallAsleep \/ TimeOut \/ SpuriousWake \/ End
  PROVE  LInv'
<1> USE DEF LInv, Step
<1>1. UNCHANGED <<modes, queue, writers, controls>>
  BY DEF Begin, LoopTest, FallAsleep, TimeOut, SpuriousWake, End
<1> USE <1>1 DEF modes, queue, writers, controls
<1>2. LTypeOK'
  <2>1. LTypeOK /\ pc' \in {"loop", "end", "lock", "asleep", "timed out", "finished"}
    BY DEF Begin, LoopTest, FallAsleep, TimeOut, SpuriousWake, End
  <2>2. /\ at' \in [Client -> {"idle", "append"}]
        /\ writing' \in [Client -> Message \cup {NoMessage}]
        /\ dropped' \subseteq Message
    BY <2>1 DEF LTypeOK
  <2> HIDE DEF LInv, modes, queue, writers, controls
  <2> QED  BY <1>1, <2>1, <2>2, KeptTypes DEF LTypeOK
<1>3. FirstInFirstOut'
  BY DEF FirstInFirstOut
<1>4. NoSleepOverLoud'
  <2> QED
    BY ElementsEmpty DEF Begin, LoopTest, FallAsleep, TimeOut, SpuriousWake, End, NoSleepOverLoud,
                QuietThread, Loud
<1>5. WritersApart'
  BY DEF Begin, LoopTest, FallAsleep, TimeOut, SpuriousWake, End, WritersApart
<1>6. QuietThread'
  BY DEF Begin, LoopTest, FallAsleep, TimeOut, SpuriousWake, End, QuietThread
<1>7. Requests'
  <2>1. CASE LoopTest /\ pc' = "end"
    <3>1. messages_ = <<>> /\ batch = <<>> /\ thread_stop_ /\ thread_
      BY <2>1 DEF LoopTest, QuietThread
    <3>2. written \o batch = written /\ written \o messages_ = written
      BY <3>1, ConcatEmptySeq DEF LTypeOK
    <3>3. accepted = written
      BY <3>1, <3>2 DEF FirstInFirstOut
    <3> QED  BY <2>1, <3>1, <3>3 DEF LoopTest, Requests
  <2>2. CASE ~(LoopTest /\ pc' = "end")
    BY <2>2 DEF Begin, LoopTest, FallAsleep, TimeOut, SpuriousWake, End, Requests
  <2> QED  BY <2>1, <2>2
<1> QED  BY <1>2, <1>3, <1>4, <1>5, <1>6, <1>7

LEMMA SwapInv ==
  ASSUME LInv, Swap, batch = <<>>, pc \in {"lock", "timed out"}
  PROVE  LInv'
<1> USE DEF Swap, modes, writers, controls
<1>1. messages_ \in Seq(Message) /\ written \in Seq(Message) /\ <<>> \in Seq(Message)
  BY EmptySeq DEF LInv, LTypeOK
<1>2. written \o <<>> = written
  BY <1>1, ConcatEmptySeq
<1>3. (written \o messages_) \o <<>> = written \o messages_
  <2>1. written \o messages_ \in Seq(Message)
    BY <1>1, ConcatProperties
  <2> QED  BY <2>1, ConcatEmptySeq
<1>4. LTypeOK'
  BY <1>1 DEF LInv, LTypeOK
<1>5. FirstInFirstOut'
  <2>1. accepted = (written \o <<>>) \o messages_
    BY DEF LInv, FirstInFirstOut
  <2>2. accepted' = (written' \o batch') \o messages_'
    BY <2>1, <1>2, <1>3
  <2> QED  BY <2>2 DEF LInv, FirstInFirstOut
<1>6. NoSleepOverLoud' /\ WritersApart'
  BY DEF LInv, NoSleepOverLoud, WritersApart
<1>7. QuietThread' /\ Requests'
  BY DEF LInv, QuietThread, Requests
<1> QED  BY <1>4, <1>5, <1>6, <1>7 DEF LInv

LEMMA WriteLogInv ==
  ASSUME LInv, WriteLog
  PROVE  LInv'
<1> USE DEF LInv, WriteLog, modes, writers, controls
<1>1. /\ <<>> \in Seq(Message)
      /\ batch \in Seq(Message) /\ written \in Seq(Message)
  BY EmptySeq DEF LTypeOK
<1>2. written \o batch \in Seq(Message) /\ (written \o batch) \o <<>> = written \o batch
  BY <1>1, ConcatEmptySeq, ConcatProperties
<1>3. LTypeOK'
  BY <1>1, <1>2 DEF LTypeOK
<1>4. FirstInFirstOut'
  BY <1>2 DEF FirstInFirstOut
<1>5. NoSleepOverLoud' /\ WritersApart' /\ QuietThread' /\ Requests'
  BY DEF NoSleepOverLoud, WritersApart, QuietThread, Requests
<1> QED  BY <1>3, <1>4, <1>5

LEMMA ControlInv ==
  ASSUME LInv,
         \/ \E call \in {"stop", "start", "destroy"} : Signal(call)
         \/ NotifyStop \/ Join \/ Spawn \/ DestroyIdle
         \/ \E file, console \in Levels, interval \in BOOLEAN : SetModes(file, console, interval)
  PROVE  LInv'
<1> USE DEF LInv, modes, queue, writers, controls
<1>1. LTypeOK /\ FirstInFirstOut /\ NoSleepOverLoud /\ WritersApart /\ QuietThread /\ Requests
  OBVIOUS
<1>2. ASSUME NEW call \in {"stop", "start", "destroy"}, Signal(call) PROVE LInv'
  <2>1. Elements(accepted) \subseteq Message
    <3>1. accepted \in Seq(Message)
      BY DEF LTypeOK
    <3> QED  BY ONLY <3>1, ElementOfSeq DEF Elements
  <2>2. LTypeOK'
    BY <1>2, <2>1 DEF Signal, LTypeOK
  <2>3. Requests'
    BY <1>2 DEF Signal, Requests
  <2>4. FirstInFirstOut' /\ WritersApart'
    BY <1>2 DEF Signal, FirstInFirstOut, WritersApart
  <2>5. NoSleepOverLoud'
    <3>1. /\ NoSleepOverLoud
          /\ pc' = pc /\ messages_' = messages_ /\ file_mode_' = file_mode_
          /\ console_mode_' = console_mode_ /\ write_interval_' = write_interval_
      BY <1>2 DEF Signal
    <3>2. \A m : Loud(m)' <=> Loud(m)
      BY ONLY <3>1 DEF Loud
    <3>3. Elements(messages_)' = Elements(messages_)
      BY ONLY <3>1 DEF Elements
    <3> QED  BY ONLY <3>1, <3>2, <3>3, Zenon DEF NoSleepOverLoud
  <2>6. QuietThread'
    BY <1>2 DEF Signal, QuietThread
  <2> QED  BY <2>2, <2>3, <2>4, <2>5, <2>6
<1>3. CASE NotifyStop
  <2>1. LTypeOK'
    BY <1>3 DEF NotifyStop, LTypeOK, Woken
  <2>2. FirstInFirstOut' /\ WritersApart'
    <3>1. /\ messages_' = messages_ /\ batch' = batch /\ accepted' = accepted
          /\ written' = written /\ at' = at /\ writing' = writing
      BY <1>3 DEF NotifyStop
    <3>2. FirstInFirstOut'
      BY ONLY <1>1, <3>1 DEF FirstInFirstOut
    <3>3. pc # "block" => pc' # "block"
      BY <1>3 DEF NotifyStop, Woken
    <3>4. Elements(accepted)' = Elements(accepted)
      BY ONLY <3>1 DEF Elements
    <3> QED  BY ONLY <1>1, <3>1, <3>2, <3>3, <3>4 DEF WritersApart
  <2>3. NoSleepOverLoud'
    <3>1. pc' # "asleep"
      BY <1>3 DEF NotifyStop, Woken
    <3> QED  BY ONLY <3>1 DEF NoSleepOverLoud
  <2>4. QuietThread' /\ Requests'
    BY <1>3 DEF NotifyStop, QuietThread, Requests, Woken
  <2> QED  BY <2>1, <2>2, <2>3, <2>4
<1>4. CASE Join
  <2>1. LTypeOK'
    BY <1>4 DEF Join, LTypeOK
  <2> QED
    BY <1>4, <2>1 DEF Join, FirstInFirstOut, NoSleepOverLoud, Loud, WritersApart, QuietThread, Requests
<1>5. CASE Spawn
  <2>1. LTypeOK'
    BY <1>5 DEF Spawn, LTypeOK
  <2> QED
    BY <1>5, <2>1 DEF Spawn, FirstInFirstOut, NoSleepOverLoud, Loud, WritersApart, QuietThread, Requests
<1>6. CASE DestroyIdle
  <2>1. LTypeOK'
    BY <1>6 DEF DestroyIdle, LTypeOK
  <2> QED
    BY <1>6, <2>1 DEF DestroyIdle, FirstInFirstOut, NoSleepOverLoud, Loud, WritersApart, QuietThread,
                      Requests
<1>7. ASSUME NEW file \in Levels, NEW console \in Levels, NEW interval \in BOOLEAN,
             SetModes(file, console, interval)
      PROVE  LInv'
  <2>1. LTypeOK'
    BY <1>7, LoggerAssumption DEF SetModes, LTypeOK
  <2> QED
    BY <1>7, <2>1 DEF SetModes, FirstInFirstOut, NoSleepOverLoud, WritersApart, QuietThread, Requests
<1> QED  BY <1>2, <1>3, <1>4, <1>5, <1>6, <1>7

LEMMA LNextInv == LInv /\ [LNext]_loggerVars => LInv'
<1> SUFFICES ASSUME LInv, [LNext]_loggerVars PROVE LInv'
  OBVIOUS
<1>1. ASSUME NEW c \in Client, NEW m \in Message, WriteAccept(c, m) \/ WriteDrop(c, m) PROVE LInv'
  BY <1>1, WriteOtherInv
<1>2. ASSUME NEW c \in Client, WriteAppend(c) PROVE LInv'
  BY <1>2, WriteAppendInv
<1>3. CASE Begin \/ LoopTest \/ FallAsleep \/ TimeOut \/ SpuriousWake \/ End
  BY <1>3, StepInv
<1>4. CASE Await \/ AfterTimeOut
  <2>1. batch = <<>> /\ pc \in {"lock", "timed out"}
    BY <1>4 DEF Await, AfterTimeOut, LInv, QuietThread
  <2>2. CASE Swap
    BY <2>1, <2>2, SwapInv
  <2>3. CASE ~Swap
    <3>1. pc = "lock" /\ MutexFree /\ messages_ = <<>> /\ Step("lock", "block")
      BY <1>4, <2>3 DEF Await, AfterTimeOut, LInv, LTypeOK
    <3> QED
      BY <3>1 DEF Step, MutexFree, LInv, LTypeOK, FirstInFirstOut, NoSleepOverLoud, WritersApart,
                  QuietThread, Requests, modes, queue, writers, controls
  <2> QED  BY <2>2, <2>3
<1>5. CASE WriteLog
  BY <1>5, WriteLogInv
<1>6. CASE \/ \E call \in {"stop", "start", "destroy"} : Signal(call)
           \/ NotifyStop \/ Join \/ Spawn \/ DestroyIdle
           \/ \E file, console \in Levels, interval \in BOOLEAN : SetModes(file, console, interval)
  BY <1>6, ControlInv
<1>7. CASE UNCHANGED loggerVars
  BY <1>7, IdleInv DEF loggerVars, writers, LInv, LTypeOK
<1> QED  BY <1>1, <1>2, <1>3, <1>4, <1>5, <1>6, <1>7 DEF LNext, Run, Proceed

-----------------------------------------------------------------------------

\* The inductive invariant holds.
LEMMA LoggerInductive == LSpec => []LInv
<1>1. LInit => LInv
  BY LInitInv
<1>2. LInv /\ [LNext]_loggerVars => LInv'
  BY LNextInv
<1> QED  BY <1>1, <1>2, PTL DEF LSpec

\* The state of the logger is well typed: no message is moved from, no client
\* writes nothing.
THEOREM LoggerTypeCorrect == LSpec => []LTypeOK
<1>1. LInv => LTypeOK
  BY DEF LInv
<1> QED  BY <1>1, LoggerInductive, PTL

\* Every message that write() accepts is output once and in order, over any
\* number of starts and stops.
THEOREM LoggerKeepsOrder == LSpec => []FirstInFirstOut
<1>1. LInv => FirstInFirstOut
  BY DEF LInv
<1> QED  BY <1>1, LoggerInductive, PTL

\* A logging thread does not end before it has output what was accepted when
\* stop() was called.
THEOREM LoggerFlushes == LSpec => []StopFlushes
<1>1. LInv => StopFlushes
  BY DEF LInv, Requests, StopFlushes
<1> QED  BY <1>1, LoggerInductive, PTL

\* With no interval the logging thread does not sleep on a loud message.
THEOREM LoggerStaysAwake == LSpec => []NoSleepOverLoud
<1>1. LInv => NoSleepOverLoud
  BY DEF LInv
<1> QED  BY <1>1, LoggerInductive, PTL

\* Once start() was called, write() refuses a message only while stop() waits.
THEOREM LoggerDrops == LSpec => DropsOnlyWhileStopping
<1>1. LInv /\ [LNext]_loggerVars =>
        [started /\ dropped' # dropped => control \in {"signalled", "joining"}]_loggerVars
  <2> SUFFICES ASSUME LInv, LNext, started, dropped' # dropped
               PROVE  control \in {"signalled", "joining"}
    BY DEF loggerVars, writers
  <2>1. PICK c \in Client, m \in Message : WriteDrop(c, m)
    BY DEF LNext, WriteAccept, WriteAppend, Run, Begin, LoopTest, FallAsleep, TimeOut, SpuriousWake,
           End, Step, Await, AfterTimeOut, Swap, WriteLog, Signal, Proceed, NotifyStop, Join, Spawn,
           DestroyIdle, SetModes, writers
  <2> QED  BY <2>1 DEF WriteDrop, LInv, Requests
<1> QED  BY <1>1, LoggerInductive, PTL DEF LSpec, DropsOnlyWhileStopping
=============================================================================
