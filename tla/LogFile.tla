------------------------------ MODULE LogFile ------------------------------
(***************************************************************************)
(* The log files of Utilities::Logger: write_file() and check_life_cycle() *)
(* (src/Utilities/Logger.cpp) over File (src/Utilities/File.cpp).          *)
(*                                                                         *)
(* The logging thread writes each batch of messages to the file of the     *)
(* day.  With a limit of lines it reads the file, drops lines from the     *)
(* front, truncates the file and writes it again; with none it appends.    *)
(* The process may die between opening the file and closing it.  A message *)
(* of several lines is one line for the limit until it is read again.      *)
(*                                                                         *)
(* No error of the file system is noticed: a file that cannot be opened to *)
(* be read, or read to its end, is taken for one without the rest of its   *)
(* lines; one that cannot be opened to be written is left as it is; and of *)
(* what is written to a full disk a part is lost.  A line that is cut in   *)
(* the middle counts as not written.                                       *)
(*                                                                         *)
(* Each run of the thread removes old files when it begins and ends.       *)
(* file_backup_mode_ is never set, so the two functions backup_file() are  *)
(* never called, nor is openmode_ of a File, so that no call is refused by *)
(* it.  The lines that are written are numbered.                           *)
(***************************************************************************)
EXTENDS Integers, Sequences, SequencesExt

CONSTANTS
  LineCounts,  \* the arguments that the program gives to max_lines()
  Width,       \* max_lines_ is unsigned: it is kept modulo this (2^16 in the code)
  Batches,     \* the batches that are written: sequences of numbers of lines
  Period,      \* life_cycle_period_, in days
  Skews,       \* by how many days the epoch of file_clock may follow that of system_clock
  LastDay,     \* a bound on the days that pass
  MaxWritten   \* a bound on the lines that are written

ASSUME LogFileAssumption ==
  /\ LineCounts \subseteq Nat /\ Width \in Nat \ {0}
  /\ \A batch \in Batches : batch \in Seq(Nat \ {0}) /\ batch # <<>>
  /\ Period \in Nat /\ Skews \subseteq Int
  /\ LastDay \in Nat /\ MaxWritten \in Nat

VARIABLES
  skew,        \* which of Skews it is in this build
  today,
  files,       \* the lines of the file of each day, <<>> when there is none
  max_lines_,
  thread,      \* "none", "running", or "writing" while the file is open for writing
  unwritten,   \* the lines that are still to be written to it
  written,     \* (history) how many lines were written
  keep         \* (history) how many of the last of them the file of today owes

logFileVars == <<skew, today, files, max_lines_, thread, unwritten, written, keep>>

Day == 0..LastDay

\* Line numbers only, in the files of days that have come.
LFTypeOK ==
  /\ skew \in Skews
  /\ today \in Day
  /\ \A day \in Day : ToSet(files[day]) \subseteq 1..written
  /\ \A day \in Day : day > today => files[day] = <<>>
  /\ max_lines_ \in 0..(Width - 1)
  /\ thread \in {"none", "running", "writing"}
  /\ unwritten # <<>> => thread = "writing"
  /\ written \in Nat /\ keep \in Nat

LFInit ==
  /\ skew \in Skews
  /\ today = 0
  /\ files = [day \in Day |-> <<>>]
  /\ max_lines_ \in {count % Width : count \in LineCounts}
  /\ thread = "none" /\ unwritten = <<>>
  /\ written = 0 /\ keep = 0

-----------------------------------------------------------------------------
(* check_life_cycle()                                                      *)

\* The whole days that may have passed since a file of that day was written.
Ages(day) == IF day = today THEN {0} ELSE {today - day - 1, today - day}

\* (Faulty variant: the last day of the period does not belong to it.)
OldInclusive(day, age) == age + skew >= Period

Old(day, age) == age + skew > Period

CheckLifeCycle ==
  \E removed \in SUBSET {day \in Day : files[day] # <<>>} :
    /\ \A day \in {d \in Day : files[d] # <<>>} :
         \E age \in Ages(day) : day \in removed <=> Old(day, age)
    /\ files' = [day \in Day |-> IF day \in removed THEN <<>> ELSE files[day]]
    /\ keep' = IF today \in removed THEN 0 ELSE keep

\* run() begins, and ends.
Begin ==
  /\ thread = "none"
  /\ CheckLifeCycle
  /\ thread' = "running"
  /\ UNCHANGED <<skew, today, max_lines_, unwritten, written>>

End ==
  /\ thread = "running"
  /\ CheckLifeCycle
  /\ thread' = "none"
  /\ UNCHANGED <<skew, today, max_lines_, unwritten, written>>

-----------------------------------------------------------------------------
(* write_file()                                                            *)

Sum(batch) == FoldLeft(LAMBDA a, b : a + b, 0, batch)

\* The lines of each message of a batch.
Numbered(batch) ==
  [i \in 1..Len(batch) |->
     [k \in 1..batch[i] |-> written + Sum(SubSeq(batch, 1, i - 1)) + k]]

\* Each message pushes at most one element out: a line that was read, or a
\* whole message of its own batch.
Push(lines, message) ==
  Append(IF Len(lines) >= max_lines_ THEN Tail(lines) ELSE lines, message)

\* (Faulty variant: what is over the limit goes after the batch was added.)
RewrittenLate(file, batch) ==
  LET lines == file \o FlattenSeq(Numbered(batch))
  IN  IF Len(lines) > max_lines_ THEN SubSeq(lines, Len(batch) + 1, Len(lines)) ELSE lines

Rewritten(file, batch) ==
  FlattenSeq(FoldLeft(Push, [i \in 1..Len(file) |-> <<file[i]>>], Numbered(batch)))

\* With a limit the file is read first, as far as that is possible, and opening
\* it again truncates it.
OpenForWriting(batch) ==
  /\ thread = "running"
  /\ written + Sum(batch) <= MaxWritten
  /\ thread' = "writing"
  /\ written' = written + Sum(batch)
  /\ \/ /\ max_lines_ = 0
        /\ unwritten' = FlattenSeq(Numbered(batch))
        /\ keep' = keep + Sum(batch)
        /\ UNCHANGED files
     \/ /\ max_lines_ # 0
        /\ \E k \in 0..Len(files[today]) :
             LET owed == (IF k = Len(files[today]) THEN keep ELSE 0) + Sum(batch)
             IN  /\ unwritten' = Rewritten(SubSeq(files[today], 1, k), batch)
                 /\ keep' = IF owed < max_lines_ THEN owed ELSE max_lines_
        /\ files' = [files EXCEPT ![today] = <<>>]
  /\ UNCHANGED <<skew, today, max_lines_>>

\* The file cannot be opened to be written: the batch is lost, and nothing else.
OpenFails(batch) ==
  /\ thread = "running"
  /\ written + Sum(batch) <= MaxWritten
  /\ written' = written + Sum(batch)
  /\ keep' = 0
  /\ UNCHANGED <<skew, today, files, max_lines_, thread, unwritten>>

\* Part of the lines, or all of them, get to the disk.  Those that were appended
\* before are there, those of a file that was truncated are not.
LinesAreWritten ==
  /\ \E k \in 0..Len(unwritten) :
       /\ files' = [files EXCEPT ![today] = @ \o SubSeq(unwritten, 1, k)]
       /\ keep' = IF k = Len(unwritten) THEN keep ELSE 0
  /\ unwritten' = <<>>
  /\ UNCHANGED <<skew, today, max_lines_, written>>

\* write_lines() and close(): neither looks whether the disk was full.
WriteLines ==
  /\ thread = "writing"
  /\ LinesAreWritten
  /\ thread' = "running"

\* The process dies.
Crash ==
  /\ thread # "none"
  /\ LinesAreWritten
  /\ thread' = "none"

-----------------------------------------------------------------------------
MaxLines(count) ==
  /\ thread = "none"
  /\ max_lines_' = count % Width
  /\ UNCHANGED <<skew, today, files, thread, unwritten, written, keep>>

\* (Not while a file is open: a write belongs to one day.)
Midnight ==
  /\ thread # "writing"
  /\ today < LastDay
  /\ today' = today + 1
  /\ keep' = 0
  /\ UNCHANGED <<skew, files, max_lines_, thread, unwritten, written>>

LFNext ==
  \/ Begin \/ End
  \/ \E batch \in Batches : OpenForWriting(batch) \/ OpenFails(batch)
  \/ WriteLines
  \/ Crash
  \/ \E count \in LineCounts : MaxLines(count)
  \/ Midnight

LFSpec == LFInit /\ [][LFNext]_logFileVars

-----------------------------------------------------------------------------
(* Properties.                                                             *)

\* The file of the day has its lines in the order they were written, each
\* once, and ends with the newest ones: all that were written since the file
\* was begun, or since a crash, a full disk or a file that could not be opened
\* or read lost some of them; or as many of those as the smallest limit since
\* allowed.
FileEndsWithTheNewest ==
  /\ \A day \in Day : \A i \in 2..Len(files[day]) : files[day][i - 1] < files[day][i]
  /\ thread # "writing" =>
       LET file == files[today]
       IN  /\ Len(file) >= keep
           /\ \A i \in 0..(keep - 1) : file[Len(file) - i] = written - i

\* A file is removed at most by check_life_cycle(), and never within the
\* life cycle, where the epoch of file_clock is not after that of system_clock.
NoYoungFileRemoved ==
  [][\A day \in Day :
       files[day] # <<>> /\ files'[day] = <<>> /\ skew <= 0 /\ thread' # "writing" /\ thread # "writing" =>
         today - day > Period]_logFileVars
=============================================================================
