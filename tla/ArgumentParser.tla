--------------------------- MODULE ArgumentParser ---------------------------
(***************************************************************************)
(* Utilities::ArgumentParser (src/Utilities/ArgumentParser.cpp): the loop  *)
(* of parse(), which makes the map of the options and their values, one    *)
(* action for each way a turn may go, and to_array(), which makes a list   *)
(* of such a value.                                                        *)
(***************************************************************************)
EXTENDS Converter, Functions

CONSTANTS
  Argument,
  Option,         \* the arguments that begin with "--"
  Help, Version,  \* the two that take no value
  HelpText, VersionText,
  Comma, Blank    \* characters: a comma, and one that \s stands for

ASSUME ArgumentAssumption ==
  /\ {Help, Version} \subseteq Option /\ Help # Version
  /\ Option \subseteq Argument
  /\ Comma # Blank

VARIABLES
  arguments,  \* the arguments of the program, but for its name
  index,      \* counted from 1
  result      \* the map: its domain is a set of options

parseVars == <<arguments, index, result>>

argc == Len(arguments)

argument_id == arguments[index]

Finished == index > argc

TextOf == [o \in {Help, Version} |-> IF o = Help THEN HelpText ELSE VersionText]

With(key, value) ==
  [o \in DOMAIN result \cup {key} |-> IF o = key THEN value ELSE result[o]]

APInit ==
  /\ arguments \in Seq(Argument)
  /\ index = 1
  /\ result = <<>>

NoOption ==
  /\ ~Finished /\ argument_id \notin Option
  /\ index' = index + 1
  /\ UNCHANGED <<arguments, result>>

\* insert() leaves a value that is there alone.
TakesNoValue ==
  /\ ~Finished /\ argument_id \in {Help, Version}
  /\ index' = index + 1
  /\ result' = IF argument_id \in DOMAIN result THEN result
               ELSE With(argument_id, TextOf[argument_id])
  /\ UNCHANGED arguments

ValueIsMissing ==
  /\ ~Finished /\ argument_id \in Option \ {Help, Version} /\ index + 1 > argc
  /\ index' = argc + 1
  /\ UNCHANGED <<arguments, result>>

\* (Faulty variant: the value is looked at again, as an option of its own.)
TakesValueTwice ==
  /\ ~Finished /\ argument_id \in Option \ {Help, Version} /\ index + 1 <= argc
  /\ result' = With(argument_id, arguments[index + 1])
  /\ index' = index + 1
  /\ UNCHANGED arguments

TakesValue ==
  /\ ~Finished /\ argument_id \in Option \ {Help, Version} /\ index + 1 <= argc
  /\ result' = With(argument_id, arguments[index + 1])
  /\ index' = index + 2
  /\ UNCHANGED arguments

APNext == NoOption \/ TakesNoValue \/ ValueIsMissing \/ TakesValue

APSpec == APInit /\ [][APNext]_parseVars

\* (Faulty variant: the blanks are part of the group.)
ToArrayKeepsBlanks(value) ==
  LET end == Len(value)
      CommaAt(i) == i = end \/ value[i + 1] = Comma
      RunEnd[i \in 0 .. end] == IF CommaAt(i) THEN i ELSE RunEnd[i + 1]
      From[i \in 0 .. end] ==
        CASE i = end -> <<>>
          [] i < end /\ CommaAt(i) -> From[i + 1]
          [] OTHER -> <<Substr(value, i, RunEnd[i])>> \o From[RunEnd[i]]
  IN  From[0]

\* The matches of the expression \s*([^,]+)\s* from left to right: what the
\* group has of each.  The blanks before it are left out, but for the last one
\* of a match that has nothing else; those behind it are part of the group.
ToArray(value) ==
  LET end == Len(value)
      CommaAt(i) == i = end \/ value[i + 1] = Comma
      RunEnd[i \in 0 .. end] == IF CommaAt(i) THEN i ELSE RunEnd[i + 1]
      GroupStart[i \in 0 .. end - 1] ==
        IF value[i + 1] # Blank \/ i + 1 = end \/ CommaAt(i + 1) THEN i ELSE GroupStart[i + 1]
      From[i \in 0 .. end] ==
        CASE i = end -> <<>>
          [] i < end /\ CommaAt(i) -> From[i + 1]
          [] OTHER -> <<Substr(value, GroupStart[i], RunEnd[i])>> \o From[RunEnd[i]]
  IN  From[0]

-----------------------------------------------------------------------------
(* Properties.                                                             *)

\* Which of the arguments parse() reads as options: those that begin with "--",
\* but for the values of others, whatever these values look like.
Read ==
  CHOOSE K \in SUBSET (1 .. argc) :
    \A i \in 1 .. argc :
      i \in K <=> /\ arguments[i] \in Option
                  /\ ~(i - 1 \in K /\ arguments[i - 1] \notin {Help, Version})

\* The value of an option is the argument behind its last occurrence as an option
\* that has one behind it, and a value is never read as an option of its own; an
\* option that comes last without a value does not erase the one it had.
ParsedArguments ==
  Finished =>
    LET Given(o) == {i \in Read : arguments[i] = o /\ (i < argc \/ o \in {Help, Version})}
    IN  /\ DOMAIN result = {o \in Option : Given(o) # {}}
        /\ \A o \in DOMAIN result :
             result[o] = IF o \in {Help, Version} THEN TextOf[o]
                         ELSE LET last == CHOOSE i \in Given(o) : \A j \in Given(o) : j <= i
                              IN  arguments[last + 1]
=============================================================================
