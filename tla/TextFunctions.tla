---------------------------- MODULE TextFunctions ----------------------------
(***************************************************************************)
(* A program that parses its arguments, and calls split(), replace2() and  *)
(* to_array() with strings of its own: what these functions return, said   *)
(* without a loop.                                                         *)
(***************************************************************************)
EXTENDS ArgumentParser, FiniteSetsExt, SequencesExt

CONSTANT Character

ASSUME CharacterAssumption == {Comma, Blank} \subseteq Character

VARIABLES source, token, target  \* the strings

textVars == <<parseVars, source, token, target>>

TextInit ==
  /\ APInit
  /\ source \in Seq(Character) /\ token \in Seq(Character) \ {<<>>} /\ target \in Seq(Character)

TextNext == APNext /\ UNCHANGED <<source, token, target>>

TextSpec == TextInit /\ [][TextNext]_textVars

-----------------------------------------------------------------------------
(* Properties.                                                             *)

\* The occurrences of the token, from the left, that do not overlap one another.
Cuts ==
  LET Occurrences == {i \in 0 .. Len(source) : OccursAt(source, token, i)}
  IN  CHOOSE S \in SUBSET Occurrences :
        \A i \in Occurrences : i \in S <=> ~\E j \in S : j < i /\ i < j + Len(token)

\* The numbers of a set, the smallest first.
Ascending(S) ==
  [k \in 1 .. Cardinality(S) |-> CHOOSE s \in S : Cardinality({r \in S : r < s}) = k - 1]

\* What is between the cuts: before the first, between two, behind the last.
Gaps ==
  LET starts == Ascending({0} \cup {i + Len(token) : i \in Cuts})
      GapEnd(s) == Min({i \in Cuts : i >= s} \cup {Len(source)})
  IN  [k \in DOMAIN starts |-> SubSeq(source, starts[k] + 1, GapEnd(starts[k]))]

\* split() returns what is left of the source between the tokens, without the
\* empty pieces; replace2() puts the target for each token and leaves the rest
\* alone, and does not look at what it has put there.
CutsAtTokens ==
  LET gaps == Gaps
  IN  /\ Split(source, token) = FlattenSeq([k \in DOMAIN gaps |-> IfNotEmpty(gaps[k])])
      /\ Replace2(source, token, target) =
           FlattenSeq([k \in DOMAIN gaps |-> IF k < Len(gaps) THEN gaps[k] \o target ELSE gaps[k]])

\* A piece without the blanks it begins with, or its last blank when it has nothing else.
Trimmed(piece) ==
  IF \A i \in DOMAIN piece : piece[i] = Blank
  THEN <<Blank>>
  ELSE CHOOSE s \in Suffixes(piece) :
         s # <<>> /\ s[1] # Blank
         /\ \A r \in Suffixes(piece) : r # <<>> /\ r[1] # Blank => Len(r) <= Len(s)

\* to_array() has an element for each piece that split() finds at the commas, in
\* the same order: the piece without the blanks it begins with.
ListsAreSplits ==
  LET pieces == Split(source, <<Comma>>)
  IN  ToArray(source) = [k \in DOMAIN pieces |-> Trimmed(pieces[k])]
=============================================================================
