------------------------------ MODULE Combiner ------------------------------
(***************************************************************************)
(* Utilities::Combiner (src/Utilities/Combiner.cpp): byte sequences one    *)
(* after the other in one vector, each behind its size and in reverse.     *)
(***************************************************************************)
EXTENDS Naturals, Sequences, SequencesExt

CONSTANTS
  Byte,      \* what a uint8_t may be
  WordSize,  \* sizeof(size_t)
  MaxSize,   \* the largest size that is written
  Word(_),   \* the bytes of a size_t, as memcpy finds them
  Size(_)    \* the size_t that memcpy makes of such bytes

ASSUME WordAssumption ==
  /\ WordSize \in Nat \ {0}
  /\ MaxSize \in Nat
  /\ \A n \in 0 .. MaxSize :
       /\ Word(n) \in Seq(Byte)
       /\ Len(Word(n)) = WordSize
       /\ Size(Word(n)) = n

\* What append(result, source) puts at the end of result.
Framed(source) == Word(Len(source)) \o Reverse(source)

\* (Faulty variant: a sequence that was cut short is taken as far as it goes.)
DivideUnchecked(source, index) ==
  LET from == index + WordSize
      size == Size(SubSeq(source, index + 1, from))
  IN  IF Len(source) < from
      THEN [data |-> <<>>, index |-> index]
      ELSE [data |-> Reverse(SubSeq(source, from + 1, Min({from + size, Len(source)}))),
            index |-> from + size]

\* divide(source, index): what it returns and where it leaves index.  An empty
\* sequence stands for the end, for a sequence cut short and for an empty one.
Divide(source, index) ==
  LET from == index + WordSize
      size == Size(SubSeq(source, index + 1, from))
  IN  IF Len(source) < from
      THEN [data |-> <<>>, index |-> index]
      ELSE IF size = 0 \/ Len(source) < from + size
           THEN [data |-> <<>>, index |-> from]
           ELSE [data |-> Reverse(SubSeq(source, from + 1, from + size)),
                 index |-> from + size]
=============================================================================
