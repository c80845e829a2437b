----------------------------- MODULE Converter -----------------------------
(***************************************************************************)
(* The loops of Utilities::Converter (src/Utilities/Converter.cpp) that    *)
(* cut a string at a token: split() and replace2().  A string is a         *)
(* sequence of characters, an offset is counted from 0 as in the code.     *)
(* An empty token, with which neither loop ends, is outside of the model.  *)
(***************************************************************************)
EXTENDS Integers, Sequences

\* (size_t)-1: no offset at all.
npos == -1

\* std::string::find(token, from)
OccursAt(source, token, i) ==
  i + Len(token) <= Len(source) /\ SubSeq(source, i + 1, i + Len(token)) = token

Find(source, token, from) ==
  IF \E i \in from .. Len(source) : OccursAt(source, token, i)
  THEN CHOOSE i \in from .. Len(source) :
         /\ OccursAt(source, token, i)
         /\ \A j \in from .. i - 1 : ~OccursAt(source, token, j)
  ELSE npos

\* source.substr(from, to - from), to the end when to is npos.
Substr(source, from, to) == SubSeq(source, from + 1, IF to = npos THEN Len(source) ELSE to)

IfNotEmpty(piece) == IF piece = <<>> THEN <<>> ELSE <<piece>>

\* (Faulty variant: what follows the last token is always a piece.)
SplitKeepsEmptyTail(source, token) ==
  LET From[last_offset \in 0 .. Len(source)] ==
        LET offset == Find(source, token, last_offset)
            piece == Substr(source, last_offset, offset)
        IN  IF offset = npos
            THEN <<piece>>
            ELSE IfNotEmpty(piece) \o From[offset + Len(token)]
  IN  IF source = <<>> THEN <<>> ELSE From[0]

\* The loop goes on behind each token; a source without one is returned as it is.
Split(source, token) ==
  LET From[last_offset \in 0 .. Len(source)] ==
        LET offset == Find(source, token, last_offset)
            piece == IfNotEmpty(Substr(source, last_offset, offset))
        IN  IF offset = npos THEN piece ELSE piece \o From[offset + Len(token)]
  IN  IF source = <<>> THEN <<>> ELSE From[0]

\* (Faulty variant: the loop goes on at the next character.)
Replace2Overlapping(source, token, target) ==
  LET From[last_offset \in 0 .. Len(source)] ==
        LET offset == Find(source, token, last_offset)
            piece == Substr(source, last_offset, offset)
        IN  IF offset = npos THEN piece ELSE piece \o target \o From[offset + 1]
  IN  From[0]

Replace2(source, token, target) ==
  LET From[last_offset \in 0 .. Len(source)] ==
        LET offset == Find(source, token, last_offset)
            piece == Substr(source, last_offset, offset)
        IN  IF offset = npos THEN piece ELSE piece \o target \o From[offset + Len(token)]
  IN  From[0]
=============================================================================
