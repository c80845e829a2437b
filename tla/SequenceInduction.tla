------------------------- MODULE SequenceInduction -------------------------
(***************************************************************************)
(* Lemmas that the proof modules share: induction over numbers and over    *)
(* sequences, for the members of a set, and with it what FlattenSeq() of   *)
(* the community modules computes; where a part lies in a sequence; a      *)
(* division that rounds up.                                                *)
(*                                                                         *)
(* The library states induction for a predicate that is a parameter.  Here *)
(* it is stated for a set, {n \in Nat : ...}, and follows from the well-   *)
(* foundedness of < on Nat.                                                *)
(***************************************************************************)
EXTENDS Naturals, Sequences, SequencesExt, SequenceTheorems, WellFoundedInduction, TLAPS

\* A set of natural numbers has a least element.
LEMMA LeastElement ==
  ASSUME NEW T, T \subseteq Nat, T # {}
  PROVE  \E n \in T : \A m \in T : n <= m
<1> DEFINE R == {p \in Nat \X Nat : p[1] < p[2]}
<1>1. IsWellFoundedOn(R, Nat)
  BY NatLessThanWellFounded DEF OpToRel
<1> HIDE DEF R
<1>2. PICK n \in T : \A m \in T : ~(<<m, n>> \in R)
  BY <1>1, WFMin
<1>3. ASSUME NEW m \in T
      PROVE  n <= m
  <2>1. ~(<<m, n>> \in R)
    BY <1>2
  <2>2. n \in Nat /\ m \in Nat
    BY <1>2
  <2> QED  BY <2>1, <2>2 DEF R
<1> QED  BY <1>2, <1>3

\* Induction, for the members of a set.
LEMMA NatSetInduction ==
  ASSUME NEW S, 0 \in S, \A n \in Nat : n \in S => n + 1 \in S
  PROVE  \A n \in Nat : n \in S
<1> DEFINE T == Nat \ S
<1>1. SUFFICES ASSUME T # {} PROVE FALSE
  OBVIOUS
<1>2. T \subseteq Nat
  OBVIOUS
<1> HIDE DEF T
<1>3. PICK n \in T : \A m \in T : n <= m
  BY <1>1, <1>2, LeastElement
<1> USE DEF T
<1>4. n # 0 /\ n \in Nat
  BY <1>3
<1>5. n - 1 \in Nat /\ n - 1 \notin T
  BY <1>3, <1>4
<1> QED  BY <1>3, <1>4, <1>5

\* The recursive function in FlattenSeq(), the sequences one after the other, exists:
\* its n-th value is the (n-1)-th with the n-th sequence behind it.
LEMMA FlattenUnfold ==
  ASSUME NEW seqs, Len(seqs) \in Nat \ {0}
  PROVE  \E f : /\ FlattenSeq(seqs) = f[Len(seqs)]
                /\ f[1] = seqs[1]
                /\ \A i \in 1 .. Len(seqs) - 1 : f[i + 1] = f[i] \o seqs[i + 1]
<1> DEFINE Unfolds(f, n) == f = [i \in 1 .. n |-> IF i = 1 THEN seqs[i] ELSE f[i - 1] \o seqs[i]]
           S == {n \in Nat : \E f : Unfolds(f, n)}
<1>1. 0 \in S
  <2>1. Unfolds([i \in 1 .. 0 |-> 0], 0)
    OBVIOUS
  <2> QED  BY <2>1
<1>2. ASSUME NEW n \in Nat, n \in S
      PROVE  n + 1 \in S
  <2>1. PICK f : Unfolds(f, n)
    BY <1>2
  <2> DEFINE g == [i \in 1 .. n + 1 |-> IF i = n + 1 THEN (IF i = 1 THEN seqs[i] ELSE f[i - 1] \o seqs[i])
                                        ELSE f[i]]
  <2>2. ASSUME NEW i \in 1 .. n + 1
        PROVE  g[i] = IF i = 1 THEN seqs[i] ELSE g[i - 1] \o seqs[i]
    <3>1. CASE i = n + 1
      <4>1. i # 1 => i - 1 \in 1 .. n + 1 /\ i - 1 # n + 1
        BY <3>1
      <4> QED  BY <3>1, <4>1
    <3>2. CASE i # n + 1
      <4>1. i \in 1 .. n /\ (i # 1 => i - 1 \in 1 .. n + 1 /\ i - 1 # n + 1)
        BY <3>2
      <4>2. g[i] = f[i] /\ (i # 1 => g[i - 1] = f[i - 1])
        BY <3>2, <4>1
      <4>3. f[i] = IF i = 1 THEN seqs[i] ELSE f[i - 1] \o seqs[i]
        BY <2>1, <4>1
      <4> QED  BY <4>2, <4>3
    <3> QED  BY <3>1, <3>2
  <2>3. g = [i \in 1 .. n + 1 |-> g[i]]
    OBVIOUS
  <2> HIDE DEF g
  <2>4. Unfolds(g, n + 1)
    BY <2>2, <2>3
  <2> HIDE DEF Unfolds
  <2> QED  BY <2>4
<1> HIDE DEF S
<1>3. \A n \in Nat : n \in S
  BY <1>1, <1>2, NatSetInduction
<1>4. \E f : Unfolds(f, Len(seqs))
  BY <1>3 DEF S
<1> DEFINE flatten == CHOOSE f : Unfolds(f, Len(seqs))
<1>5. Unfolds(flatten, Len(seqs))
  <2> HIDE DEF Unfolds
  <2> QED  BY <1>4
<1>6. FlattenSeq(seqs) = flatten[Len(seqs)]
  BY DEF FlattenSeq
<1> HIDE DEF flatten
<1>7. flatten[1] = seqs[1]
  BY <1>5
<1>8. ASSUME NEW i \in 1 .. Len(seqs) - 1
      PROVE  flatten[i + 1] = flatten[i] \o seqs[i + 1]
  <2>1. i + 1 \in 1 .. Len(seqs) /\ i + 1 # 1 /\ (i + 1) - 1 = i
    OBVIOUS
  <2>2. flatten[i + 1] = flatten[(i + 1) - 1] \o seqs[i + 1]
    BY <1>5, <2>1
  <2> QED  BY <2>1, <2>2
<1> QED  BY <1>6, <1>7, <1>8

\* Induction over sequences, for the members of a set.
LEMMA SeqSetInduction ==
  ASSUME NEW S, NEW T, <<>> \in T,
         \A s \in Seq(S) : \A e \in S : s \in T => Append(s, e) \in T
  PROVE  \A s \in Seq(S) : s \in T
<1> DEFINE N == {n \in Nat : \A s \in Seq(S) : Len(s) = n => s \in T}
<1>1. 0 \in N
  <2>1. \A s \in Seq(S) : Len(s) = 0 => s = <<>>
    BY EmptySeq
  <2> QED  BY <2>1
<1>2. ASSUME NEW n \in Nat, n \in N
      PROVE  n + 1 \in N
  <2> SUFFICES ASSUME NEW s \in Seq(S), Len(s) = n + 1
               PROVE  s \in T
    OBVIOUS
  <2>1. s # <<>>
    BY EmptySeq
  <2>2. PICK r \in Seq(S), e \in S : s = Append(r, e)
    BY <2>1, SequenceEmptyOrAppend
  <2>3. Len(r) = n
    BY <2>2, AppendProperties, LenProperties
  <2> QED  BY <1>2, <2>2, <2>3
<1> HIDE DEF N
<1>3. \A n \in Nat : n \in N
  BY <1>1, <1>2, NatSetInduction
<1> QED  BY <1>3, LenProperties DEF N

\* No sequences, one after the other, are the empty one.
LEMMA FlattenEmpty == FlattenSeq(<<>>) = <<>>
BY EmptySeq DEF FlattenSeq

\* A last sequence comes behind all the others.
LEMMA FlattenAppend ==
  ASSUME NEW S, NEW seqs \in Seq(Seq(S)), NEW last \in Seq(S)
  PROVE  FlattenSeq(Append(seqs, last)) = FlattenSeq(seqs) \o last
<1> DEFINE n == Len(seqs)
           more == Append(seqs, last)
<1>1. /\ n \in Nat
      /\ more \in Seq(Seq(S)) /\ Len(more) = n + 1
      /\ \A i \in 1 .. n : more[i] = seqs[i]
      /\ more[n + 1] = last
  BY AppendProperties, LenProperties
<1> HIDE DEF more
<1>2. Len(more) \in Nat \ {0} /\ Len(more) - 1 = n
  BY <1>1
<1>3. PICK f : /\ FlattenSeq(more) = f[Len(more)]
               /\ f[1] = more[1]
               /\ \A i \in 1 .. Len(more) - 1 : f[i + 1] = f[i] \o more[i + 1]
  BY <1>2, FlattenUnfold
<1>4. CASE n = 0
  <2>1. seqs = <<>>
    BY <1>4, EmptySeq
  <2>2. FlattenSeq(more) = last
    BY <1>1, <1>3, <1>4
  <2> QED  BY <2>1, <2>2, FlattenEmpty, ConcatEmptySeq DEF more
<1>5. CASE n # 0
  <2>1. PICK g : /\ FlattenSeq(seqs) = g[n]
                 /\ g[1] = seqs[1]
                 /\ \A i \in 1 .. n - 1 : g[i + 1] = g[i] \o seqs[i + 1]
    BY <1>1, <1>5, FlattenUnfold
  <2> DEFINE N == {k \in Nat : k + 1 \in 1 .. n => f[k + 1] = g[k + 1]}
  <2>2. 0 \in N
    BY <1>1, <1>3, <1>5, <2>1
  <2>3. ASSUME NEW k \in Nat, k \in N
        PROVE  k + 1 \in N
    <3>0. (k + 1) + 1 = k + 2
      OBVIOUS
    <3> SUFFICES ASSUME k + 2 \in 1 .. n
                 PROVE  f[k + 2] = g[k + 2]
      BY <3>0
    <3> DEFINE i == k + 1
    <3>1. i \in 1 .. n - 1 /\ i \in 1 .. n /\ i + 1 \in 1 .. n /\ i \in 1 .. Len(more) - 1 /\ k + 2 = i + 1
      BY <1>1
    <3>2. f[i] = g[i]
      BY <2>3, <3>1
    <3> HIDE DEF i
    <3>3. g[i + 1] = g[i] \o seqs[i + 1]
      BY <2>1, <3>1
    <3>4. f[i + 1] = f[i] \o more[i + 1]
      BY <1>3, <3>1
    <3>5. more[i + 1] = seqs[i + 1]
      BY <1>1, <3>1
    <3> QED  BY <3>1, <3>2, <3>3, <3>4, <3>5
  <2> HIDE DEF N
  <2>4. n - 1 \in N
    <3>1. \A k \in Nat : k \in N
      BY <2>2, <2>3, NatSetInduction
    <3> QED  BY <1>1, <1>5, <3>1
  <2>5. f[n] = g[n]
    <3>1. n - 1 + 1 = n /\ n \in 1 .. n
      BY <1>1, <1>5
    <3> QED  BY <2>4, <3>1 DEF N
  <2>6. f[n + 1] = f[n] \o last
    <3>1. n \in 1 .. Len(more) - 1
      BY <1>1, <1>5
    <3> QED  BY <1>1, <1>3, <3>1
  <2> QED  BY <1>1, <1>3, <2>1, <2>5, <2>6 DEF more
<1> QED  BY <1>4, <1>5

\* Elements of the sequences are all there is in the result.
LEMMA FlattenType ==
  ASSUME NEW S, NEW seqs \in Seq(Seq(S))
  PROVE  FlattenSeq(seqs) \in Seq(S)
<1> DEFINE T == {s \in Seq(Seq(S)) : FlattenSeq(s) \in Seq(S)}
<1>1. <<>> \in T
  BY FlattenEmpty, EmptySeq
<1>2. ASSUME NEW s \in Seq(Seq(S)), NEW e \in Seq(S), s \in T
      PROVE  Append(s, e) \in T
  <2>1. Append(s, e) \in Seq(Seq(S))
    BY AppendProperties
  <2>2. FlattenSeq(Append(s, e)) = FlattenSeq(s) \o e
    BY FlattenAppend
  <2> QED  BY <1>2, <2>1, <2>2, ConcatProperties
<1> HIDE DEF T
<1>3. seqs \in T
  BY <1>1, <1>2, SeqSetInduction
<1> QED  BY <1>3 DEF T

\* The sequences of two lists, one after the other, are those of the first before
\* those of the second.
LEMMA FlattenConcat ==
  ASSUME NEW S, NEW left \in Seq(Seq(S)), NEW right \in Seq(Seq(S))
  PROVE  FlattenSeq(left \o right) = FlattenSeq(left) \o FlattenSeq(right)
<1> DEFINE T == {s \in Seq(Seq(S)) : FlattenSeq(left \o s) = FlattenSeq(left) \o FlattenSeq(s)}
<1>1. <<>> \in T
  <2>1. FlattenSeq(left) \o <<>> = FlattenSeq(left)
    BY FlattenType, ConcatEmptySeq
  <2>2. left \o <<>> = left
    BY ConcatEmptySeq
  <2> QED  BY <2>1, <2>2, FlattenEmpty, EmptySeq
<1>2. ASSUME NEW s \in Seq(Seq(S)), NEW e \in Seq(S), s \in T
      PROVE  Append(s, e) \in T
  <2>1. Append(s, e) \in Seq(Seq(S)) /\ left \o s \in Seq(Seq(S))
    BY AppendProperties, ConcatProperties
  <2>2. left \o Append(s, e) = Append(left \o s, e)
    <3>1. Append(s, e) = s \o <<e>> /\ Append(left \o s, e) = (left \o s) \o <<e>>
      BY <2>1, AppendIsConcat
    <3>2. <<e>> \in Seq(Seq(S))
      OBVIOUS
    <3> QED  BY <3>1, <3>2, ConcatAssociative
  <2>3. /\ FlattenSeq(Append(left \o s, e)) = FlattenSeq(left \o s) \o e
        /\ FlattenSeq(Append(s, e)) = FlattenSeq(s) \o e
    BY <2>1, FlattenAppend
  <2>4. FlattenSeq(left \o s) = FlattenSeq(left) \o FlattenSeq(s)
    BY <1>2
  <2>5. (FlattenSeq(left) \o FlattenSeq(s)) \o e = FlattenSeq(left) \o (FlattenSeq(s) \o e)
    <3>1. FlattenSeq(left) \in Seq(S) /\ FlattenSeq(s) \in Seq(S)
      BY FlattenType
    <3> QED  BY <3>1, ConcatAssociative, SMTT(30)
  <2> QED  BY <2>1, <2>2, <2>3, <2>4, <2>5
<1> HIDE DEF T
<1>3. right \in T
  BY <1>1, <1>2, SeqSetInduction
<1> QED  BY <1>3 DEF T

\* The elements one after the other, up to the k-th.
LEMMA FlattenStep ==
  ASSUME NEW S, NEW seqs \in Seq(Seq(S)), NEW k \in 1 .. Len(seqs)
  PROVE  /\ SubSeq(seqs, 1, k - 1) \in Seq(Seq(S))
         /\ FlattenSeq(SubSeq(seqs, 1, k)) = FlattenSeq(SubSeq(seqs, 1, k - 1)) \o seqs[k]
<1> DEFINE n == Len(seqs)
           before == SubSeq(seqs, 1, k - 1)
<1>1. n \in Nat /\ k \in Nat /\ \A i \in 1 .. n : seqs[i] \in Seq(S)
  BY LenProperties, ElementOfSeq
<1>2. before \in Seq(Seq(S))
  BY <1>1, SubSeqProperties
<1>3. SubSeq(seqs, 1, k) = before \o <<seqs[k]>>
  BY <1>1, SubSeqRecursiveSecond
<1>4. before \o <<seqs[k]>> = Append(before, seqs[k])
  BY <1>1, <1>2, AppendIsConcat
<1> QED  BY <1>1, <1>2, <1>3, <1>4, FlattenAppend

\* Where the k-th of them is.
LEMMA FlattenAt ==
  ASSUME NEW S, NEW seqs \in Seq(Seq(S)), NEW k \in 1 .. Len(seqs)
  PROVE  LET at == Len(FlattenSeq(SubSeq(seqs, 1, k - 1)))
         IN  /\ at \in Nat
             /\ Len(FlattenSeq(SubSeq(seqs, 1, k))) = at + Len(seqs[k])
             /\ at + Len(seqs[k]) <= Len(FlattenSeq(seqs))
             /\ \A i \in 1 .. Len(seqs[k]) : FlattenSeq(seqs)[at + i] = seqs[k][i]
<1> DEFINE n == Len(seqs)
           before == FlattenSeq(SubSeq(seqs, 1, k - 1))
           upto == FlattenSeq(SubSeq(seqs, 1, k))
           rest == FlattenSeq(SubSeq(seqs, k + 1, n))
           this == seqs[k]
           all == FlattenSeq(seqs)
<1>1. n \in Nat /\ k \in Nat /\ this \in Seq(S) /\ \A i \in 1 .. n : seqs[i] \in Seq(S)
  BY LenProperties, ElementOfSeq
<1>2. /\ SubSeq(seqs, 1, k - 1) \in Seq(Seq(S))
      /\ SubSeq(seqs, 1, k) \in Seq(Seq(S))
      /\ SubSeq(seqs, k + 1, n) \in Seq(Seq(S))
  BY <1>1, SubSeqProperties
<1>3. before \in Seq(S) /\ upto \in Seq(S) /\ rest \in Seq(S)
  BY <1>2, FlattenType
<1>4. upto = before \o this
  BY FlattenStep
<1>5. all = upto \o rest
  <2>1. SubSeq(seqs, 1, k) \o SubSeq(seqs, k + 1, n) = SubSeq(seqs, 1, n)
    BY <1>1, ConcatAdjacentSubSeq
  <2>2. SubSeq(seqs, 1, n) = seqs
    BY SubSeqFull
  <2> QED  BY <1>2, <2>1, <2>2, FlattenConcat, ZenonT(60)
<1> HIDE DEF before, upto, rest, this, all
<1>6. /\ Len(before) \in Nat /\ Len(this) \in Nat /\ Len(rest) \in Nat
      /\ Len(upto) = Len(before) + Len(this)
      /\ \A i \in 1 .. Len(before) + Len(this) :
           upto[i] = IF i <= Len(before) THEN before[i] ELSE this[i - Len(before)]
  BY <1>1, <1>3, <1>4, ConcatProperties, LenProperties
<1>7. /\ Len(all) = Len(upto) + Len(rest)
      /\ \A i \in 1 .. Len(upto) + Len(rest) :
           all[i] = IF i <= Len(upto) THEN upto[i] ELSE rest[i - Len(upto)]
  BY <1>3, <1>5, ConcatProperties
<1>8. ASSUME NEW i \in 1 .. Len(this)
      PROVE  all[Len(before) + i] = this[i]
  <2> DEFINE j == Len(before) + i
  <2>1. /\ j \in 1 .. Len(before) + Len(this) /\ j \in 1 .. Len(upto) + Len(rest)
        /\ j <= Len(upto) /\ ~(j <= Len(before)) /\ j - Len(before) = i
    BY <1>6
  <2> HIDE DEF j
  <2>2. all[j] = upto[j] /\ upto[j] = this[i]
    BY <1>6, <1>7, <2>1
  <2> QED  BY <2>2 DEF j
<1>9. Len(before) + Len(this) <= Len(all)
  BY <1>6, <1>7
<1> QED  BY <1>6, <1>8, <1>9 DEF before, upto, this, all

\* Elements that are not empty: as many bytes as elements at least.
LEMMA FlattenLonger ==
  ASSUME NEW S, NEW seqs \in Seq(Seq(S) \ {<<>>})
  PROVE  Len(FlattenSeq(seqs)) >= Len(seqs)
<1> DEFINE T == {s \in Seq(Seq(S) \ {<<>>}) : Len(FlattenSeq(s)) >= Len(s)}
<1>1. <<>> \in T
  BY FlattenEmpty, EmptySeq
<1>2. ASSUME NEW s \in Seq(Seq(S) \ {<<>>}), NEW e \in Seq(S) \ {<<>>}, s \in T
      PROVE  Append(s, e) \in T
  <2>1. s \in Seq(Seq(S))
    BY SeqMonotonic
  <2>2. Append(s, e) \in Seq(Seq(S) \ {<<>>}) /\ Len(Append(s, e)) = Len(s) + 1
    BY AppendProperties
  <2>3. FlattenSeq(Append(s, e)) = FlattenSeq(s) \o e
    BY <2>1, FlattenAppend
  <2>4. FlattenSeq(s) \in Seq(S) /\ Len(e) \in Nat \ {0}
    BY <2>1, FlattenType, EmptySeq
  <2>5. Len(FlattenSeq(s) \o e) = Len(FlattenSeq(s)) + Len(e)
    BY <2>4, ConcatProperties
  <2> QED  BY <1>2, <2>2, <2>3, <2>4, <2>5, LenProperties
<1> HIDE DEF T
<1>3. seqs \in T
  BY <1>1, <1>2, SeqSetInduction
<1> QED  BY <1>3 DEF T

-----------------------------------------------------------------------------
(* Parts of a sequence.                                                    *)

\* part lies in all, behind its first at elements.
IsAt(part, all, at) ==
  at + Len(part) <= Len(all) /\ \A i \in 1 .. Len(part) : all[at + i] = part[i]

\* It is the subsequence there.
LEMMA SubSeqIsPart ==
  ASSUME NEW S, NEW all \in Seq(S), NEW part \in Seq(S), NEW at \in Nat, IsAt(part, all, at)
  PROVE  SubSeq(all, at + 1, at + Len(part)) = part
<1> DEFINE n == Len(part)
           t == SubSeq(all, at + 1, at + n)
<1>1. n \in Nat /\ Len(all) \in Nat /\ at + n <= Len(all)
      /\ \A i \in 1 .. n : all[at + i] = part[i]
  BY LenProperties DEF IsAt
<1> HIDE DEF n
<1>2. \A i \in at + 1 .. at + n : all[i] \in S
  BY <1>1, ElementOfSeq
<1>3. /\ t \in Seq(S)
      /\ Len(t) = n
      /\ \A i \in 1 .. n : t[i] = all[at + i]
  <2>1. /\ t \in Seq(S)
        /\ Len(t) = IF at + 1 <= at + n THEN at + n - (at + 1) + 1 ELSE 0
        /\ \A i \in 1 .. at + n - (at + 1) + 1 : t[i] = all[at + 1 + i - 1]
    BY <1>1, <1>2, SubSeqProperties
  <2>2. at + n - (at + 1) + 1 = n /\ \A i \in 1 .. n : at + 1 + i - 1 = at + i
    BY <1>1
  <2>3. Len(t) = n
    <3> HIDE DEF t
    <3> QED  BY <1>1, <2>1
  <2> HIDE DEF t
  <2> QED  BY <1>1, <2>1, <2>2, <2>3
<1> HIDE DEF t
<1>4. \A i \in 1 .. n : t[i] = part[i]
  BY <1>1, <1>3
<1>5. t = part
  BY <1>3, <1>4, SeqEqual DEF n
<1> QED  BY <1>5 DEF t, n

\* The first m elements of a sequence.
LEMMA FirstElements ==
  ASSUME NEW S, NEW s \in Seq(S), NEW m \in 0 .. Len(s)
  PROVE  /\ SubSeq(s, 1, m) \in Seq(S)
         /\ Len(SubSeq(s, 1, m)) = m
         /\ \A i \in 1 .. m : SubSeq(s, 1, m)[i] = s[i]
<1> DEFINE t == SubSeq(s, 1, m)
<1>1. m \in Nat /\ Len(s) \in Nat /\ m <= Len(s)
  BY LenProperties
<1>2. \A i \in 1 .. m : s[i] \in S
  BY <1>1, ElementOfSeq
<1>3. /\ t \in Seq(S)
      /\ Len(t) = IF 1 <= m THEN m - 1 + 1 ELSE 0
      /\ \A i \in 1 .. m - 1 + 1 : t[i] = s[1 + i - 1]
  BY <1>1, <1>2, SubSeqProperties
<1> HIDE DEF t
<1>4. m - 1 + 1 = m /\ \A i \in 1 .. m : 1 + i - 1 = i
  BY <1>1
<1> QED  BY <1>1, <1>3, <1>4 DEF t

\* What lies there one behind the other lies there one by one.
LEMMA PartsOfConcat ==
  ASSUME NEW S, NEW left \in Seq(S), NEW right \in Seq(S), NEW all \in Seq(S), NEW at \in Nat,
         IsAt(left \o right, all, at)
  PROVE  IsAt(left, all, at) /\ IsAt(right, all, at + Len(left))
<1> DEFINE n == Len(left)
           m == Len(right)
           two == left \o right
<1>1. n \in Nat /\ m \in Nat /\ Len(all) \in Nat
  BY LenProperties
<1>2. /\ Len(two) = n + m
      /\ \A i \in 1 .. n + m : two[i] = IF i <= n THEN left[i] ELSE right[i - n]
  BY ConcatProperties
<1>3. at + (n + m) <= Len(all) /\ \A i \in 1 .. n + m : all[at + i] = two[i]
  BY <1>2 DEF IsAt
<1> HIDE DEF n, m, two
<1>4. ASSUME NEW i \in 1 .. n
      PROVE  all[at + i] = left[i]
  <2>1. i \in 1 .. n + m /\ i <= n
    BY <1>1
  <2>2. two[i] = left[i] /\ all[at + i] = two[i]
    BY <1>2, <1>3, <2>1
  <2> QED  BY <2>2
<1>5. ASSUME NEW i \in 1 .. m
      PROVE  all[(at + n) + i] = right[i]
  <2> DEFINE j == n + i
  <2>1. j \in 1 .. n + m /\ ~(j <= n) /\ j - n = i /\ at + j = (at + n) + i
    BY <1>1
  <2> HIDE DEF j
  <2>2. two[j] = right[j - n] /\ all[at + j] = two[j]
    BY <1>2, <1>3, <2>1
  <2> QED  BY <2>1, <2>2
<1>6. at + n <= Len(all) /\ (at + n) + m <= Len(all)
  BY <1>1, <1>3
<1> QED  BY <1>4, <1>5, <1>6 DEF IsAt, n, m

-----------------------------------------------------------------------------
(* Arithmetic.                                                             *)

\* The smaller of two numbers.
LEMMA MinOfTwo ==
  ASSUME NEW a \in Nat, NEW b \in Nat
  PROVE  Min({a, b}) = IF a <= b THEN a ELSE b
<1> DEFINE m == IF a <= b THEN a ELSE b
<1>1. m \in {a, b} /\ \A y \in {a, b} : m <= y
  OBVIOUS
<1>2. \A x \in {a, b} : (\A y \in {a, b} : x <= y) => x = m
  OBVIOUS
<1> HIDE DEF m
<1>3. Min({a, b}) = m
  BY <1>1, <1>2 DEF Min
<1> QED  BY <1>3 DEF m

\* Division that rounds up.
LEMMA RoundedUp ==
  ASSUME NEW n \in Nat \ {0}, NEW b \in Nat \ {0}
  PROVE  LET q == (n + b - 1) \div b
         IN  /\ q \in Nat \ {0}
             /\ (q - 1) * b < n /\ n <= q * b
<1> DEFINE a == n + b - 1
           q == a \div b
           r == a % b
<1>1. a \in Nat
  OBVIOUS
<1> HIDE DEF a
<1>2. q \in Nat /\ r \in 0 .. b - 1 /\ a = b * q + r
  BY <1>1
<1> HIDE DEF q, r
<1>3. b * q = q * b /\ (q - 1) * b = q * b - b /\ q * b \in Nat
  BY <1>2
<1>4. q # 0
  BY <1>2, <1>3 DEF a
<1>5. (q - 1) * b < n /\ n <= q * b
  BY <1>2, <1>3 DEF a
<1> QED  BY <1>2, <1>4, <1>5 DEF q, a

\* Fewer times a number is less of it.
LEMMA Multiples ==
  ASSUME NEW q \in Nat, NEW b \in Nat, NEW k \in 0 .. q
  PROVE  k * b <= q * b /\ k * b \in Nat
<1>1. (q - k) \in Nat
  OBVIOUS
<1>2. (q - k) * b \in Nat
  BY <1>1
<1>3. (q - k) * b = q * b - k * b
  OBVIOUS
<1>4. k * b \in Nat /\ q * b \in Nat
  OBVIOUS
<1> QED  BY <1>2, <1>3, <1>4

-----------------------------------------------------------------------------
(* What FoldLeft() of the community modules computes.  It is defined by a  *)
(* recursive function on the sets of indices.                              *)

\* The largest number of a set.
LEMMA MaxIs ==
  ASSUME NEW S, S \subseteq Nat, NEW x \in S, \A y \in S : y <= x
  PROVE  Max(S) = x
<1>1. x \in S /\ \A y \in S : x >= y
  OBVIOUS
<1>2. \A z \in S : (\A y \in S : z >= y) => z = x
  OBVIOUS
<1> QED  BY <1>1, <1>2 DEF Max

\* A set of indices has a largest one.
LEMMA MaxOfIndices ==
  ASSUME NEW n \in Nat, NEW S \in SUBSET (1 .. n), S # {}
  PROVE  Max(S) \in S
<1> DEFINE T == {m \in Nat : \A y \in S : y <= m}
<1>1. n \in T /\ T \subseteq Nat
  OBVIOUS
<1> HIDE DEF T
<1>2. PICK m \in T : \A j \in T : m <= j
  BY <1>1, LeastElement
<1>3. m \in Nat /\ \A y \in S : y <= m
  BY DEF T
<1>4. PICK x \in S : TRUE
  OBVIOUS
<1>5. m \in S
  <2> SUFFICES ASSUME m \notin S
               PROVE  FALSE
    OBVIOUS
  <2>1. \A y \in S : y \in 1 .. n /\ y # m
    OBVIOUS
  <2>2. \A y \in S : y <= m - 1
    BY <1>3, <2>1
  <2>3. m - 1 \in Nat
    BY <1>3, <1>4, <2>1
  <2>4. m - 1 \in T
    BY <2>2, <2>3 DEF T
  <2> QED  BY <1>2, <1>3, <2>4
<1>6. S \subseteq Nat
  OBVIOUS
<1> QED  BY <1>3, <1>5, <1>6, MaxIs

\* iter is that function, for the step G from an index and what comes of the smaller
\* ones to what comes of it.
IsFold(iter, n, base, G) ==
  \A s \in SUBSET (1 .. n) : iter[s] = IF s = {} THEN base ELSE G[<<Max(s), iter[s \ {Max(s)}]>>]

\* It exists.
LEMMA FoldRecursion ==
  ASSUME NEW n \in Nat, NEW A, NEW base \in A, NEW G \in [(1 .. n) \X A -> A]
  PROVE  \E iter \in [SUBSET (1 .. n) -> A] : IsFold(iter, n, base, G)
<1> DEFINE Folds(m) == {f \in [SUBSET (1 .. m) -> A] :
                         \A s \in SUBSET (1 .. m) :
                           f[s] = IF s = {} THEN base ELSE G[<<Max(s), f[s \ {Max(s)}]>>]}
           N == {m \in Nat : m <= n => Folds(m) # {}}
<1>1. 0 \in N
  <2> DEFINE f == [s \in SUBSET (1 .. 0) |-> base]
  <2>1. SUBSET (1 .. 0) = {{}}
    OBVIOUS
  <2>2. f \in [SUBSET (1 .. 0) -> A]
    OBVIOUS
  <2>3. \A s \in SUBSET (1 .. 0) : f[s] = IF s = {} THEN base ELSE G[<<Max(s), f[s \ {Max(s)}]>>]
    BY <2>1
  <2> HIDE DEF f
  <2>4. f \in Folds(0)
    BY <2>2, <2>3
  <2> HIDE DEF Folds
  <2> QED  BY <2>4
<1>2. ASSUME NEW m \in Nat, m \in N
      PROVE  m + 1 \in N
  <2> SUFFICES ASSUME m + 1 <= n
               PROVE  Folds(m + 1) # {}
    <3> HIDE DEF Folds
    <3> QED  OBVIOUS
  <2>0. Folds(m) # {}
    <3> HIDE DEF Folds
    <3>1. m <= n
      OBVIOUS
    <3> QED  BY <1>2, <3>1
  <2>1. PICK f \in [SUBSET (1 .. m) -> A] :
          \A s \in SUBSET (1 .. m) : f[s] = IF s = {} THEN base ELSE G[<<Max(s), f[s \ {Max(s)}]>>]
    BY <2>0
  <2> DEFINE g == [s \in SUBSET (1 .. m + 1) |->
                     IF m + 1 \in s THEN G[<<m + 1, f[s \ {m + 1}]>>] ELSE f[s]]
  <2>2. ASSUME NEW s \in SUBSET (1 .. m + 1)
        PROVE  /\ g[s] \in A
               /\ g[s] = IF s = {} THEN base ELSE G[<<Max(s), g[s \ {Max(s)}]>>]
    <3>1. CASE m + 1 \in s
      <4> DEFINE r == s \ {m + 1}
      <4>1. r \in SUBSET (1 .. m) /\ r \in SUBSET (1 .. m + 1) /\ m + 1 \notin r
        OBVIOUS
      <4>2. Max(s) = m + 1
        <5>1. s \subseteq Nat /\ \A y \in s : y <= m + 1
          OBVIOUS
        <5> QED  BY <3>1, <5>1, MaxIs
      <4>3. g[r] = f[r] /\ g[s] = G[<<m + 1, f[r]>>]
        BY <3>1, <4>1
      <4>4. f[r] \in A /\ m + 1 \in 1 .. n
        BY <4>1
      <4>5. G[<<m + 1, f[r]>>] \in A
        BY <4>4
      <4> HIDE DEF g
      <4> QED  BY <3>1, <4>2, <4>3, <4>5
    <3>2. CASE m + 1 \notin s
      <4>1. s \in SUBSET (1 .. m)
        BY <3>2
      <4>2. s \ {Max(s)} \in SUBSET (1 .. m) /\ s \ {Max(s)} \in SUBSET (1 .. m + 1) /\ m + 1 \notin s \ {Max(s)}
        BY <3>2, <4>1
      <4>3. g[s] = f[s] /\ g[s \ {Max(s)}] = f[s \ {Max(s)}]
        BY <3>2, <4>2
      <4>4. f[s] = IF s = {} THEN base ELSE G[<<Max(s), f[s \ {Max(s)}]>>]
        BY <2>1, <4>1
      <4>5. f[s] \in A
        BY <4>1
      <4> HIDE DEF g
      <4> QED  BY <4>3, <4>4, <4>5
    <3> QED  BY <3>1, <3>2
  <2>3. g \in [SUBSET (1 .. m + 1) -> A]
    <3>1. g = [s \in SUBSET (1 .. m + 1) |-> g[s]]
      OBVIOUS
    <3> HIDE DEF g
    <3> QED  BY <2>2, <3>1
  <2> HIDE DEF g
  <2>4. g \in Folds(m + 1)
    BY <2>2, <2>3
  <2> HIDE DEF Folds
  <2> QED  BY <2>4
<1> HIDE DEF N
<1>3. \A m \in Nat : m \in N
  BY <1>1, <1>2, NatSetInduction
<1>4. Folds(n) # {}
  <2> HIDE DEF Folds
  <2>1. n <= n
    OBVIOUS
  <2> QED  BY <1>3, <2>1 DEF N
<1>5. PICK f \in [SUBSET (1 .. n) -> A] :
        \A s \in SUBSET (1 .. n) : f[s] = IF s = {} THEN base ELSE G[<<Max(s), f[s \ {Max(s)}]>>]
  BY <1>4
<1>6. IsFold(f, n, base, G)
  BY <1>5 DEF IsFold
<1> QED  BY <1>6

\* The first k indices: the largest of them, and the others.
LEMMA FirstIndices ==
  ASSUME NEW n \in Nat, NEW k \in 1 .. n
  PROVE  1 .. k \in SUBSET (1 .. n) /\ 1 .. k # {} /\ Max(1 .. k) = k /\ (1 .. k) \ {k} = 1 .. k - 1
<1>1. 1 .. k \subseteq Nat /\ k \in 1 .. k /\ \A y \in 1 .. k : y <= k
  OBVIOUS
<1>2. Max(1 .. k) = k
  BY <1>1, MaxIs
<1>3. (1 .. k) \ {k} = 1 .. k - 1
  OBVIOUS
<1> QED  BY <1>1, <1>2, <1>3

\* The k-th value of f comes of the one before by the step G.
Steps(f, n, G) == \A k \in 1 .. n : f[k] = G[<<k, f[k - 1]>>]

\* Two functions that begin with the same value and go on with the same steps agree.
LEMMA SameSteps ==
  ASSUME NEW n \in Nat, NEW f, NEW g, NEW G, f[0] = g[0],
         Steps(f, n, G), Steps(g, n, G)
  PROVE  \A k \in 0 .. n : f[k] = g[k]
<1> DEFINE N == {k \in Nat : k <= n => f[k] = g[k]}
<1>1. 0 \in N
  OBVIOUS
<1>2. ASSUME NEW k \in Nat, k \in N
      PROVE  k + 1 \in N
  <2> SUFFICES ASSUME k + 1 <= n
               PROVE  f[k + 1] = g[k + 1]
    OBVIOUS
  <2>1. k + 1 \in 1 .. n /\ (k + 1) - 1 = k /\ k <= n
    OBVIOUS
  <2>2. f[k + 1] = G[<<k + 1, f[k]>>] /\ g[k + 1] = G[<<k + 1, g[k]>>]
    BY <2>1 DEF Steps
  <2>3. f[k] = g[k]
    BY <1>2, <2>1
  <2> QED  BY <2>2, <2>3
<1> HIDE DEF N
<1>3. \A k \in Nat : k \in N
  BY <1>1, <1>2, NatSetInduction
<1> QED  BY <1>3 DEF N

-----------------------------------------------------------------------------
(* Recursion from the end of a sequence.                                   *)

\* Induction along next, which goes to a later number or stops: for the members of a set.
LEMMA BackwardInduction ==
  ASSUME NEW n \in Nat, NEW next \in [0 .. n -> 0 .. n], NEW S,
         \A i \in 0 .. n : (next[i] > i => next[i] \in S) => i \in S
  PROVE  \A i \in 0 .. n : i \in S
<1> DEFINE N == {d \in Nat : \A i \in 0 .. n : n - i <= d => i \in S}
<1>1. 0 \in N
  <2> SUFFICES ASSUME NEW i \in 0 .. n, n - i <= 0
               PROVE  i \in S
    OBVIOUS
  <2>1. next[i] \in 0 .. n
    OBVIOUS
  <2>2. ~(next[i] > i)
    BY <2>1
  <2> QED  BY <2>2
<1>2. ASSUME NEW d \in Nat, d \in N
      PROVE  d + 1 \in N
  <2> SUFFICES ASSUME NEW i \in 0 .. n, n - i <= d + 1
               PROVE  i \in S
    OBVIOUS
  <2>1. CASE next[i] > i
    <3>1. next[i] \in 0 .. n
      OBVIOUS
    <3>2. n - next[i] <= d
      BY <2>1, <3>1
    <3>3. next[i] \in S
      BY <1>2, <3>1, <3>2
    <3> QED  BY <3>3
  <2>2. CASE ~(next[i] > i)
    BY <2>2
  <2> QED  BY <2>1, <2>2
<1>3. n \in N
  <2> HIDE DEF N
  <2> QED  BY <1>1, <1>2, NatSetInduction
<1>4. \A i \in 0 .. n : n - i <= n
  OBVIOUS
<1> QED  BY <1>3, <1>4

\* f goes from each number to a later one, next[i], and stops where that is none.
IsBackward(f, n, base, next, op) ==
  \A i \in 0 .. n : f[i] = IF next[i] > i THEN op[<<i, f[next[i]]>>] ELSE base[i]

\* Such a function exists.
LEMMA BackwardRecursion ==
  ASSUME NEW n \in Nat, NEW A, NEW base \in [0 .. n -> A], NEW next \in [0 .. n -> 0 .. n],
         NEW op \in [(0 .. n) \X A -> A]
  PROVE  \E f \in [0 .. n -> A] : IsBackward(f, n, base, next, op)
<1> DEFINE From(m) == {f \in [n - m .. n -> A] :
                        \A i \in n - m .. n :
                          f[i] = IF next[i] > i THEN op[<<i, f[next[i]]>>] ELSE base[i]}
           N == {m \in Nat : m <= n => From(m) # {}}
<1>1. 0 \in N
  <2> DEFINE f == [i \in n - 0 .. n |-> base[i]]
  <2>1. \A i \in n - 0 .. n : i = n /\ i \in 0 .. n
    OBVIOUS
  <2>2. \A i \in n - 0 .. n : base[i] \in A /\ ~(next[i] > i)
    BY <2>1
  <2>3. f \in [n - 0 .. n -> A] /\ \A i \in n - 0 .. n : f[i] = base[i]
    BY <2>2
  <2> HIDE DEF f
  <2>4. f \in From(0)
    BY <2>2, <2>3
  <2> HIDE DEF From
  <2> QED  BY <2>4
<1>2. ASSUME NEW m \in Nat, m \in N
      PROVE  m + 1 \in N
  <2> SUFFICES ASSUME m + 1 <= n
               PROVE  From(m + 1) # {}
    <3> HIDE DEF From
    <3> QED  OBVIOUS
  <2>1. From(m) # {}
    <3> HIDE DEF From
    <3>1. m <= n
      OBVIOUS
    <3> QED  BY <1>2, <3>1
  <2>2. PICK f \in [n - m .. n -> A] :
          \A i \in n - m .. n : f[i] = IF next[i] > i THEN op[<<i, f[next[i]]>>] ELSE base[i]
    BY <2>1
  <2> DEFINE k == n - (m + 1)
             D == n - (m + 1) .. n
             first == IF next[k] > k THEN op[<<k, f[next[k]]>>] ELSE base[k]
             g == [i \in D |-> IF i = k THEN first ELSE f[i]]
  <2>3. /\ k \in 0 .. n /\ k \in D /\ k \in Nat
        /\ \A i \in D : i # k => i \in n - m .. n
        /\ \A i \in D : i \in 0 .. n
    OBVIOUS
  <2>4. \A i \in D : next[i] \in 0 .. n /\ (next[i] > i => next[i] \in n - m .. n /\ next[i] # k /\ next[i] \in D)
    <3> SUFFICES ASSUME NEW i \in D
                 PROVE  next[i] \in 0 .. n /\ (next[i] > i => next[i] \in n - m .. n /\ next[i] # k /\ next[i] \in D)
      OBVIOUS
    <3>1. next[i] \in 0 .. n
      BY <2>3
    <3>2. \A x \in 0 .. n : x > i => x \in n - m .. n /\ x # k /\ x \in D
      OBVIOUS
    <3> HIDE DEF k, D
    <3> QED  BY <3>1, <3>2
  <2>5. first \in A
    <3>1. CASE next[k] > k
      <4>1. f[next[k]] \in A
        BY <2>3, <2>4, <3>1
      <4>2. op[<<k, f[next[k]]>>] \in A
        <5> HIDE DEF k
        <5> QED  BY <2>3, <4>1
      <4> QED  BY <3>1, <4>2
    <3>2. CASE ~(next[k] > k)
      <4> HIDE DEF k
      <4> QED  BY <2>3, <3>2
    <3> QED  BY <3>1, <3>2
  <2>6. \A i \in D : i # k => f[i] \in A
    BY <2>3
  <2>7. g \in [D -> A] /\ g[k] = first /\ \A i \in D : i # k => g[i] = f[i]
    <3> HIDE DEF first, D, k
    <3> QED  BY <2>3, <2>5, <2>6
  <2> HIDE DEF g
  <2>8. ASSUME NEW i \in D
        PROVE  g[i] = IF next[i] > i THEN op[<<i, g[next[i]]>>] ELSE base[i]
    <3>1. next[i] > i => g[next[i]] = f[next[i]]
      <4> HIDE DEF k, D
      <4> QED  BY <2>4, <2>7
    <3>2. CASE i = k
      <4>1. g[i] = IF next[i] > i THEN op[<<i, f[next[i]]>>] ELSE base[i]
        <5> HIDE DEF k, D
        <5> QED  BY <2>7, <3>2
      <4> HIDE DEF k, D
      <4> QED  BY <3>1, <4>1
    <3>3. CASE i # k
      <4>1. i \in n - m .. n
        BY <2>3, <3>3
      <4>2. f[i] = IF next[i] > i THEN op[<<i, f[next[i]]>>] ELSE base[i]
        BY <2>2, <4>1
      <4> HIDE DEF k, D
      <4> QED  BY <2>7, <3>1, <3>3, <4>2
    <3> QED  BY <3>2, <3>3
  <2>9. g \in From(m + 1)
    <3> HIDE DEF k
    <3> QED  BY <2>7, <2>8
  <2> HIDE DEF From
  <2> QED  BY <2>9
<1> HIDE DEF N
<1>3. \A m \in Nat : m \in N
  BY <1>1, <1>2, NatSetInduction
<1>4. From(n) # {}
  <2> HIDE DEF From
  <2>1. n <= n
    OBVIOUS
  <2> QED  BY <1>3, <2>1 DEF N
<1>5. n - n = 0
  OBVIOUS
<1>6. PICK f \in [0 .. n -> A] :
        \A i \in 0 .. n : f[i] = IF next[i] > i THEN op[<<i, f[next[i]]>>] ELSE base[i]
  BY <1>4, <1>5
<1>7. IsBackward(f, n, base, next, op)
  BY <1>6 DEF IsBackward
<1> QED  BY <1>7

\* Three parts, one behind the other.
LEMMA ThreeInARow ==
  ASSUME NEW S
  PROVE  \A a, b, c \in Seq(S) : (a \o b) \o c = a \o (b \o c)
BY ConcatAssociative

\* f[k] begins with the k-th sequence, and goes on with f[k + 1].
IsChain(S, seqs, f) ==
  /\ seqs \in Seq(Seq(S)) /\ Len(seqs) # 0
  /\ f \in [1 .. Len(seqs) -> Seq(S)]
  /\ \A k \in 1 .. Len(seqs) - 1 : f[k] = seqs[k] \o f[k + 1]
  /\ f[Len(seqs)] = seqs[Len(seqs)]

\* The first of such a chain is all the sequences, one after the other.
LEMMA FlattenChain ==
  ASSUME NEW S, NEW seqs, NEW f, IsChain(S, seqs, f)
  PROVE  FlattenSeq(seqs) = f[1]
<1> DEFINE n == Len(seqs)
           before(k) == FlattenSeq(SubSeq(seqs, 1, k))
           N == {k \in Nat : k + 1 <= n => before(k) \o f[k + 1] = f[1]}
<1>0. /\ seqs \in Seq(Seq(S)) /\ Len(seqs) # 0
      /\ f \in [1 .. Len(seqs) -> Seq(S)] /\ f[Len(seqs)] = seqs[Len(seqs)]
  BY DEF IsChain
<1>1. n \in Nat /\ n # 0 /\ \A k \in 1 .. n : seqs[k] \in Seq(S)
  BY <1>0, LenProperties, ElementOfSeq
<1>2. \A k \in 0 .. n : before(k) \in Seq(S)
  <2> SUFFICES ASSUME NEW k \in 0 .. n
               PROVE  before(k) \in Seq(S)
    OBVIOUS
  <2>1. SubSeq(seqs, 1, k) \in Seq(Seq(S))
    BY <1>0, FirstElements
  <2> QED  BY <2>1, FlattenType
<1>3. \A k \in 1 .. n : before(k) = before(k - 1) \o seqs[k]
  BY <1>0, FlattenStep
<1>4. before(0) = <<>>
  <2>1. 0 \in 0 .. Len(seqs)
    BY <1>1
  <2>2. SubSeq(seqs, 1, 0) \in Seq(Seq(S)) /\ Len(SubSeq(seqs, 1, 0)) = 0
    BY <1>0, <2>1, FirstElements
  <2>3. SubSeq(seqs, 1, 0) = <<>>
    BY <2>2, EmptySeq
  <2> QED  BY <2>3, FlattenEmpty
<1>5. before(n) = FlattenSeq(seqs)
  BY <1>0, SubSeqFull
<1> HIDE DEF before
<1>6. 0 \in N
  <2>1. f[1] \in Seq(S)
    BY <1>0, <1>1
  <2>2. <<>> \o f[1] = f[1]
    BY <2>1, ConcatEmptySeq
  <2>3. before(0) \o f[0 + 1] = f[1]
    <3>1. 0 + 1 = 1
      OBVIOUS
    <3> QED  BY <1>4, <2>2, <3>1, Zenon
  <2> HIDE DEF n
  <2> QED  BY <2>3
<1>7. ASSUME NEW k \in Nat, k \in N
      PROVE  k + 1 \in N
  <2> SUFFICES ASSUME (k + 1) + 1 <= n
               PROVE  before(k + 1) \o f[(k + 1) + 1] = f[1]
    <3>1. k + 1 \in Nat
      OBVIOUS
    <3> HIDE DEF n
    <3> QED  BY <3>1
  <2> DEFINE j == k + 1
  <2>1. j \in 1 .. n /\ j \in 1 .. n - 1 /\ j - 1 = k /\ j + 1 \in 1 .. n /\ k \in 0 .. n /\ k + 1 <= n
    BY <1>1
  <2>2. before(k) \o f[j] = f[1]
    BY <1>7, <2>1
  <2> HIDE DEF j, n, N
  <2>3. before(j) = before(k) \o seqs[j] 
    BY <1>3, <2>1
  <2>4. f[j] = seqs[j] \o f[j + 1]
    BY <2>1 DEF IsChain, n
  <2>5. before(k) \in Seq(S) /\ seqs[j] \in Seq(S) /\ f[j + 1] \in Seq(S)
    BY <1>0, <1>1, <1>2, <2>1 DEF n
  <2>6. (before(k) \o seqs[j]) \o f[j + 1] = before(k) \o (seqs[j] \o f[j + 1])
    <3> DEFINE a == before(k)
               b == seqs[j]
               c == f[j + 1]
    <3>1. a \in Seq(S) /\ b \in Seq(S) /\ c \in Seq(S)
      BY <2>5
    <3> HIDE DEF a, b, c
    <3>2. (a \o b) \o c = a \o (b \o c)
      BY <3>1, ThreeInARow, SMTT(30)
    <3> QED  BY <3>2 DEF a, b, c
  <2>7. before(j) \o f[j + 1] = f[1]
    BY <2>2, <2>3, <2>4, <2>6, Zenon
  <2> QED  BY <2>7 DEF j
<1> HIDE DEF N
<1>8. n - 1 \in N
  <2>1. \A k \in Nat : k \in N
    BY <1>6, <1>7, NatSetInduction
  <2> QED  BY <1>1, <2>1
<1>9. before(n - 1) \o f[n] = f[1]
  <2>1. (n - 1) + 1 = n /\ n <= n
    BY <1>1
  <2>2. (n - 1) + 1 <= n => before(n - 1) \o f[(n - 1) + 1] = f[1]
    <3> HIDE DEF n
    <3> QED  BY <1>8 DEF N
  <2> HIDE DEF n
  <2> QED  BY <2>1, <2>2
<1>10. n \in 1 .. n
  BY <1>1
<1>11. f[n] = seqs[n]
  BY <1>0
<1> HIDE DEF n
<1>12. before(n) = before(n - 1) \o seqs[n]
  BY <1>3, <1>10
<1> QED  BY <1>5, <1>9, <1>11, <1>12, Zenon

\* st goes from i to next[i] and on, as long as that is further on.
IsWalk(i, st, m, next) ==
  /\ st[1] = i
  /\ \A k \in 1 .. m - 1 : next[st[k]] > st[k] /\ st[k + 1] = next[st[k]]
  /\ ~(next[st[m]] > st[m])

\* Such a walk exists from everywhere.
LEMMA WalkExists ==
  ASSUME NEW n \in Nat, NEW next \in [0 .. n -> 0 .. n], NEW i \in 0 .. n
  PROVE  \E m \in Nat \ {0} : \E st \in [1 .. m -> 0 .. n] : IsWalk(i, st, m, next)
<1> DEFINE Walks(j) == \E m \in Nat \ {0} : \E st \in [1 .. m -> 0 .. n] : IsWalk(j, st, m, next)
<1>1. ASSUME NEW j \in 0 .. n, ~(next[j] > j)
      PROVE  Walks(j)
  <2> DEFINE st == [k \in 1 .. 1 |-> j]
  <2>1. st \in [1 .. 1 -> 0 .. n] /\ st[1] = j
    OBVIOUS
  <2> HIDE DEF st
  <2>2. IsWalk(j, st, 1, next)
    BY <1>1, <2>1 DEF IsWalk
  <2>3. 1 \in Nat \ {0}
    OBVIOUS
  <2> QED  BY <2>1, <2>2, <2>3
<1>2. ASSUME NEW j \in 0 .. n, next[j] > j, Walks(next[j])
      PROVE  Walks(j)
  <2>1. PICK m \in Nat \ {0} : \E st \in [1 .. m -> 0 .. n] : IsWalk(next[j], st, m, next)
    BY <1>2
  <2>2. PICK st \in [1 .. m -> 0 .. n] : IsWalk(next[j], st, m, next)
    BY <2>1
  <2> HIDE DEF Walks
  <2>3. /\ st[1] = next[j] /\ ~(next[st[m]] > st[m])
        /\ \A k \in 1 .. m - 1 : next[st[k]] > st[k] /\ st[k + 1] = next[st[k]]
    BY <2>2 DEF IsWalk
  <2> DEFINE p == m + 1
             g == [k \in 1 .. p |-> IF k = 1 THEN j ELSE st[k - 1]]
  <2>4. p \in Nat \ {0} /\ p # 1 /\ p - 1 = m /\ m \in 1 .. m /\ 1 \in 1 .. p
    OBVIOUS
  <2>5. \A k \in 1 .. p : k # 1 => k - 1 \in 1 .. m
    OBVIOUS
  <2>6. g \in [1 .. p -> 0 .. n] /\ g[1] = j /\ \A k \in 1 .. p : k # 1 => g[k] = st[k - 1]
    <3>1. \A k \in 1 .. p : k # 1 => st[k - 1] \in 0 .. n
      BY <2>5
    <3> HIDE DEF p
    <3> QED  BY <2>4, <3>1
  <2> HIDE DEF g
  <2>7. g[p] = st[m]
    <3>1. p \in 1 .. p
      OBVIOUS
    <3> HIDE DEF p
    <3> QED  BY <2>4, <2>6, <3>1
  <2>8. ASSUME NEW k \in 1 .. p - 1
        PROVE  next[g[k]] > g[k] /\ g[k + 1] = next[g[k]]
    <3>1. k \in 1 .. p /\ k + 1 \in 1 .. p /\ k + 1 # 1 /\ (k + 1) - 1 = k
          /\ (k # 1 => k - 1 \in 1 .. m - 1 /\ (k - 1) + 1 = k)
      BY SMTT(30)
    <3>2. g[k + 1] = st[k]
      <4> HIDE DEF p
      <4> QED  BY <2>6, <3>1
    <3>3. CASE k = 1
      BY <1>2, <2>3, <2>6, <3>2, <3>3
    <3>4. CASE k # 1
      <4> DEFINE l == k - 1
      <4>1. l \in 1 .. m - 1 /\ l + 1 = k
        BY <3>1, <3>4
      <4>2. g[k] = st[l]
        BY <2>6, <3>1, <3>4
      <4> HIDE DEF l, p
      <4>3. next[st[l]] > st[l] /\ st[l + 1] = next[st[l]]
        BY <2>3, <4>1
      <4> QED  BY <3>2, <4>1, <4>2, <4>3
    <3> QED  BY <3>3, <3>4
  <2> HIDE DEF p
  <2>9. IsWalk(j, g, p, next)
    BY <2>3, <2>6, <2>7, <2>8 DEF IsWalk
  <2> QED  BY <2>4, <2>6, <2>9 DEF Walks
<1> HIDE DEF Walks
<1> DEFINE T == {j \in 0 .. n : Walks(j)}
<1>3. ASSUME NEW j \in 0 .. n, next[j] > j => next[j] \in T
      PROVE  j \in T
  BY <1>1, <1>2, <1>3
<1> HIDE DEF T
<1>4. i \in T
  BY <1>3, BackwardInduction
<1> QED  BY <1>4 DEF T, Walks

IsAscending(st, m) == \A k, l \in 1 .. m : k < l => st[k] < st[l]

\* It goes up.
LEMMA WalkAscends ==
  ASSUME NEW n \in Nat, NEW next \in [0 .. n -> 0 .. n], NEW i, NEW m \in Nat \ {0},
         NEW st \in [1 .. m -> 0 .. n], IsWalk(i, st, m, next)
  PROVE  IsAscending(st, m)
<1> DEFINE N == {d \in Nat : \A k \in 1 .. m : (k + d) + 1 <= m => st[k] < st[(k + d) + 1]}
<1>1. \A k \in 1 .. m - 1 : st[k] < st[k + 1]
  BY DEF IsWalk
<1>2. 0 \in N
  <2> SUFFICES ASSUME NEW k \in 1 .. m, (k + 0) + 1 <= m
               PROVE  st[k] < st[(k + 0) + 1]
    OBVIOUS
  <2>1. (k + 0) + 1 = k + 1 /\ k \in 1 .. m - 1
    OBVIOUS
  <2> QED  BY <1>1, <2>1
<1>3. ASSUME NEW d \in Nat, d \in N
      PROVE  d + 1 \in N
  <2> SUFFICES ASSUME NEW k \in 1 .. m, (k + (d + 1)) + 1 <= m
               PROVE  st[k] < st[(k + (d + 1)) + 1]
    OBVIOUS
  <2> DEFINE j == (k + d) + 1
  <2>1. (k + (d + 1)) + 1 = j + 1 /\ j \in 1 .. m - 1 /\ j \in 1 .. m /\ j + 1 \in 1 .. m /\ (k + d) + 1 <= m
    OBVIOUS
  <2>2. st[k] < st[j]
    BY <1>3, <2>1
  <2> HIDE DEF j
  <2>3. st[j] < st[j + 1]
    BY <1>1, <2>1
  <2>4. st[k] \in Nat /\ st[j] \in Nat /\ st[j + 1] \in Nat
    BY <2>1, SMTT(30)
  <2>5. st[k] < st[j + 1]
    <3>1. \A a, b, c \in Nat : a < b /\ b < c => a < c
      OBVIOUS
    <3> HIDE DEF N
    <3> QED  BY <2>2, <2>3, <2>4, <3>1
  <2> QED  BY <2>1, <2>5
<1> HIDE DEF N
<1>4. \A d \in Nat : d \in N
  BY <1>2, <1>3, NatSetInduction
<1>5. ASSUME NEW k \in 1 .. m, NEW l \in 1 .. m, k < l
      PROVE  st[k] < st[l]
  <2> DEFINE d == l - k - 1
  <2>1. d \in Nat /\ (k + d) + 1 = l /\ (k + d) + 1 <= m
    BY <1>5
  <2> HIDE DEF d
  <2>2. d \in N
    BY <1>4, <2>1
  <2>3. st[k] < st[(k + d) + 1]
    BY <2>1, <2>2 DEF N
  <2> QED  BY <2>1, <2>3
<1> QED  BY <1>5 DEF IsAscending

\* f has at each number a part of a sequence and goes on with the next number, to the
\* last part.
IsUnfolded(f, n, base, part, next) ==
  \A i \in 0 .. n : f[i] = IF next[i] > i THEN part[i] \o f[next[i]] ELSE base[i]

LEMMA ConcatRecursion ==
  ASSUME NEW S, NEW n \in Nat, NEW base \in [0 .. n -> Seq(S)], NEW part \in [0 .. n -> Seq(S)],
         NEW next \in [0 .. n -> 0 .. n]
  PROVE  \E f \in [0 .. n -> Seq(S)] : IsUnfolded(f, n, base, part, next)
<1> DEFINE op == [p \in (0 .. n) \X Seq(S) |-> part[p[1]] \o p[2]]
<1>1. \A i \in 0 .. n : \A s \in Seq(S) : <<i, s>> \in (0 .. n) \X Seq(S) /\ part[i] \o s \in Seq(S)
  <2> SUFFICES ASSUME NEW i \in 0 .. n, NEW s \in Seq(S)
               PROVE  part[i] \o s \in Seq(S)
    OBVIOUS
  <2> DEFINE r == part[i]
  <2>1. r \in Seq(S)
    OBVIOUS
  <2> HIDE DEF r
  <2>2. r \o s \in Seq(S)
    BY <2>1, ConcatProperties
  <2> QED  BY <2>2 DEF r
<1>2. op \in [(0 .. n) \X Seq(S) -> Seq(S)]
  BY <1>1
<1>3. \A i \in 0 .. n : \A s \in Seq(S) : op[<<i, s>>] = part[i] \o s
  BY <1>1
<1> HIDE DEF op
<1>4. PICK f \in [0 .. n -> Seq(S)] : IsBackward(f, n, base, next, op)
  BY <1>2, BackwardRecursion
<1>5. ASSUME NEW i \in 0 .. n
      PROVE  f[i] = IF next[i] > i THEN part[i] \o f[next[i]] ELSE base[i]
  <2>1. f[i] = IF next[i] > i THEN op[<<i, f[next[i]]>>] ELSE base[i]
    BY <1>4 DEF IsBackward
  <2>2. f[next[i]] \in Seq(S)
    OBVIOUS
  <2> QED  BY <1>3, <2>1, <2>2
<1>6. IsUnfolded(f, n, base, part, next)
  BY <1>5 DEF IsUnfolded
<1> QED  BY <1>6

\* The parts along a walk.
PartsOf(st, m, base, part) == [k \in 1 .. m |-> IF k < m THEN part[st[k]] ELSE base[st[k]]]

IsLoop(S, f, n, base, part, next) ==
  /\ n \in Nat /\ next \in [0 .. n -> 0 .. n]
  /\ base \in [0 .. n -> Seq(S)] /\ part \in [0 .. n -> Seq(S)] /\ f \in [0 .. n -> Seq(S)]
  /\ IsUnfolded(f, n, base, part, next)

\* They are what the recursion puts together.
LEMMA WalkFlattens ==
  ASSUME NEW S, NEW f, NEW n, NEW base, NEW part, NEW next, IsLoop(S, f, n, base, part, next),
         NEW m \in Nat \ {0}, NEW st \in [1 .. m -> 0 .. n],
         IsWalk(0, st, m, next)
  PROVE  f[0] = FlattenSeq(PartsOf(st, m, base, part))
<1>0. /\ n \in Nat /\ next \in [0 .. n -> 0 .. n]
      /\ base \in [0 .. n -> Seq(S)] /\ part \in [0 .. n -> Seq(S)] /\ f \in [0 .. n -> Seq(S)]
      /\ IsUnfolded(f, n, base, part, next)
  BY DEF IsLoop
<1> DEFINE seqs == PartsOf(st, m, base, part)
           g == [k \in 1 .. m |-> f[st[k]]]
<1>1. \A k \in 1 .. m : seqs[k] = IF k < m THEN part[st[k]] ELSE base[st[k]]
  BY DEF PartsOf
<1>2. \A k \in 1 .. m : st[k] \in 0 .. n /\ part[st[k]] \in Seq(S) /\ base[st[k]] \in Seq(S) /\ f[st[k]] \in Seq(S)
  BY <1>0
<1>3. seqs \in [1 .. m -> Seq(S)]
  BY <1>2 DEF PartsOf
<1> HIDE DEF seqs
<1>4. seqs \in Seq(Seq(S)) /\ Len(seqs) = m
  BY <1>3
<1>5. g \in [1 .. m -> Seq(S)] /\ \A k \in 1 .. m : g[k] = f[st[k]]
  BY <1>2
<1> HIDE DEF g
<1>6. ASSUME NEW k \in 1 .. m - 1
      PROVE  g[k] = seqs[k] \o g[k + 1]
  <2>1. k \in 1 .. m /\ k + 1 \in 1 .. m /\ k < m
    OBVIOUS
  <2>2. next[st[k]] > st[k] /\ st[k + 1] = next[st[k]]
    BY DEF IsWalk
  <2>3. f[st[k]] = part[st[k]] \o f[next[st[k]]]
    BY <1>0, <1>2, <2>1, <2>2 DEF IsUnfolded
  <2> QED  BY <1>1, <1>5, <2>1, <2>2, <2>3
<1>7. g[m] = seqs[m]
  <2>1. m \in 1 .. m /\ ~(m < m)
    OBVIOUS
  <2>2. f[st[m]] = base[st[m]]
    BY <1>0, <1>2, <2>1 DEF IsUnfolded, IsWalk
  <2> QED  BY <1>1, <1>5, <2>1, <2>2
<1>8. IsChain(S, seqs, g)
  BY <1>4, <1>5, <1>6, <1>7 DEF IsChain
<1>9. FlattenSeq(seqs) = g[1]
  BY <1>8, FlattenChain
<1>10. g[1] = f[0]
  <2>1. 1 \in 1 .. m /\ st[1] = 0
    BY DEF IsWalk
  <2> QED  BY <1>5, <2>1
<1> QED  BY <1>9, <1>10 DEF seqs

\* Every function that unfolds so has such sequences.
LEMMA UnfoldedType ==
  ASSUME NEW S, NEW n \in Nat, NEW base \in [0 .. n -> Seq(S)], NEW part \in [0 .. n -> Seq(S)],
         NEW next \in [0 .. n -> 0 .. n], NEW f, IsUnfolded(f, n, base, part, next)
  PROVE  \A i \in 0 .. n : f[i] \in Seq(S)
<1>1. ASSUME NEW i \in 0 .. n, ~(next[i] > i)
      PROVE  f[i] \in Seq(S)
  <2>1. f[i] = base[i] /\ base[i] \in Seq(S)
    BY <1>1 DEF IsUnfolded
  <2> QED  BY <2>1
<1>2. ASSUME NEW i \in 0 .. n, next[i] > i, f[next[i]] \in Seq(S)
      PROVE  f[i] \in Seq(S)
  <2>1. f[i] = part[i] \o f[next[i]]
    BY <1>2 DEF IsUnfolded
  <2> DEFINE a == part[i]
             b == f[next[i]]
  <2>2. a \in Seq(S) /\ b \in Seq(S)
    BY <1>2
  <2>3. f[i] = a \o b
    BY <2>1
  <2> HIDE DEF a, b
  <2>4. a \o b \in Seq(S)
    BY <2>2, ConcatProperties
  <2> QED  BY <2>3, <2>4
<1> DEFINE T == {i \in 0 .. n : f[i] \in Seq(S)}
<1>3. ASSUME NEW i \in 0 .. n, next[i] > i => next[i] \in T
      PROVE  i \in T
  BY <1>1, <1>2, <1>3
<1> HIDE DEF T
<1>4. \A i \in 0 .. n : i \in T
  BY <1>3, BackwardInduction
<1> QED  BY <1>4 DEF T

\* f goes from each number to the first one in T.
IsFirst(f, n, T) == \A i \in 0 .. n : f[i] = IF i \in T THEN i ELSE f[i + 1]

\* Such a function exists.
LEMMA FirstExists ==
  ASSUME NEW n \in Nat, NEW T, n \in T
  PROVE  \E f \in [0 .. n -> 0 .. n] : IsFirst(f, n, T)
<1> DEFINE base == [i \in 0 .. n |-> i]
           next == [i \in 0 .. n |-> IF i \in T THEN i ELSE i + 1]
           op == [p \in (0 .. n) \X (0 .. n) |-> p[2]]
<1>1. ASSUME NEW i \in 0 .. n, i \notin T
      PROVE  i + 1 \in 0 .. n /\ i + 1 > i
  <2>1. i # n
    BY <1>1
  <2> QED  BY <2>1
<1>2. /\ base \in [0 .. n -> 0 .. n] /\ \A i \in 0 .. n : base[i] = i /\ ~(i > i)
      /\ op \in [(0 .. n) \X (0 .. n) -> 0 .. n] /\ \A i, j \in 0 .. n : op[<<i, j>>] = j
  OBVIOUS
<1>3. next \in [0 .. n -> 0 .. n] /\ \A i \in 0 .. n : next[i] = IF i \in T THEN i ELSE i + 1
  BY <1>1
<1> HIDE DEF base, next, op
<1>4. PICK f \in [0 .. n -> 0 .. n] : IsBackward(f, n, base, next, op)
  BY <1>2, <1>3, BackwardRecursion
<1>5. ASSUME NEW i \in 0 .. n
      PROVE  f[i] = IF i \in T THEN i ELSE f[i + 1]
  <2>1. f[i] = IF next[i] > i THEN op[<<i, f[next[i]]>>] ELSE base[i]
    BY <1>4 DEF IsBackward
  <2>2. CASE i \in T
    BY <1>2, <1>3, <2>1, <2>2
  <2>3. CASE i \notin T
    <3>1. next[i] = i + 1 /\ next[i] > i /\ i + 1 \in 0 .. n
      BY <1>1, <1>3, <2>3
    <3>2. f[i + 1] \in 0 .. n
      BY <3>1
    <3> QED  BY <1>2, <2>1, <2>3, <3>1, <3>2
  <2> QED  BY <2>2, <2>3
<1> QED  BY <1>5 DEF IsFirst

\* And it does.
LEMMA FirstIs ==
  ASSUME NEW n \in Nat, NEW T, n \in T, NEW f, IsFirst(f, n, T)
  PROVE  \A i \in 0 .. n : f[i] \in i .. n /\ f[i] \in T /\ \A j \in i .. f[i] - 1 : j \notin T
<1> DEFINE next == [i \in 0 .. n |-> IF i \in T THEN i ELSE i + 1]
           Found(i) == f[i] \in i .. n /\ f[i] \in T /\ \A j \in i .. f[i] - 1 : j \notin T
           S == {i \in 0 .. n : Found(i)}
<1>1. ASSUME NEW i \in 0 .. n, i \notin T
      PROVE  i + 1 \in 0 .. n /\ i + 1 > i
  <2>1. i # n
    BY <1>1
  <2> QED  BY <2>1
<1>2. next \in [0 .. n -> 0 .. n] /\ \A i \in 0 .. n : next[i] = IF i \in T THEN i ELSE i + 1
  BY <1>1
<1> HIDE DEF next
<1>3. \A i \in 0 .. n : f[i] = IF i \in T THEN i ELSE f[i + 1]
  BY DEF IsFirst
<1>4. ASSUME NEW i \in 0 .. n, next[i] > i => next[i] \in S
      PROVE  Found(i)
  <2>1. CASE i \in T
    <3>1. f[i] = i
      BY <1>3, <2>1
    <3> QED  BY <2>1, <3>1
  <2>2. CASE i \notin T
    <3>1. next[i] = i + 1 /\ i + 1 \in 0 .. n
      BY <1>1, <1>2, <2>2
    <3>2. next[i] > i
      BY <1>1, <2>2, <3>1
    <3>3. i + 1 \in S
      BY <1>4, <3>1, <3>2
    <3>4. f[i + 1] \in i + 1 .. n /\ f[i + 1] \in T /\ \A j \in i + 1 .. f[i + 1] - 1 : j \notin T
      BY <3>3
    <3> DEFINE k == f[i + 1]
    <3>5. f[i] = k
      BY <1>3, <2>2
    <3>6. k \in i + 1 .. n /\ k \in T /\ \A j \in i + 1 .. k - 1 : j \notin T
      BY <3>4
    <3> HIDE DEF k
    <3>7. k \in i .. n
      BY <3>6
    <3>8. \A j \in i .. k - 1 : j = i \/ j \in i + 1 .. k - 1
      BY <3>6
    <3>9. \A j \in i .. k - 1 : j \notin T
      BY <2>2, <3>6, <3>8
    <3> QED  BY <3>5, <3>6, <3>7, <3>9
  <2> QED  BY <2>1, <2>2
<1>5. ASSUME NEW i \in 0 .. n, next[i] > i => next[i] \in S
      PROVE  i \in S
  <2> HIDE DEF Found
  <2> QED  BY <1>4, <1>5
<1> HIDE DEF S
<1>6. \A i \in 0 .. n : i \in S
  BY <1>2, <1>5, BackwardInduction
<1> QED  BY <1>6 DEF S

\* A part of a sequence.
LEMMA PartIs ==
  ASSUME NEW S, NEW s \in Seq(S), NEW a \in Nat, NEW b \in Nat, a <= b, b <= Len(s)
  PROVE  /\ SubSeq(s, a + 1, b) \in Seq(S)
         /\ Len(SubSeq(s, a + 1, b)) = b - a
         /\ \A i \in 1 .. b - a : SubSeq(s, a + 1, b)[i] = s[a + i]
<1> DEFINE t == SubSeq(s, a + 1, b)
<1>1. Len(s) \in Nat
  BY LenProperties
<1>2. \A i \in a + 1 .. b : s[i] \in S
  <2> SUFFICES ASSUME NEW i \in a + 1 .. b
               PROVE  s[i] \in S
    OBVIOUS
  <2>1. i \in 1 .. Len(s)
    BY <1>1
  <2> QED  BY <2>1, ElementOfSeq
<1>3. /\ t \in Seq(S)
      /\ Len(t) = IF a + 1 <= b THEN b - (a + 1) + 1 ELSE 0
      /\ \A i \in 1 .. b - (a + 1) + 1 : t[i] = s[a + 1 + i - 1]
  BY <1>2, SubSeqProperties
<1> HIDE DEF t
<1>4. b - (a + 1) + 1 = b - a /\ \A i \in 1 .. b - a : a + 1 + i - 1 = a + i
  OBVIOUS
<1>5. Len(t) = b - a
  BY <1>3
<1>6. \A i \in 1 .. b - a : t[i] = s[a + i]
  BY <1>3, <1>4
<1> QED  BY <1>3, <1>5, <1>6 DEF t

\* The smallest number of a set.
LEMMA MinIs ==
  ASSUME NEW S, S \subseteq Nat, NEW x \in S, \A y \in S : x <= y
  PROVE  Min(S) = x
<1>1. x \in S /\ \A y \in S : x <= y
  OBVIOUS
<1>2. \A z \in S : (\A y \in S : z <= y) => z = x
  OBVIOUS
<1> QED  BY <1>1, <1>2 DEF Min
=============================================================================
