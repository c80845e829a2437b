-------------------------- MODULE UtilitiesProofs --------------------------
(***************************************************************************)
(* Theorems about three parts of Utilities, for every value of the         *)
(* constants.                                                              *)
(*                                                                         *)
(* LogFile: what is kept of a log file when it is written again with a     *)
(* limit of lines, the inductive invariant of the files, and its two       *)
(* properties.  Sum() and Rewritten() are folds over a batch: what they    *)
(* compute is proved by induction over the batch, with the lemmas of       *)
(* SequenceInduction.                                                      *)
(*                                                                         *)
(* ArgumentParser: the invariant of the loop of parse(), and what it has   *)
(* made of the arguments in the end.                                       *)
(*                                                                         *)
(* TextFunctions: what split(), replace2() and to_array() return for every *)
(* string.  Their loops are walks through the string that go on behind     *)
(* each token they find.                                                   *)
(***************************************************************************)
EXTENDS LogFile, TextFunctions, SequenceInduction, FiniteSetTheorems

-----------------------------------------------------------------------------
(* LogFile.                                                                *)

Line == Nat \ {0}

Message == Seq(Line) \ {<<>>}

\* Parts of a file, one behind the other.
LEMMA ThreeParts ==
  ASSUME NEW a \in Seq(Line), NEW b \in Seq(Line), NEW c \in Seq(Line)
  PROVE  (a \o b) \o c = a \o (b \o c)
BY ConcatAssociative

-----------------------------------------------------------------------------
(* The sum of a batch.                                                     *)

\* Its partial sums.
LEMMA SumSteps ==
  ASSUME NEW batch \in Seq(Nat)
  PROVE  \E f : /\ Sum(batch) = f[Len(batch)]
                /\ f[0] = 0
                /\ \A k \in 1 .. Len(batch) : f[k] = f[k - 1] + batch[k]
                /\ \A k \in 0 .. Len(batch) : f[k] \in Nat
<1> DEFINE n == Len(batch)
           G == [p \in (1 .. n) \X Nat |-> p[2] + batch[p[1]]]
           Folds(f) == f = [s \in SUBSET (1 .. n) |->
                              IF s = {} THEN 0 ELSE f[s \ {Max(s)}] + batch[Max(s)]]
           iter == CHOOSE f : Folds(f)
<1>1. n \in Nat /\ DOMAIN batch = 1 .. n /\ \A k \in 1 .. n : batch[k] \in Nat
  BY LenProperties, ElementOfSeq
<1>2. Sum(batch) = iter[1 .. n]
  BY <1>1 DEF Sum, FoldLeft, MapThenFoldSet
<1>3. G \in [(1 .. n) \X Nat -> Nat]
  BY <1>1
<1>4. \A k \in 1 .. n : \A a \in Nat : G[<<k, a>>] = a + batch[k]
  OBVIOUS
<1> HIDE DEF n, G
<1>0. 0 \in Nat /\ \E g \in [SUBSET (1 .. n) -> Nat] : IsFold(g, n, 0, G)
  BY <1>1, <1>3, FoldRecursion
<1>5. PICK g \in [SUBSET (1 .. n) -> Nat] :
        \A s \in SUBSET (1 .. n) : g[s] = IF s = {} THEN 0 ELSE G[<<Max(s), g[s \ {Max(s)}]>>]
  BY <1>0 DEF IsFold
<1>6. Folds(g)
  <2>1. ASSUME NEW s \in SUBSET (1 .. n)
        PROVE  g[s] = IF s = {} THEN 0 ELSE g[s \ {Max(s)}] + batch[Max(s)]
    <3>1. CASE s = {}
      BY <1>5, <3>1
    <3>2. CASE s # {}
      <4>1. Max(s) \in 1 .. n
        BY <1>1, <3>2, MaxOfIndices
      <4>2. g[s \ {Max(s)}] \in Nat
        OBVIOUS
      <4>3. g[s] = G[<<Max(s), g[s \ {Max(s)}]>>]
        BY <1>5, <3>2
      <4> QED  BY <1>4, <3>2, <4>1, <4>2, <4>3
    <3> QED  BY <3>1, <3>2
  <2>2. g = [s \in SUBSET (1 .. n) |-> g[s]]
    OBVIOUS
  <2> QED  BY <2>1, <2>2
<1>7. Folds(iter)
  <2> HIDE DEF Folds
  <2> QED  BY <1>6
<1> HIDE DEF iter
<1>8. iter[1 .. 0] = 0
  <2>1. 1 .. 0 = {} /\ 1 .. 0 \in SUBSET (1 .. n)
    OBVIOUS
  <2> QED  BY <1>7, <2>1
<1>9. ASSUME NEW k \in 1 .. n
      PROVE  iter[1 .. k] = iter[1 .. k - 1] + batch[k]
  <2>1. 1 .. k \in SUBSET (1 .. n) /\ 1 .. k # {} /\ Max(1 .. k) = k /\ (1 .. k) \ {k} = 1 .. k - 1
    BY <1>1, FirstIndices
  <2>2. iter[1 .. k] = iter[(1 .. k) \ {Max(1 .. k)}] + batch[Max(1 .. k)]
    <3> HIDE DEF iter
    <3> QED  BY <1>7, <2>1
  <2> QED  BY <2>1, <2>2
<1> HIDE DEF Folds
<1> DEFINE f == [k \in 0 .. n |-> iter[1 .. k]]
<1>10. /\ f[0] = 0
       /\ \A k \in 1 .. n : f[k] = f[k - 1] + batch[k]
       /\ Sum(batch) = f[n]
  <2>1. 0 \in 0 .. n /\ n \in 0 .. n
    BY <1>1
  <2>2. ASSUME NEW k \in 1 .. n
        PROVE  f[k] = f[k - 1] + batch[k]
    <3>1. k \in 0 .. n /\ k - 1 \in 0 .. n
      BY <1>1
    <3> QED  BY <1>9, <3>1
  <2> QED  BY <1>2, <1>8, <2>1, <2>2
<1> HIDE DEF f
<1> DEFINE N == {k \in Nat : k <= n => f[k] \in Nat}
<1>11. 0 \in N
  BY <1>10
<1>12. ASSUME NEW k \in Nat, k \in N
       PROVE  k + 1 \in N
  <2> SUFFICES ASSUME k + 1 <= n
               PROVE  f[k + 1] \in Nat
    OBVIOUS
  <2>1. k + 1 \in 1 .. n /\ (k + 1) - 1 = k /\ k <= n
    BY <1>1
  <2>2. f[k + 1] = f[k] + batch[k + 1]
    BY <1>10, <2>1
  <2> QED  BY <1>1, <1>12, <2>1, <2>2
<1> HIDE DEF N
<1>13. \A k \in Nat : k \in N
  BY <1>11, <1>12, NatSetInduction
<1>14. \A k \in 0 .. n : f[k] \in Nat
  BY <1>13 DEF N
<1> QED  BY <1>10, <1>14 DEF n

\* The sum up to one more message.
LEMMA SumUpTo ==
  ASSUME NEW batch \in Seq(Nat)
  PROVE  /\ Sum(batch) \in Nat
         /\ Sum(SubSeq(batch, 1, 0)) = 0
         /\ \A k \in 1 .. Len(batch) :
              /\ Sum(SubSeq(batch, 1, k)) = Sum(SubSeq(batch, 1, k - 1)) + batch[k]
              /\ Sum(SubSeq(batch, 1, k - 1)) \in Nat
<1> DEFINE n == Len(batch)
<1>1. n \in Nat /\ \A k \in 1 .. n : batch[k] \in Nat
  BY LenProperties, ElementOfSeq
<1>2. Sum(batch) \in Nat
  <2>1. PICK f : /\ Sum(batch) = f[n]
                 /\ \A k \in 0 .. n : f[k] \in Nat
    BY SumSteps
  <2> QED  BY <1>1, <2>1
<1>3. Sum(SubSeq(batch, 1, 0)) = 0
  <2>1. SubSeq(batch, 1, 0) \in Seq(Nat) /\ Len(SubSeq(batch, 1, 0)) = 0
    <3>1. 0 \in 0 .. Len(batch)
      BY <1>1
    <3> QED  BY <3>1, FirstElements
  <2>2. PICK f : /\ Sum(SubSeq(batch, 1, 0)) = f[Len(SubSeq(batch, 1, 0))]
                 /\ f[0] = 0
    BY <2>1, SumSteps
  <2> QED  BY <2>1, <2>2
<1>4. ASSUME NEW k \in 1 .. n
      PROVE  /\ Sum(SubSeq(batch, 1, k)) = Sum(SubSeq(batch, 1, k - 1)) + batch[k]
             /\ Sum(SubSeq(batch, 1, k - 1)) \in Nat
  <2> DEFINE s == SubSeq(batch, 1, k)
             r == SubSeq(batch, 1, k - 1)
             G == [p \in (1 .. k - 1) \X Nat |-> p[2] + batch[p[1]]]
  <2>1. k \in 0 .. Len(batch) /\ k - 1 \in 0 .. Len(batch)
    BY <1>1
  <2>2. s \in Seq(Nat) /\ Len(s) = k /\ \A i \in 1 .. k : s[i] = batch[i]
    BY <2>1, FirstElements
  <2>3. r \in Seq(Nat) /\ Len(r) = k - 1 /\ \A i \in 1 .. k - 1 : r[i] = batch[i]
    BY <2>1, FirstElements
  <2> HIDE DEF s, r
  <2>4. PICK f : /\ Sum(s) = f[Len(s)]
                 /\ f[0] = 0
                 /\ \A i \in 1 .. Len(s) : f[i] = f[i - 1] + s[i]
                 /\ \A i \in 0 .. Len(s) : f[i] \in Nat
    BY <2>2, SumSteps
  <2>5. PICK g : /\ Sum(r) = g[Len(r)]
                 /\ g[0] = 0
                 /\ \A i \in 1 .. Len(r) : g[i] = g[i - 1] + r[i]
                 /\ \A i \in 0 .. Len(r) : g[i] \in Nat
    BY <2>3, SumSteps
  <2>6. ASSUME NEW i \in 1 .. k - 1
        PROVE  f[i] = G[<<i, f[i - 1]>>] /\ g[i] = G[<<i, g[i - 1]>>]
    <3>1. i \in 1 .. k /\ i - 1 \in 0 .. k /\ i - 1 \in 0 .. k - 1 /\ i \in 1 .. k - 1
      BY <1>1
    <3>2. f[i - 1] \in Nat /\ g[i - 1] \in Nat
      BY <2>2, <2>3, <2>4, <2>5, <3>1
    <3>3. f[i] = f[i - 1] + batch[i] /\ g[i] = g[i - 1] + batch[i]
      BY <2>2, <2>3, <2>4, <2>5, <3>1
    <3>4. \A a \in Nat : G[<<i, a>>] = a + batch[i]
      BY <3>1
    <3> HIDE DEF G
    <3> QED  BY <3>2, <3>3, <3>4
  <2> HIDE DEF G
  <2>7. f[k - 1] = g[k - 1]
    <3>1. k - 1 \in Nat /\ k - 1 \in 0 .. k - 1
      BY <1>1
    <3> DEFINE m == k - 1
    <3>2. m \in Nat /\ f[0] = g[0] /\ Steps(f, m, G) /\ Steps(g, m, G)
      BY <2>4, <2>5, <2>6, <3>1 DEF Steps
    <3> HIDE DEF m
    <3>3. \A i \in 0 .. m : f[i] = g[i]
      BY <3>2, SameSteps
    <3> QED  BY <3>1, <3>3 DEF m
  <2>8. f[k] = f[k - 1] + s[k] /\ s[k] = batch[k]
    BY <2>2, <2>4
  <2>9. g[k - 1] \in Nat
    BY <1>1, <2>3, <2>5
  <2>10. Sum(s) = Sum(r) + batch[k] /\ Sum(r) \in Nat
    BY <2>2, <2>3, <2>4, <2>5, <2>7, <2>8, <2>9
  <2> QED  BY <2>10 DEF s, r
<1> QED  BY <1>2, <1>3, <1>4

-----------------------------------------------------------------------------
(* The lines of a batch.                                                   *)

\* The m lines that come after the first n.
Fresh(n, m) == [k \in 1 .. m |-> n + k]

LEMMA FreshType ==
  ASSUME NEW n \in Nat, NEW m \in Nat
  PROVE  Fresh(n, m) \in Seq(Line) /\ Len(Fresh(n, m)) = m /\ \A k \in 1 .. m : Fresh(n, m)[k] = n + k
<1>1. \A k \in 1 .. m : n + k \in Line
  BY DEF Line
<1> QED  BY <1>1, IsASeq DEF Fresh

\* Those of one message behind those of others.
LEMMA FreshConcat ==
  ASSUME NEW n \in Nat, NEW a \in Nat, NEW b \in Nat
  PROVE  Fresh(n, a) \o Fresh(n + a, b) = Fresh(n, a + b)
<1> DEFINE s == Fresh(n, a)
           t == Fresh(n + a, b)
           u == Fresh(n, a + b)
<1>1. s \in Seq(Line) /\ Len(s) = a /\ \A k \in 1 .. a : s[k] = n + k
  BY FreshType
<1>2. t \in Seq(Line) /\ Len(t) = b /\ \A k \in 1 .. b : t[k] = (n + a) + k
  <2>1. n + a \in Nat
    OBVIOUS
  <2> QED  BY <2>1, FreshType
<1>3. u \in Seq(Line) /\ Len(u) = a + b /\ \A k \in 1 .. a + b : u[k] = n + k
  <2>1. a + b \in Nat
    OBVIOUS
  <2> QED  BY <2>1, FreshType
<1> HIDE DEF s, t, u
<1>4. /\ s \o t \in Seq(Line) /\ Len(s \o t) = a + b
      /\ \A k \in 1 .. a + b : (s \o t)[k] = IF k <= a THEN s[k] ELSE t[k - a]
  BY <1>1, <1>2, ConcatProperties
<1>5. ASSUME NEW k \in 1 .. a + b
      PROVE  (s \o t)[k] = u[k]
  <2>1. CASE k <= a
    <3>1. k \in 1 .. a
      BY <2>1
    <3> QED  BY <1>1, <1>3, <1>4, <2>1, <3>1
  <2>2. CASE ~(k <= a)
    <3>1. k - a \in 1 .. b /\ (n + a) + (k - a) = n + k
      BY <2>2
    <3> QED  BY <1>2, <1>3, <1>4, <2>2, <3>1
  <2> QED  BY <2>1, <2>2
<1>6. s \o t = u
  BY <1>3, <1>4, <1>5, SeqEqual
<1> QED  BY <1>6 DEF s, t, u

\* The messages of a batch: the lines of each, and of the first k of them.
LEMMA NumberedLines ==
  ASSUME NEW batch \in Seq(Line), written \in Nat
  PROVE  /\ Numbered(batch) \in Seq(Message)
         /\ Len(Numbered(batch)) = Len(batch)
         /\ Sum(batch) \in Nat
         /\ FlattenSeq(Numbered(batch)) = Fresh(written, Sum(batch))
<1> DEFINE n == Len(batch)
           num == Numbered(batch)
           before(k) == Sum(SubSeq(batch, 1, k))
<1>1. n \in Nat /\ \A k \in 1 .. n : batch[k] \in Line
  BY LenProperties, ElementOfSeq
<1>2. batch \in Seq(Nat)
  BY SeqMonotonic DEF Line
<1>3. /\ Sum(batch) \in Nat
      /\ before(0) = 0
      /\ \A k \in 1 .. n : before(k) = before(k - 1) + batch[k] /\ before(k - 1) \in Nat
  BY <1>2, SumUpTo
<1>4. before(n) = Sum(batch)
  BY SubSeqFull
<1> HIDE DEF before
<1>5. ASSUME NEW k \in 1 .. n
      PROVE  Fresh(written + before(k - 1), batch[k]) \in Message
  <2>1. written + before(k - 1) \in Nat /\ batch[k] \in Nat /\ batch[k] # 0
    BY <1>1, <1>3 DEF Line
  <2>2. Fresh(written + before(k - 1), batch[k]) \in Seq(Line)
        /\ Len(Fresh(written + before(k - 1), batch[k])) # 0
    BY <2>1, FreshType
  <2> QED  BY <2>2, EmptySeq DEF Message
<1>6. num = [k \in 1 .. n |-> Fresh(written + before(k - 1), batch[k])]
  BY DEF Numbered, Fresh, before
<1>7. num \in Seq(Message) /\ Len(num) = n /\ \A k \in 1 .. n : num[k] = Fresh(written + before(k - 1), batch[k])
  <2> HIDE DEF num
  <2> QED  BY <1>1, <1>5, <1>6, IsASeq
<1> HIDE DEF num
<1>8. num \in Seq(Seq(Line))
  BY <1>7, SeqMonotonic DEF Message
<1> DEFINE N == {k \in Nat : k <= n => FlattenSeq(SubSeq(num, 1, k)) = Fresh(written, before(k))}
<1>9. 0 \in N
  <2>1. SubSeq(num, 1, 0) = <<>>
    <3>1. 0 \in 0 .. Len(num)
      BY <1>1, <1>7
    <3>2. SubSeq(num, 1, 0) \in Seq(Seq(Line)) /\ Len(SubSeq(num, 1, 0)) = 0
      BY <1>8, <3>1, FirstElements
    <3> QED  BY <3>2, EmptySeq
  <2>2. Fresh(written, 0) = <<>>
    <3>1. Fresh(written, 0) \in Seq(Line) /\ Len(Fresh(written, 0)) = 0
      BY FreshType
    <3> QED  BY <3>1, EmptySeq
  <2> QED  BY <1>3, <2>1, <2>2, FlattenEmpty
<1>10. ASSUME NEW k \in Nat, k \in N
       PROVE  k + 1 \in N
  <2> SUFFICES ASSUME k + 1 <= n
               PROVE  FlattenSeq(SubSeq(num, 1, k + 1)) = Fresh(written, before(k + 1))
    OBVIOUS
  <2>1. k + 1 \in 1 .. n /\ k + 1 \in 1 .. Len(num) /\ (k + 1) - 1 = k /\ k <= n
    BY <1>1, <1>7
  <2>2. FlattenSeq(SubSeq(num, 1, k + 1)) = FlattenSeq(SubSeq(num, 1, (k + 1) - 1)) \o num[k + 1]
    BY <1>8, <2>1, FlattenStep
  <2>3. FlattenSeq(SubSeq(num, 1, k)) = Fresh(written, before(k))
    BY <1>10, <2>1
  <2>4. num[k + 1] = Fresh(written + before(k), batch[k + 1])
    BY <1>7, <2>1
  <2>5. before(k) \in Nat /\ batch[k + 1] \in Nat /\ before(k + 1) = before(k) + batch[k + 1]
    BY <1>1, <1>3, <2>1 DEF Line
  <2>6. Fresh(written, before(k)) \o Fresh(written + before(k), batch[k + 1]) = Fresh(written, before(k) + batch[k + 1])
    BY <2>5, FreshConcat
  <2> QED  BY <2>1, <2>2, <2>3, <2>4, <2>5, <2>6
<1> HIDE DEF N
<1>11. \A k \in Nat : k \in N
  BY <1>9, <1>10, NatSetInduction
<1>12. FlattenSeq(num) = Fresh(written, Sum(batch))
  <2>1. FlattenSeq(SubSeq(num, 1, n)) = Fresh(written, before(n))
    <3>1. n <= n
      BY <1>1
    <3> QED  BY <1>1, <1>11, <3>1 DEF N
  <2>2. SubSeq(num, 1, n) = num
    BY <1>7, SubSeqFull
  <2> QED  BY <1>4, <2>1, <2>2
<1> QED  BY <1>3, <1>7, <1>12 DEF num

-----------------------------------------------------------------------------
(* A file that is written again.                                           *)

\* One message more: its lines come behind, and what goes out at the front goes only
\* when there are as many elements as the limit allows.
LEMMA PushKeeps ==
  ASSUME max_lines_ \in Nat \ {0}, NEW lines \in Seq(Message), NEW message \in Message
  PROVE  /\ Push(lines, message) \in Seq(Message)
         /\ IF Len(lines) >= max_lines_
            THEN /\ Len(Push(lines, message)) >= max_lines_
                 /\ FlattenSeq(lines) \o message = Head(lines) \o FlattenSeq(Push(lines, message))
                 /\ Head(lines) \in Seq(Line)
            ELSE FlattenSeq(Push(lines, message)) = FlattenSeq(lines) \o message
<1>1. message \in Seq(Line) /\ lines \in Seq(Seq(Line)) /\ Len(lines) \in Nat
  BY SeqMonotonic, LenProperties DEF Message
<1>2. CASE Len(lines) >= max_lines_
  <2> DEFINE rest == Tail(lines)
             first == Head(lines)
  <2>1. lines # <<>>
    BY <1>1, <1>2, EmptySeq
  <2>2. rest \in Seq(Message) /\ Len(rest) = Len(lines) - 1 /\ first \in Message /\ lines = <<first>> \o rest
    BY <2>1, HeadTailProperties
  <2> HIDE DEF rest, first
  <2>3. rest \in Seq(Seq(Line)) /\ first \in Seq(Line) /\ <<first>> \in Seq(Seq(Line))
    BY <2>2, SeqMonotonic DEF Message
  <2>4. FlattenSeq(lines) = first \o FlattenSeq(rest)
    <3>1. FlattenSeq(lines) = FlattenSeq(<<first>>) \o FlattenSeq(rest)
      BY <2>2, <2>3, FlattenConcat
    <3>2. <<first>> = Append(<<>>, first) /\ <<>> \in Seq(Seq(Line))
      BY <2>3, EmptySeq
    <3>3. FlattenSeq(<<first>>) = <<>> \o first
      BY <2>3, <3>2, FlattenAppend, FlattenEmpty
    <3>4. FlattenSeq(<<first>>) = first
      BY <2>3, <3>3, ConcatEmptySeq
    <3> QED  BY <3>1, <3>4
  <2>5. Push(lines, message) = Append(rest, message)
    BY <1>2 DEF Push, rest
  <2>6. Append(rest, message) \in Seq(Message) /\ Len(Append(rest, message)) = Len(rest) + 1
    BY <2>2, AppendProperties
  <2>7. FlattenSeq(Append(rest, message)) = FlattenSeq(rest) \o message
    BY <1>1, <2>3, FlattenAppend
  <2>8. (first \o FlattenSeq(rest)) \o message = first \o (FlattenSeq(rest) \o message)
    <3> DEFINE q == FlattenSeq(rest)
    <3>1. q \in Seq(Line) /\ first \in Seq(Line) /\ message \in Seq(Line)
      BY <1>1, <2>3, FlattenType
    <3> HIDE DEF q, first
    <3>2. (first \o q) \o message = first \o (q \o message)
      BY <3>1, ThreeParts
    <3> QED  BY <3>2 DEF q
  <2>9. Len(Append(rest, message)) >= max_lines_
    BY <1>1, <1>2, <2>2, <2>6
  <2> QED  BY <1>2, <2>3, <2>4, <2>5, <2>6, <2>7, <2>8, <2>9 DEF first
<1>3. CASE ~(Len(lines) >= max_lines_)
  <2>1. Push(lines, message) = Append(lines, message)
    BY <1>3 DEF Push
  <2>2. Append(lines, message) \in Seq(Message)
    BY AppendProperties
  <2>3. FlattenSeq(Append(lines, message)) = FlattenSeq(lines) \o message
    BY <1>1, FlattenAppend
  <2> QED  BY <1>3, <2>1, <2>2, <2>3
<1> QED  BY <1>2, <1>3

\* One push after the other.
LEMMA PushSteps ==
  ASSUME max_lines_ \in Nat \ {0}, NEW first \in Seq(Message), NEW num \in Seq(Message)
  PROVE  \E f : /\ FoldLeft(Push, first, num) = f[Len(num)]
                /\ f[0] = first
                /\ \A k \in 1 .. Len(num) : f[k] = Push(f[k - 1], num[k])
                /\ \A k \in 0 .. Len(num) : f[k] \in Seq(Message)
<1> DEFINE n == Len(num)
           S == Seq(Message)
           G == [p \in (1 .. n) \X S |-> Push(p[2], num[p[1]])]
           Folds(f) == f = [s \in SUBSET (1 .. n) |->
                              IF s = {} THEN first ELSE Push(f[s \ {Max(s)}], num[Max(s)])]
           iter == CHOOSE f : Folds(f)
<1>1. n \in Nat /\ DOMAIN num = 1 .. n /\ \A k \in 1 .. n : num[k] \in Message
  BY LenProperties, ElementOfSeq
<1>2. FoldLeft(Push, first, num) = iter[1 .. n]
  BY <1>1 DEF FoldLeft, MapThenFoldSet
<1>3. \A k \in 1 .. n : \A a \in S : Push(a, num[k]) \in S
  BY <1>1, PushKeeps
<1>4. /\ G \in [(1 .. n) \X S -> S]
      /\ \A k \in 1 .. n : \A a \in S : G[<<k, a>>] = Push(a, num[k])
  <2> HIDE DEF S, n
  <2> QED  BY <1>3
<1>5. first \in S
  OBVIOUS
<1> HIDE DEF n, G, S
<1>6. \E g \in [SUBSET (1 .. n) -> S] : IsFold(g, n, first, G)
  BY <1>1, <1>4, <1>5, FoldRecursion
<1>7. PICK g \in [SUBSET (1 .. n) -> S] :
        \A s \in SUBSET (1 .. n) : g[s] = IF s = {} THEN first ELSE G[<<Max(s), g[s \ {Max(s)}]>>]
  BY <1>6 DEF IsFold
<1>8. Folds(g)
  <2>1. ASSUME NEW s \in SUBSET (1 .. n)
        PROVE  g[s] = IF s = {} THEN first ELSE Push(g[s \ {Max(s)}], num[Max(s)])
    <3>1. CASE s = {}
      BY <1>7, <3>1
    <3>2. CASE s # {}
      <4>1. Max(s) \in 1 .. n
        BY <1>1, <3>2, MaxOfIndices
      <4>2. g[s \ {Max(s)}] \in S
        OBVIOUS
      <4>3. g[s] = G[<<Max(s), g[s \ {Max(s)}]>>]
        BY <1>7, <3>2
      <4> QED  BY <1>4, <3>2, <4>1, <4>2, <4>3
    <3> QED  BY <3>1, <3>2
  <2>2. g = [s \in SUBSET (1 .. n) |-> g[s]]
    OBVIOUS
  <2> QED  BY <2>1, <2>2
<1>9. Folds(iter)
  <2> HIDE DEF Folds
  <2> QED  BY <1>8
<1> HIDE DEF iter
<1>10. iter[1 .. 0] = first
  <2>1. 1 .. 0 = {} /\ 1 .. 0 \in SUBSET (1 .. n)
    OBVIOUS
  <2> QED  BY <1>9, <2>1
<1>11. ASSUME NEW k \in 1 .. n
       PROVE  iter[1 .. k] = Push(iter[1 .. k - 1], num[k])
  <2>1. 1 .. k \in SUBSET (1 .. n) /\ 1 .. k # {} /\ Max(1 .. k) = k /\ (1 .. k) \ {k} = 1 .. k - 1
    BY <1>1, FirstIndices
  <2>2. iter[1 .. k] = Push(iter[(1 .. k) \ {Max(1 .. k)}], num[Max(1 .. k)])
    BY <1>9, <2>1
  <2> QED  BY <2>1, <2>2
<1> HIDE DEF Folds
<1> DEFINE f == [k \in 0 .. n |-> iter[1 .. k]]
<1>12. /\ f[0] = first
       /\ \A k \in 1 .. n : f[k] = Push(f[k - 1], num[k])
       /\ FoldLeft(Push, first, num) = f[n]
  <2>1. 0 \in 0 .. n /\ n \in 0 .. n
    BY <1>1
  <2>2. ASSUME NEW k \in 1 .. n
        PROVE  f[k] = Push(f[k - 1], num[k])
    <3>1. k \in 0 .. n /\ k - 1 \in 0 .. n
      BY <1>1
    <3>2. f[k] = iter[1 .. k] /\ f[k - 1] = iter[1 .. k - 1]
      BY <3>1
    <3> HIDE DEF f
    <3> QED  BY <1>11, <3>2
  <2> QED  BY <1>2, <1>10, <2>1, <2>2
<1> HIDE DEF f
<1> DEFINE N == {k \in Nat : k <= n => f[k] \in S}
<1>13. 0 \in N
  BY <1>5, <1>12
<1>14. ASSUME NEW k \in Nat, k \in N
       PROVE  k + 1 \in N
  <2> SUFFICES ASSUME k + 1 <= n
               PROVE  f[k + 1] \in S
    OBVIOUS
  <2>1. k + 1 \in 1 .. n /\ (k + 1) - 1 = k /\ k <= n
    BY <1>1
  <2>2. f[k + 1] = Push(f[k], num[k + 1])
    BY <1>12, <2>1
  <2>3. f[k] \in S
    BY <1>14, <2>1
  <2> QED  BY <1>3, <2>1, <2>2, <2>3
<1> HIDE DEF N
<1>15. \A k \in Nat : k \in N
  BY <1>13, <1>14, NatSetInduction
<1>16. \A k \in 0 .. n : f[k] \in S
  BY <1>15 DEF N
<1> QED  BY <1>12, <1>16 DEF n, S

\* The elements of a file as it was read: one for each line.
LEMMA LinesOfFile ==
  ASSUME NEW file \in Seq(Line)
  PROVE  LET first == [i \in 1 .. Len(file) |-> <<file[i]>>]
         IN  first \in Seq(Message) /\ FlattenSeq(first) = file
<1> DEFINE Elements(s) == [i \in 1 .. Len(s) |-> <<s[i]>>]
           T == {s \in Seq(Line) : FlattenSeq(Elements(s)) = s}
<1>1. ASSUME NEW s \in Seq(Line)
      PROVE  /\ Elements(s) \in Seq(Message) /\ Len(Elements(s)) = Len(s)
             /\ \A i \in 1 .. Len(s) : Elements(s)[i] = <<s[i]>>
  <2>1. Len(s) \in Nat /\ \A i \in 1 .. Len(s) : s[i] \in Line
    BY LenProperties, ElementOfSeq
  <2>2. \A i \in 1 .. Len(s) : <<s[i]>> \in Message
    <3> SUFFICES ASSUME NEW i \in 1 .. Len(s)
                 PROVE  <<s[i]>> \in Message
      OBVIOUS
    <3>1. <<s[i]>> \in Seq(Line) /\ <<s[i]>> # <<>>
      BY <2>1
    <3> QED  BY <3>1 DEF Message
  <2> QED  BY <2>1, <2>2, IsASeq
<1>2. <<>> \in T
  <2>1. <<>> \in Seq(Line) /\ Len(<<>>) = 0
    BY EmptySeq
  <2>2. Elements(<<>>) = <<>>
    <3>1. Elements(<<>>) \in Seq(Message) /\ Len(Elements(<<>>)) = 0
      BY <1>1, <2>1
    <3> HIDE DEF Elements
    <3> QED  BY <3>1, EmptySeq
  <2> HIDE DEF Elements
  <2> QED  BY <2>1, <2>2, FlattenEmpty
<1>3. ASSUME NEW s \in Seq(Line), NEW e \in Line, s \in T
      PROVE  Append(s, e) \in T
  <2> DEFINE t == Append(s, e)
  <2>1. /\ t \in Seq(Line) /\ Len(t) = Len(s) + 1 /\ Len(s) \in Nat
        /\ \A i \in 1 .. Len(s) : t[i] = s[i]
        /\ t[Len(s) + 1] = e
    BY AppendProperties, LenProperties
  <2> HIDE DEF t
  <2>2. /\ Elements(t) \in Seq(Message) /\ Len(Elements(t)) = Len(t)
        /\ \A i \in 1 .. Len(t) : Elements(t)[i] = <<t[i]>>
    BY <1>1, <2>1
  <2>3. /\ Elements(s) \in Seq(Message) /\ Len(Elements(s)) = Len(s)
        /\ \A i \in 1 .. Len(s) : Elements(s)[i] = <<s[i]>>
    BY <1>1
  <2>4. FlattenSeq(Elements(s)) = s
    BY <1>3
  <2> HIDE DEF Elements
  <2>5. <<e>> \in Message /\ <<e>> \in Seq(Line)
    BY DEF Message
  <2>6. /\ Append(Elements(s), <<e>>) \in Seq(Message)
        /\ Len(Append(Elements(s), <<e>>)) = Len(s) + 1
        /\ \A i \in 1 .. Len(s) : Append(Elements(s), <<e>>)[i] = Elements(s)[i]
        /\ Append(Elements(s), <<e>>)[Len(s) + 1] = <<e>>
    BY <2>3, <2>5, AppendProperties
  <2>7. Elements(t) = Append(Elements(s), <<e>>)
    <3>1. ASSUME NEW i \in 1 .. Len(s) + 1
          PROVE  Elements(t)[i] = Append(Elements(s), <<e>>)[i]
      <4>1. CASE i = Len(s) + 1
        BY <2>1, <2>2, <2>6, <4>1
      <4>2. CASE i # Len(s) + 1
        <5>1. i \in 1 .. Len(s)
          BY <2>1, <4>2
        <5> QED  BY <2>1, <2>2, <2>3, <2>6, <5>1
      <4> QED  BY <4>1, <4>2
    <3> QED  BY <2>1, <2>2, <2>6, <3>1, SeqEqual
  <2>8. FlattenSeq(Append(Elements(s), <<e>>)) = FlattenSeq(Elements(s)) \o <<e>>
    <3>1. Elements(s) \in Seq(Seq(Line))
      BY <2>3, SeqMonotonic DEF Message
    <3> QED  BY <2>5, <3>1, FlattenAppend
  <2>9. s \o <<e>> = t
    BY AppendIsConcat DEF t
  <2> QED  BY <2>1, <2>4, <2>7, <2>8, <2>9 DEF t
<1> HIDE DEF T
<1>4. file \in T
  BY <1>2, <1>3, SeqSetInduction
<1>5. FlattenSeq(Elements(file)) = file
  BY <1>4 DEF T
<1> QED  BY <1>1, <1>5

\* What is written again is the end of the file with the batch behind it: all of that,
\* or as many lines at least as the limit allows.
LEMMA RewrittenIsTheEnd ==
  ASSUME max_lines_ \in Nat \ {0}, written \in Nat, NEW file \in Seq(Line), NEW batch \in Seq(Line)
  PROVE  /\ Rewritten(file, batch) \in Seq(Line)
         /\ \E front \in Seq(Line) :
              /\ file \o Fresh(written, Sum(batch)) = front \o Rewritten(file, batch)
              /\ front = <<>> \/ Len(Rewritten(file, batch)) >= max_lines_
<1> DEFINE first == [i \in 1 .. Len(file) |-> <<file[i]>>]
           num == Numbered(batch)
           n == Len(num)
<1>1. first \in Seq(Message) /\ FlattenSeq(first) = file
  BY LinesOfFile
<1>2. /\ num \in Seq(Message) /\ FlattenSeq(num) = Fresh(written, Sum(batch))
      /\ n \in Nat /\ \A k \in 1 .. n : num[k] \in Message
  <2>1. num \in Seq(Message) /\ FlattenSeq(num) = Fresh(written, Sum(batch))
    BY NumberedLines
  <2> HIDE DEF num
  <2> QED  BY <2>1, LenProperties, ElementOfSeq
<1>3. Rewritten(file, batch) = FlattenSeq(FoldLeft(Push, first, num))
  BY DEF Rewritten
<1> HIDE DEF first, num
<1>4. PICK f : /\ FoldLeft(Push, first, num) = f[n]
               /\ f[0] = first
               /\ \A k \in 1 .. n : f[k] = Push(f[k - 1], num[k])
               /\ \A k \in 0 .. n : f[k] \in Seq(Message)
  BY <1>1, <1>2, PushSteps
<1>5. num \in Seq(Seq(Line))
  BY <1>2, SeqMonotonic DEF Message
<1> DEFINE full(k) == file \o FlattenSeq(SubSeq(num, 1, k))
           IsEnd(front, k) == /\ full(k) = front \o FlattenSeq(f[k])
                              /\ front = <<>> \/ Len(f[k]) >= max_lines_
           N == {k \in Nat : k <= n => \E front \in Seq(Line) : IsEnd(front, k)}
<1>6. \A k \in 0 .. n : /\ f[k] \in Seq(Seq(Line)) /\ FlattenSeq(f[k]) \in Seq(Line)
                        /\ Len(FlattenSeq(f[k])) >= Len(f[k]) /\ Len(f[k]) \in Nat
                        /\ SubSeq(num, 1, k) \in Seq(Seq(Line))
                        /\ FlattenSeq(SubSeq(num, 1, k)) \in Seq(Line)
                        /\ full(k) \in Seq(Line)
  <2> SUFFICES ASSUME NEW k \in 0 .. n
               PROVE  /\ f[k] \in Seq(Seq(Line)) /\ FlattenSeq(f[k]) \in Seq(Line)
                      /\ Len(FlattenSeq(f[k])) >= Len(f[k]) /\ Len(f[k]) \in Nat
                      /\ SubSeq(num, 1, k) \in Seq(Seq(Line))
                      /\ FlattenSeq(SubSeq(num, 1, k)) \in Seq(Line)
                      /\ full(k) \in Seq(Line)
    OBVIOUS
  <2>1. f[k] \in Seq(Seq(Line) \ {<<>>})
    BY <1>4 DEF Message
  <2>2. f[k] \in Seq(Seq(Line)) /\ Len(f[k]) \in Nat
    BY <2>1, SeqMonotonic, LenProperties
  <2>3. Len(FlattenSeq(f[k])) >= Len(f[k])
    BY <2>1, FlattenLonger
  <2>4. FlattenSeq(f[k]) \in Seq(Line)
    BY <2>2, FlattenType
  <2>5. SubSeq(num, 1, k) \in Seq(Seq(Line))
    BY <1>5, FirstElements
  <2>6. FlattenSeq(SubSeq(num, 1, k)) \in Seq(Line)
    BY <2>5, FlattenType
  <2> QED  BY <2>2, <2>3, <2>4, <2>5, <2>6, ConcatProperties
<1>7. 0 \in N
  <2>1. SubSeq(num, 1, 0) = <<>>
    <3>1. 0 \in 0 .. Len(num)
      BY <1>2
    <3>2. Len(SubSeq(num, 1, 0)) = 0 /\ SubSeq(num, 1, 0) \in Seq(Seq(Line))
      BY <1>5, <3>1, FirstElements
    <3> QED  BY <3>2, EmptySeq
  <2>2. full(0) = file
    BY <2>1, FlattenEmpty, ConcatEmptySeq
  <2>3. full(0) = <<>> \o FlattenSeq(f[0])
    BY <1>1, <1>4, <2>2, ConcatEmptySeq
  <2>4. <<>> \in Seq(Line)
    BY EmptySeq
  <2> HIDE DEF full
  <2>5. IsEnd(<<>>, 0)
    BY <2>3
  <2> HIDE DEF IsEnd
  <2> QED  BY <2>4, <2>5
<1>8. ASSUME NEW k \in Nat, k \in N
      PROVE  k + 1 \in N
  <2> SUFFICES ASSUME k + 1 <= n
               PROVE  \E front \in Seq(Line) : IsEnd(front, k + 1)
    <3> HIDE DEF IsEnd
    <3> QED  OBVIOUS
  <2>1. k + 1 \in 1 .. n /\ k + 1 \in 1 .. Len(num) /\ (k + 1) - 1 = k /\ k <= n /\ k \in 0 .. n
    BY <1>2
  <2>2. PICK front \in Seq(Line) : IsEnd(front, k)
    <3> HIDE DEF IsEnd
    <3> QED  BY <1>8, <2>1
  <2> DEFINE lines == f[k]
             message == num[k + 1]
             more == f[k + 1]
  <2>3. more = Push(lines, message) /\ message \in Message /\ lines \in Seq(Message)
    <3>1. f[k + 1] = Push(f[(k + 1) - 1], num[k + 1])
      BY <1>4, <2>1
    <3> QED  BY <1>2, <1>4, <2>1, <3>1
  <2>4. full(k + 1) = full(k) \o message
    <3>1. FlattenSeq(SubSeq(num, 1, k + 1)) = FlattenSeq(SubSeq(num, 1, k)) \o message
      <4>1. FlattenSeq(SubSeq(num, 1, k + 1)) = FlattenSeq(SubSeq(num, 1, (k + 1) - 1)) \o num[k + 1]
        BY <1>5, <2>1, FlattenStep
      <4> QED  BY <2>1, <4>1
    <3>2. message \in Seq(Line) /\ FlattenSeq(SubSeq(num, 1, k)) \in Seq(Line)
      BY <1>6, <2>1, <2>3 DEF Message
    <3>3. (file \o FlattenSeq(SubSeq(num, 1, k))) \o message = file \o (FlattenSeq(SubSeq(num, 1, k)) \o message)
      <4> DEFINE q == FlattenSeq(SubSeq(num, 1, k))
      <4>1. q \in Seq(Line) /\ file \in Seq(Line) /\ message \in Seq(Line)
        BY <3>2
      <4> HIDE DEF message, q
      <4>2. (file \o q) \o message = file \o (q \o message)
        BY <4>1, ThreeParts, SMTT(30)
      <4> QED  BY <4>2 DEF q
    <3> QED  BY <3>1, <3>3
  <2>5. /\ FlattenSeq(lines) \in Seq(Line) /\ FlattenSeq(more) \in Seq(Line) /\ Len(lines) \in Nat
        /\ message \in Seq(Line)
    <3>1. k + 1 \in 0 .. n
      BY <2>1
    <3> QED  BY <1>6, <2>1, <2>3, <3>1 DEF Message
  <2>6. full(k) = front \o FlattenSeq(lines) /\ (front = <<>> \/ Len(lines) >= max_lines_)
    BY <2>2
  <2>7. full(k + 1) = (front \o FlattenSeq(lines)) \o message
    <3> HIDE DEF full, message
    <3> QED  BY <2>4, <2>6
  <2>8. (front \o FlattenSeq(lines)) \o message = front \o (FlattenSeq(lines) \o message)
    <3> DEFINE q == FlattenSeq(lines)
    <3>1. q \in Seq(Line) /\ front \in Seq(Line) /\ message \in Seq(Line)
      BY <2>5
    <3> HIDE DEF message, q
    <3>2. (front \o q) \o message = front \o (q \o message)
      BY <3>1, ThreeParts
    <3> QED  BY <3>2 DEF q
  <2> HIDE DEF full, message, lines, more
  <2>9. CASE Len(lines) >= max_lines_
    <3>1. /\ Len(more) >= max_lines_
          /\ FlattenSeq(lines) \o message = Head(lines) \o FlattenSeq(more)
          /\ Head(lines) \in Seq(Line)
      BY <2>3, <2>9, PushKeeps
    <3>2. front \o (Head(lines) \o FlattenSeq(more)) = (front \o Head(lines)) \o FlattenSeq(more)
      BY <2>5, <3>1, ThreeParts
    <3>3. front \o Head(lines) \in Seq(Line)
      BY <3>1, ConcatProperties
    <3>4. full(k + 1) = (front \o Head(lines)) \o FlattenSeq(more)
      BY <2>7, <2>8, <3>1, <3>2
    <3>5. IsEnd(front \o Head(lines), k + 1)
      BY <3>1, <3>4 DEF more
    <3> HIDE DEF IsEnd
    <3> QED  BY <3>3, <3>5
  <2>10. CASE ~(Len(lines) >= max_lines_)
    <3>1. FlattenSeq(more) = FlattenSeq(lines) \o message
      BY <2>3, <2>10, PushKeeps
    <3>2. full(k + 1) = front \o FlattenSeq(more) /\ front = <<>>
      BY <2>6, <2>7, <2>8, <2>10, <3>1
    <3>3. IsEnd(front, k + 1)
      BY <3>2 DEF more
    <3> HIDE DEF IsEnd
    <3> QED  BY <3>3
  <2> QED  BY <2>9, <2>10
<1>9. PICK front \in Seq(Line) : IsEnd(front, n)
  <2> HIDE DEF IsEnd
  <2>1. \A k \in Nat : k \in N
    <3> HIDE DEF N
    <3> QED  BY <1>7, <1>8, NatSetInduction
  <2>2. n <= n /\ n \in Nat
    BY <1>2
  <2> QED  BY <2>1, <2>2
<1>10. SubSeq(num, 1, n) = num
  BY <1>2, SubSeqFull
<1>11. n \in 0 .. n
  BY <1>2
<1>12. FlattenSeq(f[n]) \in Seq(Line) /\ Len(FlattenSeq(f[n])) >= Len(f[n]) /\ Len(f[n]) \in Nat
       /\ Len(FlattenSeq(f[n])) \in Nat
  <2>1. FlattenSeq(f[n]) \in Seq(Line) /\ Len(FlattenSeq(f[n])) >= Len(f[n]) /\ Len(f[n]) \in Nat
    BY <1>6, <1>11
  <2> QED  BY <2>1, LenProperties
<1>13. file \o Fresh(written, Sum(batch)) = front \o FlattenSeq(f[n])
  BY <1>2, <1>9, <1>10
<1>14. front = <<>> \/ Len(FlattenSeq(f[n])) >= max_lines_
  BY <1>9, <1>12
<1>15. Rewritten(file, batch) = FlattenSeq(f[n])
  BY <1>3, <1>4
<1> QED  BY <1>12, <1>13, <1>14, <1>15

-----------------------------------------------------------------------------
(* What the lines of a file are.                                           *)

\* No line twice and none before an earlier one, of the first n.
Increasing(s, n) ==
  \A i \in 1 .. Len(s) : s[i] <= n /\ \A j \in 1 .. Len(s) : i < j => s[i] < s[j]

\* The last m of them are the last of the first n.
EndsWith(s, m, n) == m <= Len(s) /\ \A i \in 0 .. m - 1 : s[Len(s) - i] = n - i

\* New lines behind it.
LEMMA FreshLinesBehind ==
  ASSUME NEW s \in Seq(Line), NEW n \in Nat, NEW m \in Nat, NEW a \in Nat,
         Increasing(s, n), EndsWith(s, m, n)
  PROVE  /\ s \o Fresh(n, a) \in Seq(Line)
         /\ Len(s \o Fresh(n, a)) = Len(s) + a
         /\ Increasing(s \o Fresh(n, a), n + a)
         /\ EndsWith(s \o Fresh(n, a), m + a, n + a)
<1> DEFINE l == Len(s)
           t == Fresh(n, a)
           u == s \o t
<1>1. l \in Nat /\ \A i \in 1 .. l : s[i] \in Nat
  BY LenProperties, ElementOfSeq DEF Line
<1>2. t \in Seq(Line) /\ Len(t) = a /\ \A k \in 1 .. a : t[k] = n + k
  BY FreshType
<1> HIDE DEF t
<1>3. /\ u \in Seq(Line) /\ Len(u) = l + a
      /\ \A i \in 1 .. l + a : u[i] = IF i <= l THEN s[i] ELSE t[i - l]
  BY <1>2, ConcatProperties
<1>4. /\ \A i \in 1 .. l : s[i] <= n /\ \A j \in 1 .. l : i < j => s[i] < s[j]
      /\ m <= l /\ \A i \in 0 .. m - 1 : s[l - i] = n - i
  BY DEF Increasing, EndsWith
<1> HIDE DEF u, l
<1>5. ASSUME NEW i \in 1 .. l + a
      PROVE  u[i] = IF i <= l THEN s[i] ELSE n + (i - l)
  <2>1. CASE i <= l
    BY <1>3, <2>1
  <2>2. CASE ~(i <= l)
    <3>1. i - l \in 1 .. a
      BY <1>1, <2>2
    <3> QED  BY <1>2, <1>3, <2>2, <3>1
  <2> QED  BY <2>1, <2>2
<1>6. ASSUME NEW i \in 1 .. l + a
      PROVE  u[i] <= n + a /\ \A j \in 1 .. l + a : i < j => u[i] < u[j]
  <2>1. CASE i <= l
    <3>1. i \in 1 .. l /\ u[i] = s[i]
      BY <1>1, <1>5, <2>1
    <3>2. s[i] <= n /\ s[i] \in Nat
      BY <1>1, <1>4, <3>1
    <3>3. ASSUME NEW j \in 1 .. l + a, i < j
          PROVE  u[i] < u[j]
      <4>1. CASE j <= l
        <5>1. j \in 1 .. l /\ u[j] = s[j]
          BY <1>1, <1>5, <4>1
        <5> QED  BY <1>4, <3>1, <3>3, <5>1
      <4>2. CASE ~(j <= l)
        <5>1. u[j] = n + (j - l)
          BY <1>5, <4>2
        <5> QED  BY <1>1, <3>1, <3>2, <4>2, <5>1
      <4> QED  BY <4>1, <4>2
    <3> QED  BY <3>1, <3>2, <3>3
  <2>2. CASE ~(i <= l)
    <3>1. u[i] = n + (i - l)
      BY <1>5, <2>2
    <3>2. ASSUME NEW j \in 1 .. l + a, i < j
          PROVE  u[i] < u[j]
      <4>1. u[j] = n + (j - l)
        <5>1. ~(j <= l)
          BY <1>1, <2>2, <3>2
        <5> QED  BY <1>5, <5>1
      <4> QED  BY <1>1, <3>1, <3>2, <4>1
    <3> QED  BY <1>1, <3>1, <3>2
  <2> QED  BY <2>1, <2>2
<1>7. ASSUME NEW i \in 0 .. (m + a) - 1
      PROVE  u[(l + a) - i] = (n + a) - i
  <2> DEFINE j == (l + a) - i
  <2>1. j \in 1 .. l + a
    BY <1>1, <1>4
  <2>2. CASE j <= l
    <3> DEFINE k == i - a
    <3>1. k \in 0 .. m - 1 /\ l - k = j /\ n - k = (n + a) - i
      BY <1>1, <1>4, <2>2
    <3> HIDE DEF j, k
    <3>2. u[j] = s[j] /\ s[l - k] = n - k
      BY <1>4, <1>5, <2>1, <2>2, <3>1
    <3>3. u[j] = (n + a) - i
      BY <3>1, <3>2
    <3> QED  BY <3>3 DEF j
  <2>3. CASE ~(j <= l)
    <3>1. n + (j - l) = (n + a) - i
      BY <1>1
    <3> HIDE DEF j
    <3>2. u[j] = n + (j - l)
      BY <1>5, <2>1, <2>3
    <3>3. u[j] = (n + a) - i
      BY <3>1, <3>2
    <3> QED  BY <3>3 DEF j
  <2> QED  BY <2>2, <2>3
<1>8. m + a <= l + a
  BY <1>1, <1>4
<1>9. Increasing(u, n + a)
  BY <1>3, <1>6 DEF Increasing
<1>10. EndsWith(u, m + a, n + a)
  BY <1>3, <1>7, <1>8 DEF EndsWith
<1> QED  BY <1>3, <1>9, <1>10 DEF u, t, l

\* The end of a file.
LEMMA EndOfFile ==
  ASSUME NEW front \in Seq(Line), NEW s \in Seq(Line), NEW n \in Nat, NEW m \in Nat, NEW k \in 0 .. m,
         Increasing(front \o s, n), EndsWith(front \o s, m, n), k <= Len(s)
  PROVE  Increasing(s, n) /\ EndsWith(s, k, n)
<1> DEFINE d == Len(front)
           l == Len(s)
           u == front \o s
<1>1. d \in Nat /\ l \in Nat
  BY LenProperties
<1>2. /\ Len(u) = d + l
      /\ \A i \in 1 .. d + l : u[i] = IF i <= d THEN front[i] ELSE s[i - d]
  BY ConcatProperties
<1>3. /\ \A i \in 1 .. d + l : u[i] <= n /\ \A j \in 1 .. d + l : i < j => u[i] < u[j]
      /\ m <= d + l /\ \A i \in 0 .. m - 1 : u[(d + l) - i] = n - i
  BY <1>2 DEF Increasing, EndsWith
<1> HIDE DEF d, l, u
<1>4. ASSUME NEW i \in 1 .. l
      PROVE  s[i] = u[d + i] /\ d + i \in 1 .. d + l
  <2> DEFINE j == d + i
  <2>1. j \in 1 .. d + l /\ ~(j <= d) /\ j - d = i
    BY <1>1
  <2> HIDE DEF j
  <2>2. u[j] = s[i]
    BY <1>2, <2>1
  <2> QED  BY <2>1, <2>2 DEF j
<1>5. ASSUME NEW i \in 1 .. l
      PROVE  s[i] <= n /\ \A j \in 1 .. l : i < j => s[i] < s[j]
  <2>1. s[i] <= n
    <3>1. u[d + i] <= n
      BY <1>3, <1>4
    <3> QED  BY <1>4, <3>1
  <2>2. ASSUME NEW j \in 1 .. l, i < j
        PROVE  s[i] < s[j]
    <3>1. d + i < d + j
      BY <1>1, <2>2
    <3>2. /\ s[i] = u[d + i] /\ d + i \in 1 .. d + l
          /\ s[j] = u[d + j] /\ d + j \in 1 .. d + l
      BY <1>4
    <3>3. u[d + i] < u[d + j]
      BY <1>3, <3>1, <3>2
    <3> QED  BY <3>2, <3>3
  <2> QED  BY <2>1, <2>2
<1>6. ASSUME NEW i \in 0 .. k - 1
      PROVE  s[l - i] = n - i
  <2>1. l - i \in 1 .. l /\ i \in 0 .. m - 1 /\ d + (l - i) = (d + l) - i
    BY <1>1 DEF l
  <2>2. s[l - i] = u[d + (l - i)]
    BY <1>4, <2>1
  <2>3. u[(d + l) - i] = n - i
    BY <1>3, <2>1
  <2> QED  BY <2>1, <2>2, <2>3
<1> QED  BY <1>5, <1>6 DEF Increasing, EndsWith, l

\* The beginning of a file.
LEMMA BeginningOfFile ==
  ASSUME NEW s \in Seq(Line), NEW rest \in Seq(Line), NEW n \in Nat, Increasing(s \o rest, n)
  PROVE  Increasing(s, n)
<1> DEFINE l == Len(s)
           d == Len(rest)
           u == s \o rest
<1>1. d \in Nat /\ l \in Nat
  BY LenProperties
<1>2. /\ Len(u) = l + d
      /\ \A i \in 1 .. l + d : u[i] = IF i <= l THEN s[i] ELSE rest[i - l]
  BY ConcatProperties
<1>3. \A i \in 1 .. l + d : u[i] <= n /\ \A j \in 1 .. l + d : i < j => u[i] < u[j]
  BY <1>2 DEF Increasing
<1> HIDE DEF d, l, u
<1>4. \A i \in 1 .. l : i \in 1 .. l + d /\ u[i] = s[i]
  BY <1>1, <1>2
<1>5. \A i \in 1 .. l : s[i] <= n /\ \A j \in 1 .. l : i < j => s[i] < s[j]
  BY <1>3, <1>4
<1> QED  BY <1>5 DEF Increasing, l

-----------------------------------------------------------------------------
(* The inductive invariant.  While a file is being written what it owes is *)
(* what is in it with what is still to be written behind it.               *)

LTypes ==
  /\ skew \in Skews
  /\ today \in Day
  /\ files \in [Day -> Seq(Line)]
  /\ \A day \in Day : day > today => files[day] = <<>>
  /\ max_lines_ \in 0 .. Width - 1
  /\ thread \in {"none", "running", "writing"}
  /\ unwritten \in Seq(Line)
  /\ written \in Nat /\ keep \in Nat

Owed == files[today] \o unwritten

LInv ==
  /\ LTypes
  /\ thread # "writing" => unwritten = <<>>
  /\ \A day \in Day : Increasing(files[day], written)
  /\ Increasing(Owed, written)
  /\ EndsWith(Owed, keep, written)

\* No lines.
LEMMA NoLines == <<>> \in Seq(Line) /\ \A n \in Nat : Increasing(<<>>, n) /\ EndsWith(<<>>, 0, n)
<1>1. <<>> \in Seq(Line) /\ Len(<<>>) = 0
  BY EmptySeq
<1> QED  BY <1>1 DEF Increasing, EndsWith

\* None to be written, none owed but those in the file.
LEMMA NothingUnwritten ==
  ASSUME NEW s \in Seq(Line)
  PROVE  s \o <<>> = s /\ <<>> \o s = s
BY ConcatEmptySeq

LEMMA LInitInv == LFInit => LInv
<1> SUFFICES ASSUME LFInit
             PROVE  LInv
  OBVIOUS
<1> USE DEF LFInit
<1>1. 0 \in Day
  BY LogFileAssumption DEF Day
<1>2. LTypes
  <2>1. max_lines_ \in 0 .. Width - 1
    <3>1. PICK count \in LineCounts : max_lines_ = count % Width
      OBVIOUS
    <3>2. count \in Nat /\ Width \in Nat \ {0}
      BY LogFileAssumption
    <3> QED  BY <3>1, <3>2
  <2>2. files \in [Day -> Seq(Line)] /\ unwritten \in Seq(Line)
    BY NoLines
  <2> QED  BY <1>1, <2>1, <2>2 DEF LTypes
<1>3. Owed = <<>>
  BY <1>1, NoLines, NothingUnwritten DEF Owed
<1> QED  BY <1>2, <1>3, NoLines DEF LInv

\* check_life_cycle() leaves a file as it is or removes it; the one of today it does
\* not remove unless nothing is owed any more.
LEMMA LifeCycleKeeps ==
  ASSUME LInv, unwritten = <<>>, unwritten' = unwritten, today' = today, written' = written, CheckLifeCycle
  PROVE  /\ files' \in [Day -> Seq(Line)]
         /\ \A day \in Day : files'[day] = <<>> \/ files'[day] = files[day]
         /\ keep' \in Nat
         /\ \A day \in Day : Increasing(files'[day], written')
         /\ Increasing(Owed', written') /\ EndsWith(Owed', keep', written')
<1>1. /\ files \in [Day -> Seq(Line)] /\ today \in Day /\ keep \in Nat /\ written \in Nat
      /\ \A day \in Day : Increasing(files[day], written)
      /\ Increasing(Owed, written) /\ EndsWith(Owed, keep, written)
  BY DEF LInv, LTypes
<1>2. PICK removed \in SUBSET Day :
        /\ files' = [day \in Day |-> IF day \in removed THEN <<>> ELSE files[day]]
        /\ keep' = IF today \in removed THEN 0 ELSE keep
  <2>1. SUBSET {day \in Day : files[day] # <<>>} \subseteq SUBSET Day
    OBVIOUS
  <2> QED  BY <2>1 DEF CheckLifeCycle
<1>3. \A day \in Day : files'[day] = IF day \in removed THEN <<>> ELSE files[day]
  BY <1>2
<1>4. files' \in [Day -> Seq(Line)]
  BY <1>1, <1>2, NoLines
<1>5. \A day \in Day : Increasing(files'[day], written)
  BY <1>1, <1>3, NoLines
<1>6. Owed' = files'[today] /\ Owed = files[today]
  <2>1. Owed' = files'[today] \o <<>> /\ Owed = files[today] \o <<>>
    BY DEF Owed
  <2> QED  BY <1>1, <1>4, <2>1, NothingUnwritten
<1>7. Increasing(Owed', written) /\ EndsWith(Owed', keep', written)
  <2>1. CASE today \in removed
    <3>1. keep' = 0 /\ Owed' = <<>>
      BY <1>1, <1>2, <1>3, <1>6, <2>1
    <3> QED  BY <1>1, <3>1, NoLines
  <2>2. CASE today \notin removed
    <3>1. keep' = keep /\ Owed' = Owed
      BY <1>1, <1>2, <1>3, <1>6, <2>2
    <3> QED  BY <1>1, <3>1
  <2> QED  BY <2>1, <2>2
<1>8. keep' \in Nat
  BY <1>1, <1>2
<1> QED  BY <1>3, <1>4, <1>5, <1>7, <1>8

LEMMA BeginInv == LInv /\ Begin => LInv'
<1> SUFFICES ASSUME LInv, Begin
             PROVE  LInv'
  OBVIOUS
<1>1. /\ thread = "none" /\ thread' = "running" /\ unwritten = <<>>
      /\ skew' = skew /\ today' = today /\ max_lines_' = max_lines_ /\ unwritten' = unwritten /\ written' = written
  BY DEF LInv, Begin
<1>2. /\ files' \in [Day -> Seq(Line)]
      /\ \A day \in Day : files'[day] = <<>> \/ files'[day] = files[day]
      /\ keep' \in Nat
      /\ \A day \in Day : Increasing(files'[day], written')
      /\ Increasing(Owed', written') /\ EndsWith(Owed', keep', written')
  BY <1>1, LifeCycleKeeps DEF Begin
<1>3. LTypes'
  <2>1. \A day \in Day : day > today' => files'[day] = <<>>
    BY <1>1, <1>2 DEF LInv, LTypes
  <2> QED  BY <1>1, <1>2, <2>1 DEF LInv, LTypes
<1> QED  BY <1>1, <1>2, <1>3 DEF LInv

LEMMA EndInv == LInv /\ End => LInv'
<1> SUFFICES ASSUME LInv, End
             PROVE  LInv'
  OBVIOUS
<1>1. /\ thread = "running" /\ thread' = "none" /\ unwritten = <<>>
      /\ skew' = skew /\ today' = today /\ max_lines_' = max_lines_ /\ unwritten' = unwritten /\ written' = written
  BY DEF LInv, End
<1>2. /\ files' \in [Day -> Seq(Line)]
      /\ \A day \in Day : files'[day] = <<>> \/ files'[day] = files[day]
      /\ keep' \in Nat
      /\ \A day \in Day : Increasing(files'[day], written')
      /\ Increasing(Owed', written') /\ EndsWith(Owed', keep', written')
  BY <1>1, LifeCycleKeeps DEF End
<1>3. LTypes'
  <2>1. \A day \in Day : day > today' => files'[day] = <<>>
    BY <1>1, <1>2 DEF LInv, LTypes
  <2> QED  BY <1>1, <1>2, <2>1 DEF LInv, LTypes
<1> QED  BY <1>1, <1>2, <1>3 DEF LInv

\* When more lines have been written the file is in order as it was.
LEMMA IncreasingMore ==
  ASSUME NEW s \in Seq(Line), NEW n \in Nat, NEW a \in Nat, Increasing(s, n)
  PROVE  Increasing(s, n + a)
<1>1. \A i \in 1 .. Len(s) : s[i] \in Nat
  BY ElementOfSeq DEF Line
<1>2. \A i \in 1 .. Len(s) : s[i] <= n + a
  BY <1>1 DEF Increasing
<1> QED  BY <1>2 DEF Increasing

\* The first lines of some, and the others.
LEMMA FirstAndOthers ==
  ASSUME NEW s \in Seq(Line), NEW k \in 0 .. Len(s)
  PROVE  /\ SubSeq(s, 1, k) \in Seq(Line)
         /\ \E others \in Seq(Line) : SubSeq(s, 1, k) \o others = s
         /\ k = Len(s) => SubSeq(s, 1, k) = s
<1> DEFINE others == SubSeq(s, k + 1, Len(s))
<1>1. Len(s) \in Nat /\ k \in Nat
  BY LenProperties
<1>2. SubSeq(s, 1, k) \in Seq(Line)
  BY FirstElements
<1>3. others \in Seq(Line)
  <2>1. \A i \in k + 1 .. Len(s) : s[i] \in Line
    BY <1>1, ElementOfSeq
  <2> QED  BY <1>1, <2>1, SubSeqProperties
<1>4. SubSeq(s, 1, k) \o others = SubSeq(s, 1, Len(s))
  <2>1. 1 \in 1 .. Len(s) + 1 /\ k \in 1 - 1 .. Len(s) /\ Len(s) \in k .. Len(s)
    BY <1>1
  <2> QED  BY <2>1, ConcatAdjacentSubSeq
<1>5. SubSeq(s, 1, Len(s)) = s
  BY SubSeqFull
<1> HIDE DEF others
<1> QED  BY <1>2, <1>3, <1>4, <1>5

LEMMA OpenForWritingInv == ASSUME LInv, NEW batch \in Batches, OpenForWriting(batch) PROVE LInv'
<1> DEFINE sum == Sum(batch)
           file == files[today]
<1>1. /\ skew \in Skews /\ today \in Day /\ files \in [Day -> Seq(Line)]
      /\ \A day \in Day : day > today => files[day] = <<>>
      /\ max_lines_ \in 0 .. Width - 1 /\ written \in Nat /\ keep \in Nat
      /\ unwritten = <<>> /\ \A day \in Day : Increasing(files[day], written)
      /\ Increasing(Owed, written) /\ EndsWith(Owed, keep, written)
  BY DEF LInv, LTypes, OpenForWriting
<1>2. /\ thread' = "writing" /\ written' = written + sum
      /\ skew' = skew /\ today' = today /\ max_lines_' = max_lines_
  BY DEF OpenForWriting
<1>3. max_lines_ \in Nat
  BY <1>1, LogFileAssumption
<1>4. batch \in Seq(Line) /\ sum \in Nat /\ FlattenSeq(Numbered(batch)) = Fresh(written, sum)
  <2>1. batch \in Seq(Line)
    BY LogFileAssumption DEF Line
  <2> QED  BY <1>1, <2>1, NumberedLines
<1> HIDE DEF sum
<1>5. file \in Seq(Line) /\ Owed = file
  <2>1. file \in Seq(Line) /\ Owed = file \o <<>>
    BY <1>1 DEF Owed
  <2> HIDE DEF file
  <2>2. file \o <<>> = file
    BY <2>1, NothingUnwritten
  <2> QED  BY <2>1, <2>2
<1>6. Increasing(file, written) /\ EndsWith(file, keep, written)
  BY <1>1, <1>5
<1>8. written + sum \in Nat /\ keep + sum \in Nat
  BY <1>1, <1>4
<1>9. \A day \in Day : Increasing(files[day], written + sum)
  BY <1>1, <1>4, IncreasingMore
<1>10. CASE max_lines_ = 0
  <2> DEFINE all == file \o Fresh(written, sum)
  <2>1. unwritten' = Fresh(written, sum) /\ files' = files /\ keep' = keep + sum
    BY <1>4, <1>10 DEF OpenForWriting, sum
  <2>2. unwritten' \in Seq(Line)
    BY <1>1, <1>4, <2>1, FreshType
  <2>3. Owed' = all
    BY <1>2, <2>1 DEF Owed
  <2>4. LTypes'
    BY <1>1, <1>2, <1>8, <2>1, <2>2 DEF LTypes
  <2>5. Increasing(all, written + sum) /\ EndsWith(all, keep + sum, written + sum)
    <3> HIDE DEF file
    <3>1. written \in Nat /\ keep \in Nat /\ sum \in Nat
      BY <1>1, <1>4
    <3> QED  BY <1>5, <1>6, <3>1, FreshLinesBehind
  <2> HIDE DEF all
  <2> QED  BY <1>2, <1>9, <2>1, <2>3, <2>4, <2>5 DEF LInv
<1>11. CASE max_lines_ # 0
  <2>a. PICK last \in 0 .. Len(file) :
          LET owed == (IF last = Len(file) THEN keep ELSE 0) + sum
          IN  /\ unwritten' = Rewritten(SubSeq(file, 1, last), batch)
              /\ keep' = IF owed < max_lines_ THEN owed ELSE max_lines_
    BY <1>11 DEF OpenForWriting, sum
  <2> DEFINE old == SubSeq(file, 1, last)
             kept == IF last = Len(file) THEN keep ELSE 0
             all == old \o Fresh(written, sum)
             rest == Rewritten(old, batch)
             k == IF kept + sum < max_lines_ THEN kept + sum ELSE max_lines_
  <2>1. unwritten' = rest /\ files' = [files EXCEPT ![today] = <<>>] /\ keep' = k
    BY <1>11, <2>a DEF OpenForWriting
  <2>b. old \in Seq(Line) /\ kept \in Nat /\ kept + sum \in Nat
    <3> HIDE DEF file
    <3> QED  BY <1>1, <1>4, <1>5, FirstAndOthers
  <2>c. Increasing(old, written) /\ EndsWith(old, kept, written)
    <3>1. PICK others \in Seq(Line) : old \o others = file
      <4> HIDE DEF file
      <4> QED  BY <1>5, FirstAndOthers
    <3>2. last = Len(file) => old = file
      <4> HIDE DEF file
      <4> QED  BY <1>5, FirstAndOthers
    <3> HIDE DEF old, file
    <3>3. Increasing(old, written)
      BY <1>1, <1>6, <2>b, <3>1, BeginningOfFile
    <3>4. CASE last = Len(file)
      BY <1>6, <3>2, <3>3, <3>4
    <3>5. CASE last # Len(file)
      <4>1. Len(old) \in Nat /\ kept = 0
        BY <2>b, <3>5, LenProperties
      <4> HIDE DEF kept
      <4>2. EndsWith(old, kept, written)
        BY <4>1 DEF EndsWith
      <4> QED  BY <3>3, <4>2
    <3> QED  BY <3>4, <3>5
  <2> HIDE DEF old, kept
  <2>d. Increasing(all, written + sum) /\ EndsWith(all, kept + sum, written + sum)
    <3>1. written \in Nat /\ sum \in Nat
      BY <1>1, <1>4
    <3> QED  BY <2>b, <2>c, <3>1, FreshLinesBehind
  <2>2. PICK front \in Seq(Line) : all = front \o rest /\ (front = <<>> \/ Len(rest) >= max_lines_)
    <3>1. max_lines_ \in Nat \ {0}
      BY <1>3, <1>11
    <3> QED  BY <1>1, <1>4, <2>b, <3>1, RewrittenIsTheEnd DEF sum
  <2>3. rest \in Seq(Line)
    <3>1. max_lines_ \in Nat \ {0}
      BY <1>3, <1>11
    <3> QED  BY <1>1, <1>4, <2>b, <3>1, RewrittenIsTheEnd
  <2> HIDE DEF rest, all
  <2>4. k \in 0 .. kept + sum /\ k <= max_lines_
    BY <1>3, <2>b
  <2>5. k <= Len(rest)
    <3>1. CASE front = <<>>
      <4>1. all = rest
        BY <2>2, <2>3, <3>1, NothingUnwritten
      <4>2. kept + sum <= Len(rest)
        BY <2>d, <4>1 DEF EndsWith
      <4>3. Len(rest) \in Nat
        BY <2>3, LenProperties
      <4> HIDE DEF k
      <4> QED  BY <2>b, <2>4, <4>2, <4>3
    <3>2. CASE Len(rest) >= max_lines_
      <4>1. Len(rest) \in Nat
        BY <2>3, LenProperties
      <4>2. k \in Nat
        BY <1>3, <2>b
      <4> HIDE DEF k
      <4> QED  BY <1>3, <2>4, <3>2, <4>1, <4>2
    <3> QED  BY <2>2, <3>1, <3>2
  <2>6. k \in Nat
    BY <1>3, <2>b
  <2> HIDE DEF k
  <2>7. Increasing(rest, written + sum) /\ EndsWith(rest, k, written + sum)
    BY <1>8, <2>b, <2>d, <2>2, <2>3, <2>4, <2>5, EndOfFile
  <2>8. files' \in [Day -> Seq(Line)] /\ files'[today] = <<>> /\ \A day \in Day : day # today => files'[day] = files[day]
    BY <1>1, <2>1, NoLines
  <2>9. Owed' = rest
    <3>1. Owed' = files'[today] \o rest
      BY <1>2, <2>1 DEF Owed
    <3> QED  BY <2>3, <2>8, <3>1, NothingUnwritten
  <2>10. \A day \in Day : Increasing(files'[day], written + sum)
    BY <1>8, <1>9, <2>8, NoLines
  <2>11. LTypes'
    BY <1>1, <1>2, <1>8, <2>1, <2>3, <2>6, <2>8 DEF LTypes
  <2> QED  BY <1>2, <2>1, <2>7, <2>9, <2>10, <2>11 DEF LInv
<1> QED  BY <1>10, <1>11

\* The batch that is lost is not owed.
LEMMA OpenFailsInv == ASSUME LInv, NEW batch \in Batches, OpenFails(batch) PROVE LInv'
<1>1. /\ thread # "writing" /\ written' = written + Sum(batch) /\ keep' = 0
      /\ UNCHANGED <<skew, today, files, max_lines_, thread, unwritten>>
  BY DEF OpenFails
<1>2. Sum(batch) \in Nat /\ written \in Nat /\ files \in [Day -> Seq(Line)] /\ today \in Day
  <2>1. batch \in Seq(Line)
    BY LogFileAssumption DEF Line
  <2> QED  BY <2>1, NumberedLines DEF LInv, LTypes
<1>3. unwritten = <<>>
  BY <1>1 DEF LInv
<1>4. Owed' = Owed /\ Owed \in Seq(Line)
  <2>1. Owed = files[today] \o <<>>
    BY <1>3 DEF Owed
  <2>2. files[today] \in Seq(Line)
    BY <1>2
  <2>3. Owed = files[today]
    BY <2>1, <2>2, NothingUnwritten
  <2> QED  BY <1>1, <2>2, <2>3 DEF Owed
<1>5. LTypes'
  <2>1. written' \in Nat /\ keep' \in Nat
    BY <1>1, <1>2
  <2> QED  BY <1>1, <2>1 DEF LInv, LTypes
<1>6. \A day \in Day : Increasing(files[day], written')
  BY <1>1, <1>2, IncreasingMore DEF LInv
<1>7. Increasing(Owed, written')
  BY <1>1, <1>2, <1>4, IncreasingMore DEF LInv
<1>8. EndsWith(Owed, 0, written')
  <2>1. Len(Owed) \in Nat
    BY <1>4, LenProperties
  <2> QED  BY <2>1 DEF EndsWith
<1> QED  BY <1>1, <1>4, <1>5, <1>6, <1>7, <1>8 DEF LInv

\* Whatever part of the lines is written, what is in the file is in order, and is all
\* that is owed unless some of them are lost.
LEMMA LinesAreWrittenInv ==
  ASSUME LInv, LinesAreWritten, thread' \in {"none", "running"}
  PROVE  LInv'
<1>1. /\ skew \in Skews /\ today \in Day /\ files \in [Day -> Seq(Line)]
      /\ \A day \in Day : day > today => files[day] = <<>>
      /\ max_lines_ \in 0 .. Width - 1 /\ written \in Nat /\ keep \in Nat
      /\ unwritten \in Seq(Line) /\ \A day \in Day : Increasing(files[day], written)
      /\ Increasing(Owed, written) /\ EndsWith(Owed, keep, written)
  BY DEF LInv, LTypes
<1>2. /\ thread' # "writing" /\ unwritten' = <<>>
      /\ skew' = skew /\ today' = today /\ max_lines_' = max_lines_ /\ written' = written
  BY DEF LinesAreWritten
<1>3. PICK k \in 0 .. Len(unwritten) :
        /\ files' = [files EXCEPT ![today] = files[today] \o SubSeq(unwritten, 1, k)]
        /\ keep' = IF k = Len(unwritten) THEN keep ELSE 0
  BY DEF LinesAreWritten
<1> DEFINE saved == SubSeq(unwritten, 1, k)
           file == files[today]
           now == file \o saved
<1>4. file \in Seq(Line) /\ Len(unwritten) \in Nat /\ k \in Nat
  BY <1>1, LenProperties
<1>5. saved \in Seq(Line) /\ (k = Len(unwritten) => saved = unwritten)
  BY <1>1, FirstAndOthers
<1>6. PICK lost \in Seq(Line) : saved \o lost = unwritten
  BY <1>1, FirstAndOthers
<1>8. keep' \in Nat
  BY <1>1, <1>3
<1>9. files' = [files EXCEPT ![today] = now] /\ Owed = file \o unwritten
  BY <1>3 DEF Owed
<1> HIDE DEF saved, file
<1>10. now \in Seq(Line) /\ Owed = now \o lost
  BY <1>4, <1>5, <1>6, <1>9, ThreeParts, ConcatProperties
<1>11. Increasing(now, written)
  BY <1>1, <1>6, <1>10, BeginningOfFile
<1>12. EndsWith(now, keep', written)
  <2>1. CASE k = Len(unwritten)
    <3>1. now = Owed /\ keep' = keep
      BY <1>3, <1>5, <1>9, <2>1
    <3> QED  BY <1>1, <3>1
  <2>2. CASE k # Len(unwritten)
    <3>1. keep' = 0
      BY <1>3, <2>2
    <3>2. Len(now) \in Nat
      BY <1>10, LenProperties
    <3> HIDE DEF now
    <3> QED  BY <3>1, <3>2 DEF EndsWith
  <2> QED  BY <2>1, <2>2
<1> HIDE DEF now
<1>13. files' \in [Day -> Seq(Line)] /\ files'[today] = now /\ \A day \in Day : day # today => files'[day] = files[day]
  BY <1>1, <1>9, <1>10
<1>14. Owed' = now
  <2>1. Owed' = files'[today] \o <<>>
    BY <1>2 DEF Owed
  <2> QED  BY <1>10, <1>13, <2>1, NothingUnwritten
<1>15. \A day \in Day : Increasing(files'[day], written)
  BY <1>1, <1>11, <1>13
<1>16. LTypes'
  <2>1. \A day \in Day : day > today => files'[day] = <<>>
    <3>1. today \in Int
      BY <1>1 DEF Day
    <3> QED  BY <1>1, <1>13, <3>1
  <2> QED  BY <1>1, <1>2, <1>8, <1>13, <2>1, NoLines DEF LTypes
<1> QED  BY <1>2, <1>11, <1>12, <1>14, <1>15, <1>16 DEF LInv

LEMMA WriteLinesInv == LInv /\ WriteLines => LInv'
BY LinesAreWrittenInv DEF WriteLines

LEMMA CrashInv == LInv /\ Crash => LInv'
BY LinesAreWrittenInv DEF Crash

LEMMA MaxLinesInv == ASSUME LInv, NEW count \in LineCounts, MaxLines(count) PROVE LInv'
<1>1. max_lines_' \in 0 .. Width - 1
  <2>1. count \in Nat /\ Width \in Nat \ {0}
    BY LogFileAssumption
  <2> QED  BY <2>1 DEF MaxLines
<1>2. UNCHANGED <<skew, today, files, thread, unwritten, written, keep>>
  BY DEF MaxLines
<1>3. LTypes' /\ Owed' = Owed
  BY <1>1, <1>2 DEF LInv, LTypes, Owed
<1> QED  BY <1>2, <1>3 DEF LInv

LEMMA MidnightInv == LInv /\ Midnight => LInv'
<1> SUFFICES ASSUME LInv, Midnight
             PROVE  LInv'
  OBVIOUS
<1>1. /\ skew \in Skews /\ today \in Day /\ files \in [Day -> Seq(Line)]
      /\ \A day \in Day : day > today => files[day] = <<>>
      /\ max_lines_ \in 0 .. Width - 1 /\ written \in Nat
      /\ unwritten = <<>> /\ \A day \in Day : Increasing(files[day], written)
  BY DEF LInv, LTypes, Midnight
<1>2. /\ thread # "writing" /\ today < LastDay /\ today' = today + 1 /\ keep' = 0
      /\ UNCHANGED <<skew, files, max_lines_, thread, unwritten, written>>
  BY DEF Midnight
<1>3. today' \in Day /\ \A day \in Day : day > today' => day > today
  BY <1>1, <1>2, LogFileAssumption DEF Day
<1>4. LTypes'
  BY <1>1, <1>2, <1>3 DEF LInv, LTypes
<1>5. Owed' = files[today']
  <2>1. files[today'] \in Seq(Line)
    BY <1>1, <1>3
  <2>2. Owed' = files[today'] \o <<>>
    BY <1>1, <1>2 DEF Owed
  <2> QED  BY <2>1, <2>2, NothingUnwritten
<1>6. Increasing(Owed', written) /\ EndsWith(Owed', 0, written)
  <2>1. Increasing(Owed', written)
    BY <1>1, <1>3, <1>5
  <2>2. Owed' \in Seq(Line)
    BY <1>1, <1>3, <1>5
  <2>3. Len(Owed') \in Nat
    BY <2>2, LenProperties
  <2> QED  BY <2>1, <2>3 DEF EndsWith
<1> QED  BY <1>1, <1>2, <1>4, <1>6 DEF LInv

LEMMA LNextInv == LInv /\ [LFNext]_logFileVars => LInv'
<1> SUFFICES ASSUME LInv, [LFNext]_logFileVars
             PROVE  LInv'
  OBVIOUS
<1>1. CASE Begin
  BY <1>1, BeginInv
<1>2. CASE End
  BY <1>2, EndInv
<1>3. ASSUME NEW batch \in Batches, OpenForWriting(batch)
      PROVE  LInv'
  BY <1>3, OpenForWritingInv
<1>4. CASE WriteLines
  BY <1>4, WriteLinesInv
<1>5. CASE Crash
  BY <1>5, CrashInv
<1>6. ASSUME NEW count \in LineCounts, MaxLines(count)
      PROVE  LInv'
  BY <1>6, MaxLinesInv
<1>7. CASE Midnight
  BY <1>7, MidnightInv
<1>8. CASE UNCHANGED logFileVars
  BY <1>8 DEF logFileVars, LInv, LTypes, Owed
<1>9. ASSUME NEW batch \in Batches, OpenFails(batch)
      PROVE  LInv'
  BY <1>9, OpenFailsInv
<1> QED  BY <1>1, <1>2, <1>3, <1>4, <1>5, <1>6, <1>7, <1>8, <1>9 DEF LFNext

-----------------------------------------------------------------------------
(* The theorems.                                                           *)

\* The invariant of the log files: of their types, and that the lines of every file
\* are in the order they were written; those of the file of today with what is still
\* to be written behind them end with all the lines that it owes.
THEOREM LogFileInvariant == LFSpec => []LInv
<1> QED  BY LInitInv, LNextInv, PTL DEF LFSpec

\* Line numbers only, in the files of days that have come.
THEOREM LogFileTypes == LFSpec => []LFTypeOK
<1>1. LInv => LFTypeOK
  <2> SUFFICES ASSUME LInv
               PROVE  LFTypeOK
    OBVIOUS
  <2>1. ASSUME NEW day \in Day
        PROVE  ToSet(files[day]) \subseteq 1 .. written
    <3>1. files[day] \in Seq(Line) /\ written \in Nat /\ Increasing(files[day], written)
      BY DEF LInv, LTypes
    <3>2. \A i \in 1 .. Len(files[day]) : files[day][i] \in Line /\ files[day][i] <= written
      BY <3>1, ElementOfSeq DEF Increasing
    <3>3. ToSet(files[day]) = {files[day][i] : i \in 1 .. Len(files[day])}
      <4>1. DOMAIN files[day] = 1 .. Len(files[day])
        BY <3>1, LenProperties
      <4> QED  BY <4>1 DEF ToSet
    <3> QED  BY <3>1, <3>2, <3>3 DEF Line
  <2>2. unwritten # <<>> => thread = "writing"
    BY DEF LInv
  <2> QED  BY <2>1, <2>2 DEF LInv, LTypes, LFTypeOK
<1> QED  BY <1>1, LogFileInvariant, PTL

\* However often the file is written again with a limit, in whatever order batches,
\* changes of the limit, midnights, life cycles, crashes and errors of the file system
\* come: no line of a file is out of order or there twice, and the file of today ends
\* with the newest lines, all those since the last loss or as many as the limits allowed.
THEOREM NewestLinesAreThere == LFSpec => []FileEndsWithTheNewest
<1>1. LInv => FileEndsWithTheNewest
  <2> SUFFICES ASSUME LInv
               PROVE  FileEndsWithTheNewest
    OBVIOUS
  <2>1. /\ today \in Day /\ files \in [Day -> Seq(Line)] /\ keep \in Nat
        /\ \A day \in Day : Increasing(files[day], written)
        /\ EndsWith(Owed, keep, written)
        /\ thread # "writing" => unwritten = <<>>
    BY DEF LInv, LTypes
  <2>2. ASSUME NEW day \in Day, NEW i \in 2 .. Len(files[day])
        PROVE  files[day][i - 1] < files[day][i]
    <3>1. files[day] \in Seq(Line)
      BY <2>1
    <3>2. Len(files[day]) \in Nat
      BY <3>1, LenProperties
    <3>3. i \in 1 .. Len(files[day]) /\ i - 1 \in 1 .. Len(files[day]) /\ i - 1 < i
      BY <3>2
    <3> QED  BY <2>1, <3>3 DEF Increasing
  <2>3. ASSUME thread # "writing"
        PROVE  /\ Len(files[today]) >= keep
               /\ \A i \in 0 .. keep - 1 : files[today][Len(files[today]) - i] = written - i
    <3>1. files[today] \in Seq(Line)
      BY <2>1
    <3>2. Owed = files[today]
      <4>1. Owed = files[today] \o <<>>
        BY <2>1, <2>3 DEF Owed
      <4> QED  BY <3>1, <4>1, NothingUnwritten
    <3>3. Len(files[today]) \in Nat
      BY <3>1, LenProperties
    <3>4. EndsWith(files[today], keep, written)
      BY <2>1, <3>2
    <3> QED  BY <2>1, <3>3, <3>4 DEF EndsWith
  <2> QED  BY <2>2, <2>3 DEF FileEndsWithTheNewest
<1> QED  BY <1>1, LogFileInvariant, PTL

\* check_life_cycle() removes no file within its life cycle, where the epoch of
\* file_clock is not after that of system_clock; nothing else removes a file.
THEOREM LifeCycleIsKept == LFSpec => NoYoungFileRemoved
<1> DEFINE Kept == \A day \in Day :
                     files[day] # <<>> /\ files'[day] = <<>> /\ skew <= 0 /\ thread' # "writing" /\ thread # "writing" =>
                       today - day > Period
<1>1. LInv /\ [LFNext]_logFileVars => [Kept]_logFileVars
  <2> SUFFICES ASSUME LInv, [LFNext]_logFileVars, NEW day \in Day,
                      files[day] # <<>>, files'[day] = <<>>, skew <= 0, thread' # "writing", thread # "writing"
               PROVE  today - day > Period
    OBVIOUS
  <2>1. /\ files \in [Day -> Seq(Line)] /\ today \in Day /\ skew \in Int /\ unwritten = <<>>
        /\ \A d \in Day : d > today => files[d] = <<>>
    BY LogFileAssumption DEF LInv, LTypes
  <2>2. today \in Nat /\ day \in Nat /\ Period \in Nat /\ ~(day > today)
    BY <2>1, LogFileAssumption DEF Day
  <2>3. ASSUME CheckLifeCycle
        PROVE  today - day > Period
    <3>1. PICK removed \in SUBSET {d \in Day : files[d] # <<>>} :
            /\ \A d \in {e \in Day : files[e] # <<>>} : \E age \in Ages(d) : d \in removed <=> Old(d, age)
            /\ files' = [d \in Day |-> IF d \in removed THEN <<>> ELSE files[d]]
      BY <2>3 DEF CheckLifeCycle
    <3>2. day \in removed
      BY <3>1
    <3>3. PICK age \in Ages(day) : Old(day, age)
      BY <3>1, <3>2
    <3>4. age \in {0, today - day - 1, today - day} /\ (day # today => age # 0 \/ today - day - 1 = 0)
      BY <2>2 DEF Ages
    <3>5. age + skew > Period
      BY <3>3 DEF Old
    <3>6. age > Period
      BY <2>1, <2>2, <3>4, <3>5
    <3> QED  BY <2>2, <3>4, <3>6
  <2>4. ASSUME files' = files
        PROVE  FALSE
    BY <2>4
  <2>5. CASE Begin
    BY <2>3, <2>5 DEF Begin
  <2>6. CASE End
    BY <2>3, <2>6 DEF End
  <2>7. ASSUME NEW batch \in Batches, OpenForWriting(batch)
        PROVE  FALSE
    BY <2>7 DEF OpenForWriting
  <2>8. CASE WriteLines
    BY <2>8 DEF WriteLines
  <2>9. CASE Crash
    <3>1. PICK k \in 0 .. Len(unwritten) : files' = [files EXCEPT ![today] = files[today] \o SubSeq(unwritten, 1, k)]
      BY <2>9 DEF Crash, LinesAreWritten
    <3>2. Len(unwritten) = 0 /\ unwritten \in Seq(Line)
      BY <2>1, EmptySeq
    <3>3. k = 0 /\ 0 \in 0 .. Len(unwritten)
      BY <3>2
    <3>4. SubSeq(unwritten, 1, 0) \in Seq(Line) /\ Len(SubSeq(unwritten, 1, 0)) = 0
      BY <3>2, <3>3, FirstElements
    <3>5. SubSeq(unwritten, 1, k) = <<>>
      BY <3>3, <3>4, EmptySeq
    <3>6. files[today] \in Seq(Line)
      BY <2>1
    <3>7. files[today] \o SubSeq(unwritten, 1, k) = files[today]
      BY <3>5, <3>6, NothingUnwritten
    <3>8. files' = files
      BY <2>1, <3>1, <3>7
    <3> QED  BY <2>4, <3>8
  <2>10. ASSUME NEW count \in LineCounts, MaxLines(count)
         PROVE  FALSE
    BY <2>4, <2>10 DEF MaxLines
  <2>11. CASE Midnight
    BY <2>4, <2>11 DEF Midnight
  <2>12. CASE UNCHANGED logFileVars
    BY <2>4, <2>12 DEF logFileVars
  <2>13. ASSUME NEW batch \in Batches, OpenFails(batch)
         PROVE  FALSE
    BY <2>4, <2>13 DEF OpenFails
  <2> QED  BY <2>5, <2>6, <2>7, <2>8, <2>9, <2>10, <2>11, <2>12, <2>13 DEF LFNext
<1> QED  BY <1>1, LogFileInvariant, PTL DEF LFSpec, NoYoungFileRemoved

-----------------------------------------------------------------------------
(* ArgumentParser.                                                         *)

\* An option that takes a value.
WantsValue(i) == i \in Read /\ arguments[i] \notin {Help, Version}

\* What Read is: an option, but behind an option that takes a value.  It is there:
\* it can be made from the left.
LEMMA ReadIs ==
  ASSUME argc \in Nat
  PROVE  /\ Read \in SUBSET (1 .. argc)
         /\ \A i \in 1 .. argc : i \in Read <=> arguments[i] \in Option /\ ~WantsValue(i - 1)
<1> DEFINE Reads(K, n) == \A i \in 1 .. n :
                            i \in K <=> /\ arguments[i] \in Option
                                        /\ ~(i - 1 \in K /\ arguments[i - 1] \notin {Help, Version})
           N == {n \in Nat : \E K \in SUBSET (1 .. n) : Reads(K, n)}
<1>1. 0 \in N
  <2>1. {} \in SUBSET (1 .. 0) /\ Reads({}, 0)
    OBVIOUS
  <2> HIDE DEF Reads
  <2> QED  BY <2>1
<1>2. ASSUME NEW n \in Nat, n \in N
      PROVE  n + 1 \in N
  <2>1. PICK K \in SUBSET (1 .. n) : Reads(K, n)
    BY <1>2
  <2> DEFINE new == arguments[n + 1] \in Option /\ ~(n \in K /\ arguments[n] \notin {Help, Version})
             L == IF new THEN K \cup {n + 1} ELSE K
  <2>2. L \in SUBSET (1 .. n + 1)
    OBVIOUS
  <2>3. \A i \in 1 .. n : (i \in L <=> i \in K) /\ (i - 1 \in L <=> i - 1 \in K)
    OBVIOUS
  <2>4. n + 1 \in L <=> new
    OBVIOUS
  <2>5. n \in L <=> n \in K
    OBVIOUS
  <2> HIDE DEF L
  <2>6. ASSUME NEW i \in 1 .. n + 1
        PROVE  i \in L <=> /\ arguments[i] \in Option
                           /\ ~(i - 1 \in L /\ arguments[i - 1] \notin {Help, Version})
    <3>1. CASE i = n + 1
      <4>1. i - 1 = n
        BY <3>1
      <4> QED  BY <2>4, <2>5, <3>1, <4>1
    <3>2. CASE i # n + 1
      <4>1. i \in 1 .. n
        BY <3>2
      <4>2. i \in K <=> arguments[i] \in Option /\ ~(i - 1 \in K /\ arguments[i - 1] \notin {Help, Version})
        BY <2>1, <4>1
      <4> QED  BY <2>3, <4>1, <4>2
    <3> QED  BY <3>1, <3>2
  <2>7. Reads(L, n + 1)
    BY <2>6
  <2> HIDE DEF Reads
  <2> QED  BY <2>2, <2>7
<1> HIDE DEF N
<1>3. argc \in N
  BY <1>1, <1>2, NatSetInduction
<1>4. \E K \in SUBSET (1 .. argc) : Reads(K, argc)
  BY <1>3 DEF N
<1>5. Read \in SUBSET (1 .. argc) /\ Reads(Read, argc)
  <2>1. Read = CHOOSE K \in SUBSET (1 .. argc) : Reads(K, argc)
    BY DEF Read
  <2> HIDE DEF Reads
  <2> QED  BY <1>4, <2>1
<1> QED  BY <1>5 DEF WantsValue

\* Where an option of this name was given before the argument at n.
GivenBefore(o, n) == {i \in Read : i < n /\ arguments[i] = o /\ (i < argc \/ o \in {Help, Version})}

\* The inductive invariant: the loop never looks at a value, and the map is what the
\* arguments before this one give.
PInv ==
  /\ arguments \in Seq(Argument)
  /\ index \in 1 .. argc + 1
  /\ index <= argc => ~WantsValue(index - 1)
  /\ DOMAIN result = {o \in Option : GivenBefore(o, index) # {}}
  /\ \A o \in DOMAIN result :
       IF o \in {Help, Version} THEN result[o] = TextOf[o]
       ELSE \E last \in GivenBefore(o, index) :
              (\A j \in GivenBefore(o, index) : j <= last) /\ result[o] = arguments[last + 1]

LEMMA PInitInv == APInit => PInv
<1> SUFFICES ASSUME APInit
             PROVE  PInv
  OBVIOUS
<1>1. argc \in Nat /\ arguments \in Seq(Argument) /\ index = 1 /\ result = <<>>
  BY LenProperties DEF APInit, argc
<1>2. Read \in SUBSET (1 .. argc)
  BY <1>1, ReadIs
<1>3. ~(0 \in Read)
  BY <1>2
<1>4. DOMAIN result = {} /\ index - 1 = 0
  BY <1>1
<1>5. \A o : GivenBefore(o, index) = {}
  <2>1. \A i \in Read : ~(i < index)
    BY <1>1, <1>2
  <2> QED  BY <2>1 DEF GivenBefore
<1>6. index \in 1 .. argc + 1
  BY <1>1
<1> QED  BY <1>1, <1>3, <1>4, <1>5, <1>6 DEF PInv, WantsValue

\* The argument at index is an option when it looks like one.
LEMMA OptionIsRead ==
  ASSUME PInv, ~Finished
  PROVE  /\ argc \in Nat /\ index \in Nat /\ index \in 1 .. argc
         /\ Read \in SUBSET (1 .. argc)
         /\ index \in Read <=> argument_id \in Option
<1>1. argc \in Nat
  BY LenProperties DEF PInv, argc
<1>2. index \in 1 .. argc /\ index \in Nat
  BY <1>1 DEF PInv, Finished
<1>3. ~WantsValue(index - 1)
  BY <1>1, <1>2 DEF PInv
<1> QED  BY <1>1, <1>2, <1>3, ReadIs DEF argument_id

\* The arguments stay what they are, and which of them are options.
LEMMA SameArguments ==
  ASSUME arguments' = arguments
  PROVE  /\ argc' = argc /\ Read' = Read
         /\ \A o : GivenBefore(o, index)' = GivenBefore(o, index')
<1>1. argc' = argc
  BY DEF argc
<1>2. Read' = Read
  BY <1>1 DEF Read
<1> QED  BY <1>1, <1>2 DEF GivenBefore

LEMMA NoOptionInv == PInv /\ NoOption => PInv'
<1> SUFFICES ASSUME PInv, NoOption
             PROVE  PInv'
  OBVIOUS
<1>1. /\ ~Finished /\ argument_id \notin Option /\ index' = index + 1
      /\ arguments' = arguments /\ result' = result
  BY DEF NoOption
<1>2. argc \in Nat /\ index \in Nat /\ index \in 1 .. argc /\ Read \in SUBSET (1 .. argc) /\ index \notin Read
  BY <1>1, OptionIsRead
<1>3. \A o : GivenBefore(o, index + 1) = GivenBefore(o, index)
  <2>1. \A i \in Read : i < index + 1 <=> i < index
    BY <1>2
  <2> QED  BY <2>1 DEF GivenBefore
<1>4. \A o : GivenBefore(o, index)' = GivenBefore(o, index)
  BY <1>1, <1>3, SameArguments
<1>5. index' \in 1 .. argc' + 1
  <2>1. argc' = argc
    BY <1>1, SameArguments
  <2> QED  BY <1>1, <1>2, <2>1
<1>6. ~WantsValue(index - 1)'
  <2>1. Read' = Read /\ (index - 1)' = index
    BY <1>1, <1>2, SameArguments
  <2> QED  BY <1>1, <1>2, <2>1 DEF WantsValue
<1> QED  BY <1>1, <1>4, <1>5, <1>6 DEF PInv

LEMMA ValueIsMissingInv == PInv /\ ValueIsMissing => PInv'
<1> SUFFICES ASSUME PInv, ValueIsMissing
             PROVE  PInv'
  OBVIOUS
<1>1. /\ ~Finished /\ argument_id \in Option \ {Help, Version} /\ index + 1 > argc /\ index' = argc + 1
      /\ arguments' = arguments /\ result' = result
  BY DEF ValueIsMissing
<1>2. argc \in Nat /\ index \in Nat /\ index \in 1 .. argc /\ Read \in SUBSET (1 .. argc)
  BY <1>1, OptionIsRead
<1>3. index = argc
  BY <1>1, <1>2
<1>4. \A o : GivenBefore(o, argc + 1) = GivenBefore(o, index)
  <2> SUFFICES ASSUME NEW o, NEW i \in Read
               PROVE  (i < argc + 1 /\ arguments[i] = o /\ (i < argc \/ o \in {Help, Version}))
                      <=> (i < index /\ arguments[i] = o /\ (i < argc \/ o \in {Help, Version}))
    BY DEF GivenBefore
  <2>1. i \in 1 .. argc
    BY <1>2
  <2>2. CASE i = argc
    <3>1. arguments[i] \notin {Help, Version} /\ ~(i < argc)
      BY <1>1, <1>3, <2>1, <2>2 DEF argument_id
    <3> QED  BY <3>1
  <2>3. CASE i # argc
    <3>1. i < argc /\ i < argc + 1 /\ i < index
      BY <1>2, <1>3, <2>1, <2>3
    <3> QED  BY <3>1
  <2> QED  BY <2>2, <2>3
<1>5. \A o : GivenBefore(o, index)' = GivenBefore(o, index)
  BY <1>1, <1>4, SameArguments
<1>6. index' \in 1 .. argc' + 1 /\ ~(index' <= argc')
  <2>1. argc' = argc
    BY <1>1, SameArguments
  <2> QED  BY <1>1, <1>2, <2>1
<1> QED  BY <1>1, <1>5, <1>6 DEF PInv

LEMMA TakesNoValueInv == PInv /\ TakesNoValue => PInv'
<1> SUFFICES ASSUME PInv, TakesNoValue
             PROVE  PInv'
  OBVIOUS
<1> DEFINE id == argument_id
<1>1. /\ ~Finished /\ id \in {Help, Version} /\ index' = index + 1 /\ arguments' = arguments
      /\ result' = IF id \in DOMAIN result THEN result ELSE With(id, TextOf[id])
  BY DEF TakesNoValue
<1>2. id \in Option
  BY <1>1, ArgumentAssumption
<1>3. /\ argc \in Nat /\ index \in Nat /\ index \in 1 .. argc /\ Read \in SUBSET (1 .. argc) /\ index \in Read
      /\ arguments[index] = id
  BY <1>1, <1>2, OptionIsRead DEF argument_id
<1> HIDE DEF id
<1>4. \A i \in Read : i < index + 1 <=> i < index \/ i = index
  BY <1>3
<1>5. \A o : o # id => GivenBefore(o, index + 1) = GivenBefore(o, index)
  BY <1>3, <1>4 DEF GivenBefore
<1>6. index \in GivenBefore(id, index + 1)
  BY <1>1, <1>3, <1>4 DEF GivenBefore
<1>7. \A o : GivenBefore(o, index)' = GivenBefore(o, index + 1)
  BY <1>1, SameArguments
<1>8. /\ DOMAIN result' = DOMAIN result \cup {id}
      /\ \A o \in DOMAIN result : o # id => result'[o] = result[o]
      /\ result'[id] = TextOf[id]
  <2>1. CASE id \in DOMAIN result
    <3>1. result[id] = TextOf[id]
      BY <1>1, <2>1 DEF PInv
    <3> QED  BY <1>1, <2>1, <3>1
  <2>2. CASE id \notin DOMAIN result
    <3> DEFINE text == TextOf[id]
               with == With(id, text)
    <3>1. /\ DOMAIN with = DOMAIN result \cup {id}
          /\ with[id] = text
          /\ \A o \in DOMAIN result : o # id => with[o] = result[o]
      <4> HIDE DEF id, text
      <4>1. /\ DOMAIN With(id, text) = DOMAIN result \cup {id}
            /\ With(id, text)[id] = text
            /\ \A o \in DOMAIN result : o # id => With(id, text)[o] = result[o]
        BY DEF With
      <4> QED  BY <4>1
    <3>2. result' = with
      BY <1>1, <2>2
    <3> HIDE DEF with
    <3> QED  BY <3>1, <3>2
  <2> QED  BY <2>1, <2>2
<1>9. DOMAIN result' = {o \in Option : GivenBefore(o, index + 1) # {}}
  BY <1>2, <1>5, <1>6, <1>8 DEF PInv
<1>10. ASSUME NEW o \in DOMAIN result'
       PROVE  IF o \in {Help, Version} THEN result'[o] = TextOf[o]
              ELSE \E last \in GivenBefore(o, index + 1) :
                     (\A j \in GivenBefore(o, index + 1) : j <= last) /\ result'[o] = arguments[last + 1]
  <2>1. CASE o = id
    BY <1>1, <1>8, <2>1
  <2>2. CASE o # id
    <3>1. o \in DOMAIN result /\ result'[o] = result[o] /\ GivenBefore(o, index + 1) = GivenBefore(o, index)
      BY <1>5, <1>8, <2>2
    <3> QED  BY <3>1 DEF PInv
  <2> QED  BY <2>1, <2>2
<1>11. index' \in 1 .. argc' + 1
  <2>1. argc' = argc
    BY <1>1, SameArguments
  <2> QED  BY <1>1, <1>3, <2>1
<1>12. ~WantsValue(index - 1)'
  <2>1. Read' = Read /\ (index - 1)' = index
    BY <1>1, <1>3, SameArguments
  <2> QED  BY <1>1, <1>3, <2>1 DEF WantsValue
<1>13. TextOf' = TextOf
  BY DEF TextOf
<1> QED  BY <1>1, <1>7, <1>9, <1>10, <1>11, <1>12, <1>13 DEF PInv

LEMMA TakesValueInv == PInv /\ TakesValue => PInv'
<1> SUFFICES ASSUME PInv, TakesValue
             PROVE  PInv'
  OBVIOUS
<1> DEFINE id == argument_id
<1>1. /\ ~Finished /\ id \in Option /\ id \notin {Help, Version} /\ index + 1 <= argc
      /\ index' = index + 2 /\ arguments' = arguments /\ result' = With(id, arguments[index + 1])
  BY DEF TakesValue
<1>2. /\ argc \in Nat /\ index \in Nat /\ index \in 1 .. argc /\ Read \in SUBSET (1 .. argc) /\ index \in Read
      /\ arguments[index] = id
  BY <1>1, OptionIsRead DEF argument_id
<1> HIDE DEF id
<1>3. WantsValue(index)
  BY <1>1, <1>2 DEF WantsValue
<1>4. index + 1 \notin Read
  <2>1. index + 1 \in 1 .. argc /\ (index + 1) - 1 = index
    BY <1>1, <1>2
  <2>2. index + 1 \in Read <=> arguments[index + 1] \in Option /\ ~WantsValue((index + 1) - 1)
    BY <1>2, <2>1, ReadIs
  <2> QED  BY <1>3, <2>1, <2>2
<1>5. \A i \in Read : /\ i < index + 2 <=> i < index \/ i = index
                      /\ i \in Nat
  <2> SUFFICES ASSUME NEW i \in Read
               PROVE  i \in Nat /\ (i < index + 2 <=> i < index \/ i = index)
    OBVIOUS
  <2>1. i \in Nat /\ i # index + 1
    BY <1>2, <1>4
  <2> QED  BY <1>2, <2>1
<1>6. \A o : o # id => GivenBefore(o, index + 2) = GivenBefore(o, index)
  BY <1>2, <1>5 DEF GivenBefore
<1>7. index \in GivenBefore(id, index + 2)
  <2>1. index < argc
    BY <1>1, <1>2
  <2> QED  BY <1>2, <1>5, <2>1 DEF GivenBefore
<1>8. \A j \in GivenBefore(id, index + 2) : j <= index
  <2> SUFFICES ASSUME NEW j \in GivenBefore(id, index + 2)
               PROVE  j <= index
    OBVIOUS
  <2>1. j \in Read /\ j < index + 2
    BY DEF GivenBefore
  <2> QED  BY <1>2, <1>5, <2>1
<1>9. \A o : GivenBefore(o, index)' = GivenBefore(o, index + 2)
  BY <1>1, SameArguments
<1>10. /\ DOMAIN result' = DOMAIN result \cup {id}
       /\ \A o \in DOMAIN result : o # id => result'[o] = result[o]
       /\ result'[id] = arguments[index + 1]
  <2> DEFINE value == arguments[index + 1]
             with == With(id, value)
  <2>1. result' = with
    BY <1>1
  <2> HIDE DEF value
  <2>2. with = [o \in DOMAIN result \cup {id} |-> IF o = id THEN value ELSE result[o]]
    BY DEF With
  <2> HIDE DEF with
  <2> QED  BY <2>1, <2>2 DEF value
<1>11. DOMAIN result' = {o \in Option : GivenBefore(o, index + 2) # {}}
  BY <1>1, <1>6, <1>7, <1>10 DEF PInv
<1>12. ASSUME NEW o \in DOMAIN result'
       PROVE  IF o \in {Help, Version} THEN result'[o] = TextOf[o]
              ELSE \E last \in GivenBefore(o, index + 2) :
                     (\A j \in GivenBefore(o, index + 2) : j <= last) /\ result'[o] = arguments[last + 1]
  <2>1. CASE o = id
    BY <1>1, <1>7, <1>8, <1>10, <2>1
  <2>2. CASE o # id
    <3>1. o \in DOMAIN result /\ result'[o] = result[o] /\ GivenBefore(o, index + 2) = GivenBefore(o, index)
      BY <1>6, <1>10, <2>2
    <3> QED  BY <3>1 DEF PInv
  <2> QED  BY <2>1, <2>2
<1>13. index' \in 1 .. argc' + 1
  <2>1. argc' = argc
    BY <1>1, SameArguments
  <2> QED  BY <1>1, <1>2, <2>1
<1>14. ~WantsValue(index - 1)'
  <2>1. Read' = Read /\ (index - 1)' = index + 1
    BY <1>1, <1>2, SameArguments
  <2> QED  BY <1>4, <2>1 DEF WantsValue
<1>15. TextOf' = TextOf
  BY DEF TextOf
<1> QED  BY <1>1, <1>9, <1>11, <1>12, <1>13, <1>14, <1>15 DEF PInv

\* The loop of parse() keeps its invariant: what it has made of the arguments so far
\* is what these arguments give, and the next one it looks at is not a value.
THEOREM ParseInvariant == APSpec => []PInv
<1>1. PInv /\ [APNext]_parseVars => PInv'
  <2> SUFFICES ASSUME PInv, [APNext]_parseVars
               PROVE  PInv'
    OBVIOUS
  <2>1. CASE NoOption
    BY <2>1, NoOptionInv
  <2>2. CASE TakesNoValue
    BY <2>2, TakesNoValueInv
  <2>3. CASE ValueIsMissing
    BY <2>3, ValueIsMissingInv
  <2>4. CASE TakesValue
    BY <2>4, TakesValueInv
  <2>5. CASE UNCHANGED parseVars
    <3>1. /\ arguments' = arguments /\ index' = index /\ result' = result
          /\ argc' = argc /\ Read' = Read /\ \A o : GivenBefore(o, index)' = GivenBefore(o, index)
      BY <2>5, SameArguments DEF parseVars
    <3>2. TextOf' = TextOf
      BY DEF TextOf
    <3> QED  BY <3>1, <3>2 DEF PInv, WantsValue
  <2> QED  BY <2>1, <2>2, <2>3, <2>4, <2>5 DEF APNext
<1> QED  BY <1>1, PInitInv, PTL DEF APSpec

\* Whatever the arguments are and however many: when parse() has looked at all of them
\* its map has the options that were given, each with the argument behind the last
\* occurrence that had one, and no value was taken for an option.
THEOREM ArgumentsAreParsed == APSpec => []ParsedArguments
<1>1. PInv => ParsedArguments
  <2> DEFINE Given(o) == {i \in Read : arguments[i] = o /\ (i < argc \/ o \in {Help, Version})}
             last(o) == CHOOSE i \in Given(o) : \A j \in Given(o) : j <= i
  <2> SUFFICES ASSUME PInv, Finished
               PROVE  /\ DOMAIN result = {o \in Option : Given(o) # {}}
                      /\ \A o \in DOMAIN result :
                           result[o] = IF o \in {Help, Version} THEN TextOf[o] ELSE arguments[last(o) + 1]
    BY DEF ParsedArguments
  <2>1. argc \in Nat
    BY LenProperties DEF PInv, argc
  <2>2. Read \in SUBSET (1 .. argc) /\ \A i \in Read : i < index
    BY <2>1, ReadIs DEF PInv, Finished
  <2>3. \A o : GivenBefore(o, index) = Given(o)
    BY <2>2 DEF GivenBefore
  <2>4. \A o : Given(o) \subseteq Nat
    <3> SUFFICES ASSUME NEW o
                 PROVE  Given(o) \subseteq Nat
      OBVIOUS
    <3>1. \A i \in Given(o) : i \in Read
      OBVIOUS
    <3>2. \A i \in Read : i \in Nat
      BY <2>1, <2>2
    <3> HIDE DEF Given
    <3> QED  BY <3>1, <3>2
  <2> HIDE DEF Given
  <2>5. DOMAIN result = {o \in Option : Given(o) # {}}
    BY <2>3 DEF PInv
  <2>6. ASSUME NEW o \in DOMAIN result, o \notin {Help, Version}
        PROVE  result[o] = arguments[last(o) + 1]
    <3>1. PICK k \in Given(o) : (\A j \in Given(o) : j <= k) /\ result[o] = arguments[k + 1]
      BY <2>3, <2>6 DEF PInv
    <3>2. \A i \in Given(o) : (\A j \in Given(o) : j <= i) => i = k
      <4> SUFFICES ASSUME NEW i \in Given(o), \A j \in Given(o) : j <= i
                   PROVE  i = k
        OBVIOUS
      <4>1. i \in Nat /\ k \in Nat /\ i <= k /\ k <= i
        BY <2>4, <3>1
      <4> QED  BY <4>1
    <3>3. last(o) = k
      BY <3>1, <3>2
    <3> QED  BY <3>1, <3>3
  <2>7. ASSUME NEW o \in DOMAIN result, o \in {Help, Version}
        PROVE  result[o] = TextOf[o]
    BY <2>7 DEF PInv
  <2> HIDE DEF last
  <2> QED  BY <2>5, <2>6, <2>7
<1> QED  BY <1>1, ParseInvariant, PTL

-----------------------------------------------------------------------------
(* TextFunctions.                                                          *)
-----------------------------------------------------------------------------
(* The functions of Converter.                                             *)

\* What find() returns: npos, and the token does not occur from there on, or the
\* first place where it does.
LEMMA FindIs ==
  ASSUME NEW S, NEW s \in Seq(S), NEW t \in Seq(S) \ {<<>>}, NEW from \in 0 .. Len(s)
  PROVE  LET found == Find(s, t, from)
         IN  \/ /\ found = npos
                /\ \A i \in from .. Len(s) : ~OccursAt(s, t, i)
             \/ /\ found \in from .. Len(s) /\ found # npos
                /\ OccursAt(s, t, found) /\ found + Len(t) <= Len(s)
                /\ \A i \in from .. found - 1 : ~OccursAt(s, t, i)
<1> DEFINE n == Len(s)
           T == {i \in from .. n : OccursAt(s, t, i)}
           First(i) == OccursAt(s, t, i) /\ \A j \in from .. i - 1 : ~OccursAt(s, t, j)
<1>1. n \in Nat /\ from \in Nat
  BY LenProperties
<1>2. CASE T = {}
  <2>1. ~\E i \in from .. Len(s) : OccursAt(s, t, i)
    BY <1>2
  <2> QED  BY <2>1 DEF Find
<1>3. CASE T # {}
  <2>1. T \subseteq Nat
    BY <1>1
  <2>2. PICK i \in T : \A j \in T : i <= j
    <3> HIDE DEF T
    <3> QED  BY <1>3, <2>1, LeastElement
  <2>3. i \in from .. n /\ OccursAt(s, t, i)
    BY <2>2
  <2>4. ASSUME NEW j \in from .. i - 1
        PROVE  ~OccursAt(s, t, j)
    <3>1. j \in from .. n /\ ~(i <= j)
      BY <1>1, <2>3
    <3> QED  BY <2>2, <3>1
  <2>5. First(i)
    BY <2>3, <2>4
  <2> DEFINE found == CHOOSE k \in from .. n : First(k)
  <2>6. Find(s, t, from) = found
    BY <2>3 DEF Find
  <2> HIDE DEF First
  <2>7. found \in from .. n /\ First(found)
    BY <2>3, <2>5
  <2> HIDE DEF found
  <2>8. /\ OccursAt(s, t, found) /\ \A j \in from .. found - 1 : ~OccursAt(s, t, j)
    BY <2>7 DEF First
  <2>9. found + Len(t) <= Len(s)
    BY <2>8 DEF OccursAt
  <2>10. found # npos
    BY <1>1, <2>7 DEF npos
  <2> QED  BY <2>6, <2>7, <2>8, <2>9, <2>10
<1> QED  BY <1>2, <1>3

\* Where the loops go on from each offset: behind the next token, or nowhere.
Behind(s, t) ==
  [i \in 0 .. Len(s) |-> IF Find(s, t, i) = npos THEN i ELSE Find(s, t, i) + Len(t)]

LEMMA BehindIs ==
  ASSUME NEW S, NEW s \in Seq(S), NEW t \in Seq(S) \ {<<>>}
  PROVE  /\ Len(s) \in Nat /\ Len(t) \in Nat \ {0}
         /\ Behind(s, t) \in [0 .. Len(s) -> 0 .. Len(s)]
         /\ \A i \in 0 .. Len(s) :
              /\ Find(s, t, i) = npos => Behind(s, t)[i] = i /\ ~(Behind(s, t)[i] > i)
              /\ Find(s, t, i) # npos => Behind(s, t)[i] = Find(s, t, i) + Len(t) /\ Behind(s, t)[i] > i
<1> DEFINE n == Len(s)
           L == Len(t)
<1>1. n \in Nat /\ L \in Nat /\ L # 0
  BY LenProperties, EmptySeq
<1>2. ASSUME NEW i \in 0 .. n, Find(s, t, i) # npos
      PROVE  Find(s, t, i) + L \in 0 .. n /\ Find(s, t, i) + L > i
  <2>1. Find(s, t, i) \in i .. n /\ Find(s, t, i) + L <= n
    BY <1>2, FindIs
  <2> QED  BY <1>1, <2>1
<1> HIDE DEF n, L
<1>3. Behind(s, t) = [i \in 0 .. n |-> IF Find(s, t, i) = npos THEN i ELSE Find(s, t, i) + L]
  BY DEF Behind, n, L
<1>4. ASSUME NEW i \in 0 .. n
      PROVE  ~(i > i)
  BY <1>1
<1> QED  BY <1>1, <1>2, <1>3, <1>4 DEF n, L

\* The pieces at each offset: up to the next token, or to the end.
PieceAt(s, t) == [i \in 0 .. Len(s) |-> Substr(s, i, Find(s, t, i))]

PiecesAt(s, t) == [i \in 0 .. Len(s) |-> IfNotEmpty(Substr(s, i, Find(s, t, i)))]

LEMMA PieceAtIs ==
  ASSUME NEW S, NEW s \in Seq(S), NEW t \in Seq(S) \ {<<>>}
  PROVE  PieceAt(s, t) \in [0 .. Len(s) -> Seq(S)] /\ PiecesAt(s, t) \in [0 .. Len(s) -> Seq(Seq(S))]
<1>1. ASSUME NEW i \in 0 .. Len(s)
      PROVE  Substr(s, i, Find(s, t, i)) \in Seq(S)
  <2> DEFINE to == IF Find(s, t, i) = npos THEN Len(s) ELSE Find(s, t, i)
  <2>1. Len(s) \in Nat /\ i + 1 \in Nat /\ i + 1 >= 1
    BY LenProperties
  <2>2. to \in 0 .. Len(s)
    <3>1. CASE Find(s, t, i) = npos
      BY <2>1, <3>1
    <3>2. CASE Find(s, t, i) # npos
      <4>1. Find(s, t, i) \in i .. Len(s)
        BY <3>2, FindIs
      <4> QED  BY <2>1, <3>2, <4>1
    <3> QED  BY <3>1, <3>2
  <2> HIDE DEF to
  <2>3. \A j \in i + 1 .. to : s[j] \in S
    <3> SUFFICES ASSUME NEW j \in i + 1 .. to
                 PROVE  s[j] \in S
      OBVIOUS
    <3>1. j \in 1 .. Len(s)
      BY <2>1, <2>2
    <3> QED  BY <3>1, ElementOfSeq
  <2>4. SubSeq(s, i + 1, to) \in Seq(S)
    BY <2>1, <2>2, <2>3, SubSeqProperties
  <2> QED  BY <2>4 DEF Substr, to
<1>2. ASSUME NEW p \in Seq(S)
      PROVE  IfNotEmpty(p) \in Seq(Seq(S))
  BY DEF IfNotEmpty
<1>3. \A i \in 0 .. Len(s) : IfNotEmpty(Substr(s, i, Find(s, t, i))) \in Seq(Seq(S))
  BY <1>1, <1>2
<1> QED  BY <1>1, <1>3 DEF PieceAt, PiecesAt

\* split() goes on behind each token, with the pieces that are not empty.
LEMMA SplitUnfolds ==
  ASSUME NEW S, NEW s \in Seq(S), NEW t \in Seq(S) \ {<<>>}
  PROVE  \E f : /\ Split(s, t) = f[0]
                /\ IsLoop(Seq(S), f, Len(s), PiecesAt(s, t), PiecesAt(s, t), Behind(s, t))
<1> DEFINE n == Len(s)
           Body(f, i) == IF Find(s, t, i) = npos THEN IfNotEmpty(Substr(s, i, Find(s, t, i)))
                         ELSE IfNotEmpty(Substr(s, i, Find(s, t, i))) \o f[Find(s, t, i) + Len(t)]
           Unfolds(f) == f = [i \in 0 .. n |-> Body(f, i)]
           From == CHOOSE f : Unfolds(f)
           pieces == PiecesAt(s, t)
           next == Behind(s, t)
<1>1. n \in Nat /\ next \in [0 .. n -> 0 .. n] /\ pieces \in [0 .. n -> Seq(Seq(S))]
  BY BehindIs, PieceAtIs
<1>2. \A i \in 0 .. n : pieces[i] = IfNotEmpty(Substr(s, i, Find(s, t, i)))
  BY DEF PiecesAt
<1>3. Split(s, t) = IF s = <<>> THEN <<>> ELSE From[0]
  BY DEF Split
<1> HIDE DEF n, pieces, next
<1>4. ASSUME NEW f, NEW i \in 0 .. n
      PROVE  Body(f, i) = IF next[i] > i THEN pieces[i] \o f[next[i]] ELSE pieces[i]
  <2>1. CASE Find(s, t, i) = npos
    <3>1. ~(next[i] > i)
      BY <2>1, BehindIs DEF n, next
    <3> QED  BY <1>2, <2>1, <3>1
  <2>2. CASE Find(s, t, i) # npos
    <3>1. next[i] = Find(s, t, i) + Len(t) /\ next[i] > i
      BY <2>2, BehindIs DEF n, next
    <3> QED  BY <1>2, <2>2, <3>1
  <2> QED  BY <2>1, <2>2
<1> HIDE DEF Body
<1>5. PICK g \in [0 .. n -> Seq(Seq(S))] : IsUnfolded(g, n, pieces, pieces, next)
  BY <1>1, ConcatRecursion
<1>6. \A i \in 0 .. n : g[i] = Body(g, i)
  BY <1>4, <1>5 DEF IsUnfolded
<1>7. Unfolds(g)
  BY <1>6
<1>8. Unfolds(From)
  <2> HIDE DEF Unfolds
  <2> QED  BY <1>7
<1> HIDE DEF From
<1>9. \A i \in 0 .. n : From[i] = Body(From, i)
  BY <1>8
<1>10. From = [i \in 0 .. n |-> From[i]]
  BY <1>8
<1>11. IsUnfolded(From, n, pieces, pieces, next)
  BY <1>4, <1>9 DEF IsUnfolded
<1>12. \A i \in 0 .. n : From[i] \in Seq(Seq(S))
  BY <1>1, <1>11, UnfoldedType
<1>13. From \in [0 .. n -> Seq(Seq(S))]
  BY <1>10, <1>12
<1>14. Split(s, t) = From[0]
  <2>1. CASE s = <<>>
    <3>1. n = 0 /\ 0 \in 0 .. n
      BY <2>1 DEF n
    <3>2. Find(s, t, 0) = npos
      <4> SUFFICES ASSUME Find(s, t, 0) # npos
                   PROVE  FALSE
        OBVIOUS
      <4>1. Find(s, t, 0) \in 0 .. n /\ Find(s, t, 0) + Len(t) <= n
        BY <3>1, FindIs DEF n
      <4>2. Len(t) \in Nat /\ Len(t) # 0
        BY BehindIs
      <4> QED  BY <3>1, <4>1, <4>2
    <3>3. Substr(s, 0, Find(s, t, 0)) = <<>>
      <4>1. Substr(s, 0, Find(s, t, 0)) = SubSeq(s, 1, 0)
        BY <3>1, <3>2 DEF Substr, n
      <4> QED  BY <2>1, <4>1
    <3>4. From[0] = <<>>
      BY <1>9, <3>1, <3>2, <3>3 DEF Body, IfNotEmpty
    <3> QED  BY <1>3, <2>1, <3>4
  <2> QED  BY <1>3, <2>1
<1>15. IsLoop(Seq(S), From, n, pieces, pieces, next)
  BY <1>1, <1>11, <1>13 DEF IsLoop
<1> QED  BY <1>14, <1>15 DEF n, pieces, next

\* replace2() does with all the pieces, and with the target behind all but the last.
LEMMA Replace2Unfolds ==
  ASSUME NEW S, NEW s \in Seq(S), NEW t \in Seq(S) \ {<<>>}, NEW u \in Seq(S)
  PROVE  LET with == [i \in 0 .. Len(s) |-> PieceAt(s, t)[i] \o u]
         IN  \E f : /\ Replace2(s, t, u) = f[0]
                    /\ IsLoop(S, f, Len(s), PieceAt(s, t), with, Behind(s, t))
<1> DEFINE n == Len(s)
           Body(f, i) == IF Find(s, t, i) = npos THEN Substr(s, i, Find(s, t, i))
                         ELSE Substr(s, i, Find(s, t, i)) \o u \o f[Find(s, t, i) + Len(t)]
           Unfolds(f) == f = [i \in 0 .. n |-> Body(f, i)]
           From == CHOOSE f : Unfolds(f)
           piece == PieceAt(s, t)
           with == [i \in 0 .. Len(s) |-> PieceAt(s, t)[i] \o u]
           next == Behind(s, t)
<1>1. n \in Nat /\ next \in [0 .. n -> 0 .. n] /\ piece \in [0 .. n -> Seq(S)]
  BY BehindIs, PieceAtIs
<1>2. \A i \in 0 .. n : piece[i] = Substr(s, i, Find(s, t, i))
  BY DEF PieceAt
<1>3. Replace2(s, t, u) = From[0]
  BY DEF Replace2
<1>4. \A i \in 0 .. n : with[i] = piece[i] \o u
  OBVIOUS
<1>5. with \in [0 .. n -> Seq(S)]
  <2>1. \A a \in Seq(S) : a \o u \in Seq(S)
    BY ConcatProperties
  <2>2. \A i \in 0 .. n : piece[i] \in Seq(S)
    BY <1>1
  <2>3. \A i \in 0 .. n : with[i] \in Seq(S)
    <3> HIDE DEF n, piece, with
    <3> QED  BY <1>4, <2>1, <2>2
  <2>4. with = [i \in 0 .. n |-> with[i]]
    OBVIOUS
  <2> HIDE DEF n, with
  <2> QED  BY <2>3, <2>4
<1> HIDE DEF n, piece, with, next
<1>6. ASSUME NEW f, NEW i \in 0 .. n
      PROVE  Body(f, i) = IF next[i] > i THEN with[i] \o f[next[i]] ELSE piece[i]
  <2>1. CASE Find(s, t, i) = npos
    <3>1. ~(next[i] > i)
      BY <2>1, BehindIs DEF n, next
    <3> QED  BY <1>2, <2>1, <3>1
  <2>2. CASE Find(s, t, i) # npos
    <3>1. next[i] = Find(s, t, i) + Len(t) /\ next[i] > i
      BY <2>2, BehindIs DEF n, next
    <3>2. Body(f, i) = piece[i] \o u \o f[next[i]]
      BY <1>2, <2>2, <3>1
    <3> HIDE DEF Body
    <3> QED  BY <1>4, <3>1, <3>2
  <2> QED  BY <2>1, <2>2
<1> HIDE DEF Body
<1>7. PICK g \in [0 .. n -> Seq(S)] : IsUnfolded(g, n, piece, with, next)
  BY <1>1, <1>5, ConcatRecursion
<1>8. \A i \in 0 .. n : g[i] = Body(g, i)
  BY <1>6, <1>7 DEF IsUnfolded
<1>9. Unfolds(g)
  BY <1>8
<1>10. Unfolds(From)
  <2> HIDE DEF Unfolds
  <2> QED  BY <1>9
<1> HIDE DEF From
<1>11. \A i \in 0 .. n : From[i] = Body(From, i)
  BY <1>10
<1>12. From = [i \in 0 .. n |-> From[i]]
  BY <1>10
<1>13. IsUnfolded(From, n, piece, with, next)
  BY <1>6, <1>11 DEF IsUnfolded
<1>14. \A i \in 0 .. n : From[i] \in Seq(S)
  BY <1>1, <1>5, <1>13, UnfoldedType
<1>15. From \in [0 .. n -> Seq(S)]
  BY <1>12, <1>14
<1>16. IsLoop(S, From, n, piece, with, next)
  BY <1>1, <1>5, <1>13, <1>15 DEF IsLoop
<1> QED  BY <1>3, <1>16 DEF n, piece, with, next

\* Cuts are the occurrences that no cut before them overlaps.
AreCuts(C, Occ, L) == \A i \in Occ : i \in C <=> ~\E j \in C : j < i /\ i < j + L

\* There is one set of cuts only.
LEMMA CutsAreUnique ==
  ASSUME NEW Occ, Occ \subseteq Nat, NEW L \in Nat,
         NEW X \in SUBSET Occ, NEW Y \in SUBSET Occ, AreCuts(X, Occ, L), AreCuts(Y, Occ, L)
  PROVE  X = Y
<1> DEFINE T == {i \in Occ : ~(i \in X <=> i \in Y)}
<1>1. SUFFICES ASSUME T # {}
               PROVE  FALSE
  OBVIOUS
<1>2. T \subseteq Nat
  OBVIOUS
<1>3. PICK i \in T : \A j \in T : i <= j
  <2> HIDE DEF T
  <2> QED  BY <1>1, <1>2, LeastElement
<1>4. i \in Occ /\ i \in Nat /\ ~(i \in X <=> i \in Y)
  BY <1>3
<1>5. \A j \in Occ : j < i => (j \in X <=> j \in Y)
  <2> SUFFICES ASSUME NEW j \in Occ, j < i
               PROVE  j \notin T
    OBVIOUS
  <2>1. j \in Nat /\ ~(i <= j)
    BY <1>4
  <2> HIDE DEF T
  <2> QED  BY <1>3, <2>1
<1>6. (\E j \in X : j < i /\ i < j + L) <=> (\E j \in Y : j < i /\ i < j + L)
  BY <1>5
<1>7. i \in X <=> i \in Y
  BY <1>4, <1>6 DEF AreCuts
<1> QED  BY <1>4, <1>7

\* A scan starts at 0 and goes on L behind each occurrence; c has the one it finds from
\* each start but the last.
IsScan(Occ, n, L, m, st, c) ==
  /\ st[1] = 0
  /\ \A k \in 1 .. m - 1 : /\ c[k] \in Occ /\ st[k] <= c[k] /\ st[k + 1] = c[k] + L
                           /\ \A i \in st[k] .. c[k] - 1 : i \notin Occ
  /\ \A i \in st[m] .. n : i \notin Occ

\* What a scan finds are the cuts: c has the first one behind each start.
ScanFinds(C, Occ, L, m, st, c) ==
  /\ C \subseteq Occ /\ AreCuts(C, Occ, L)
  /\ {0} \cup {i + L : i \in C} = {st[k] : k \in 1 .. m}
  /\ \A k \in 1 .. m - 1 : c[k] \in C /\ st[k] <= c[k] /\ \A i \in C : i >= st[k] => c[k] <= i
  /\ \A i \in C : ~(i >= st[m])

LEMMA ScanFindsCuts ==
  ASSUME NEW n \in Nat, NEW L \in Nat \ {0}, NEW Occ \in SUBSET (0 .. n), NEW m \in Nat \ {0},
         NEW st \in [1 .. m -> 0 .. n], NEW c \in [1 .. m - 1 -> 0 .. n],
         IsScan(Occ, n, L, m, st, c), IsAscending(st, m),
         NEW C, \A i : i \in C <=> \E k \in 1 .. m - 1 : i = c[k]
  PROVE  ScanFinds(C, Occ, L, m, st, c)
<1> DEFINE D == 1 .. m - 1
<1>1. \A k \in D : /\ c[k] \in Occ /\ st[k] <= c[k] /\ st[k + 1] = c[k] + L
                   /\ \A i \in st[k] .. c[k] - 1 : i \notin Occ
  BY DEF IsScan
<1>2. /\ m \in 1 .. m /\ 1 \in 1 .. m
      /\ \A k \in D : k \in 1 .. m /\ k + 1 \in 1 .. m /\ k < m /\ k < k + 1
  OBVIOUS
<1>3. \A i \in C : \E k \in D : i = c[k]
  OBVIOUS
<1>4. \A k \in D : c[k] \in C
  OBVIOUS
<1>5. /\ \A k \in 1 .. m : st[k] \in Nat
      /\ \A k \in D : c[k] \in Nat
  OBVIOUS
<1> HIDE DEF D
<1>6. \A k, l \in 1 .. m : k <= l => st[k] <= st[l]
  <2> SUFFICES ASSUME NEW k \in 1 .. m, NEW l \in 1 .. m, k <= l
               PROVE  st[k] <= st[l]
    OBVIOUS
  <2>1. CASE k = l
    BY <1>5, <2>1
  <2>2. CASE k # l
    <3>1. k < l
      BY <2>2
    <3>2. st[k] < st[l]
      BY <3>1 DEF IsAscending
    <3> QED  BY <1>5, <3>2
  <2> QED  BY <2>1, <2>2
<1>7. \A k \in D : \A l \in 1 .. m : k < l => c[k] + L <= st[l]
  <2> SUFFICES ASSUME NEW k \in D, NEW l \in 1 .. m, k < l
               PROVE  c[k] + L <= st[l]
    OBVIOUS
  <2>1. k + 1 <= l /\ k + 1 \in 1 .. m
    BY <1>2 DEF D
  <2>2. st[k + 1] <= st[l]
    BY <1>6, <2>1
  <2>3. st[k + 1] = c[k] + L
    BY <1>1
  <2> QED  BY <2>2, <2>3
<1>8. C \subseteq Occ
  <2> SUFFICES ASSUME NEW x \in C
               PROVE  x \in Occ
    OBVIOUS
  <2>1. PICK k \in D : x = c[k]
    BY <1>3
  <2>2. c[k] \in Occ
    BY <1>1
  <2> QED  BY <2>1, <2>2
<1>9. ASSUME NEW k \in D, NEW l \in D
      PROVE  l < k => c[l] + L <= st[k]
  BY <1>2, <1>7
<1>10. ASSUME NEW i \in C
       PROVE  ~\E j \in C : j < i /\ i < j + L
  <2> SUFFICES ASSUME NEW j \in C, j < i, i < j + L
               PROVE  FALSE
    OBVIOUS
  <2>1. PICK k \in D : i = c[k]
    BY <1>3
  <2>2. PICK l \in D : j = c[l]
    BY <1>3
  <2>3. c[k] \in Nat /\ c[l] \in Nat /\ st[k] \in Nat /\ st[l] \in Nat /\ k \in Nat /\ l \in Nat
    <3>1. k \in Nat /\ l \in Nat
      BY DEF D
    <3> QED  BY <1>2, <1>5, <3>1
  <2>4. st[k] <= c[k] /\ st[l] <= c[l]
    BY <1>1
  <2>5. CASE l < k
    <3>1. c[l] + L <= st[k]
      BY <1>9, <2>5
    <3>2. \A a, b, x \in Nat : ~(b + L <= x /\ x <= a /\ a < b + L)
      OBVIOUS
    <3>3. c[k] < c[l] + L
      BY <2>1, <2>2
    <3> QED  BY <2>3, <2>4, <3>1, <3>2, <3>3
  <2>6. CASE k < l
    <3>1. c[k] + L <= st[l]
      BY <1>9, <2>6
    <3>2. \A a, b, x \in Nat : ~(a + L <= x /\ x <= b /\ b < a)
      OBVIOUS
    <3>3. c[l] < c[k]
      BY <2>1, <2>2
    <3> QED  BY <2>3, <2>4, <3>1, <3>2, <3>3
  <2>7. CASE k = l
    BY <2>1, <2>2, <2>3, <2>7
  <2> QED  BY <2>3, <2>5, <2>6, <2>7
<1>11. ASSUME NEW i \in Occ, i \notin C
       PROVE  \E j \in C : j < i /\ i < j + L
  <2> DEFINE T == {k \in 1 .. m : k = m \/ i < st[k + 1]}
  <2>1. T \subseteq Nat /\ m \in T /\ i \in 0 .. n
    BY <1>2
  <2>2. PICK k \in T : \A l \in T : k <= l
    <3> HIDE DEF T
    <3>1. T # {}
      BY <2>1
    <3> QED  BY <2>1, <3>1, LeastElement
  <2>3. k \in 1 .. m /\ (k = m \/ i < st[k + 1])
    BY <2>2
  <2>4. st[k] <= i
    <3>1. CASE k = 1
      BY <2>1, <3>1 DEF IsScan
    <3>2. CASE k # 1
      <4> DEFINE l == k - 1
      <4>1. l \in 1 .. m /\ l # m /\ l + 1 = k /\ ~(k <= l)
        BY <2>3, <3>2
      <4> HIDE DEF l
      <4>2. l \notin T
        <5> HIDE DEF T
        <5> QED  BY <2>2, <4>1
      <4>3. ~(i < st[k])
        BY <4>1, <4>2
      <4> QED  BY <1>5, <2>1, <2>3, <4>3
    <3> QED  BY <3>1, <3>2
  <2> HIDE DEF T
  <2>5. k # m
    <3>1. \A j \in st[m] .. n : j \notin Occ
      BY DEF IsScan
    <3>2. k = m => i \in st[m] .. n
      BY <1>2, <1>5, <2>1, <2>4
    <3> QED  BY <3>1, <3>2
  <2>6. k \in D
    BY <2>3, <2>5 DEF D
  <2>7. i \notin st[k] .. c[k] - 1
    BY <1>1, <2>6
  <2>8. i < c[k] + L
    BY <1>1, <2>3, <2>5, <2>6
  <2>9. i # c[k]
    BY <1>4, <1>11, <2>6
  <2>10. c[k] < i
    <3>1. st[k] \in Nat /\ c[k] \in Nat /\ i \in Nat
      BY <1>2, <1>5, <2>1, <2>3, <2>6
    <3>2. \A a, b, x \in Nat : a <= x /\ x \notin a .. b - 1 /\ x # b => b < x
      OBVIOUS
    <3> HIDE DEF D
    <3> QED  BY <2>4, <2>7, <2>9, <3>1, <3>2
  <2> QED  BY <1>4, <2>6, <2>8, <2>10
<1>12. AreCuts(C, Occ, L)
  BY <1>10, <1>11 DEF AreCuts
<1>13. {0} \cup {i + L : i \in C} = {st[k] : k \in 1 .. m}
  <2>1. ASSUME NEW x \in {0} \cup {i + L : i \in C}
        PROVE  \E k \in 1 .. m : x = st[k]
    <3>1. CASE x = 0
      BY <1>2, <3>1 DEF IsScan
    <3>2. CASE x # 0
      <4>1. PICK i \in C : x = i + L
        BY <3>2
      <4>2. PICK k \in D : i = c[k]
        BY <1>3
      <4> QED  BY <1>1, <1>2, <4>1, <4>2
    <3> QED  BY <3>1, <3>2
  <2>2. ASSUME NEW k \in 1 .. m
        PROVE  st[k] \in {0} \cup {i + L : i \in C}
    <3>1. CASE k = 1
      BY <3>1 DEF IsScan
    <3>2. CASE k # 1
      <4> DEFINE l == k - 1
      <4>1. l \in D /\ l + 1 = k
        BY <3>2 DEF D
      <4> HIDE DEF l, D
      <4>2. st[k] = c[l] + L
        BY <1>1, <4>1
      <4>3. c[l] \in C
        BY <1>4, <4>1
      <4> QED  BY <4>2, <4>3
    <3> QED  BY <3>1, <3>2
  <2> DEFINE X == {0} \cup {i + L : i \in C}
             Y == {st[k] : k \in 1 .. m}
  <2>3. X \subseteq Y
    BY <2>1
  <2>4. Y \subseteq X
    <3> HIDE DEF X
    <3>1. \A k \in 1 .. m : st[k] \in X
      BY <2>2 DEF X
    <3> QED  BY <3>1
  <2> HIDE DEF X, Y
  <2>5. X = Y
    BY <2>3, <2>4
  <2> QED  BY <2>5 DEF X, Y
<1>14. ASSUME NEW k \in 1 .. m, NEW i \in C, i >= st[k]
       PROVE  k \in D /\ c[k] <= i
  <2>1. PICK l \in D : i = c[l]
    BY <1>3
  <2>2. c[l] \in Nat /\ st[k] \in Nat /\ st[l] \in Nat /\ k \in Nat /\ l \in Nat
    BY <1>2, <1>5, <2>1 DEF D
  <2>3. ~(l < k)
    <3>1. l < k => c[l] + L <= st[k]
      BY <1>7
    <3> HIDE DEF D
    <3>2. c[l] >= st[k]
      BY <1>14, <2>1
    <3>3. \A a, x \in Nat : a >= x => ~(a + L <= x)
      OBVIOUS
    <3> QED  BY <2>2, <3>1, <3>2, <3>3
  <2>4. k \in D
    BY <2>2, <2>3 DEF D
  <2>5. CASE k = l
    BY <2>1, <2>2, <2>5, <2>4
  <2>6. CASE k < l
    <3>1. c[k] + L <= st[l] /\ st[l] <= c[l] /\ c[k] \in Nat
      BY <1>1, <1>2, <1>5, <1>7, <2>4, <2>6
    <3>2. \A a, b, x \in Nat : a + L <= x /\ x <= b => a <= b
      OBVIOUS
    <3>3. c[k] <= c[l]
      BY <2>2, <3>1, <3>2
    <3> QED  BY <2>1, <2>4, <3>3
  <2> QED  BY <2>2, <2>3, <2>5, <2>6
<1>15. m \notin D
  BY DEF D
<1> QED  BY <1>1, <1>2, <1>4, <1>8, <1>12, <1>13, <1>14, <1>15 DEF D, ScanFinds

NumbersOf(st, m) == {st[k] : k \in 1 .. m}

\* The numbers of an ascending sequence in ascending order are that sequence.
LEMMA AscendingIs ==
  ASSUME NEW m \in Nat, NEW st \in [1 .. m -> Nat], IsAscending(st, m)
  PROVE  Ascending(NumbersOf(st, m)) = st
<1> DEFINE First(k) == {st[j] : j \in 1 .. k}
           S == First(m)
           N == {k \in Nat : k <= m => IsFiniteSet(First(k)) /\ Cardinality(First(k)) = k}
           Below(s) == {r \in S : r < s}
<1>1. 0 \in N
  <2>1. First(0) = {}
    OBVIOUS
  <2> HIDE DEF First
  <2> QED  BY <2>1, FS_EmptySet
<1>2. ASSUME NEW k \in Nat, k \in N
      PROVE  k + 1 \in N
  <2> SUFFICES ASSUME k + 1 <= m
               PROVE  IsFiniteSet(First(k + 1)) /\ Cardinality(First(k + 1)) = k + 1
    <3> HIDE DEF First
    <3> QED  OBVIOUS
  <2>1. k <= m /\ k + 1 \in 1 .. m /\ \A j \in 1 .. k : j \in 1 .. m /\ j < k + 1
    OBVIOUS
  <2>2. First(k + 1) = First(k) \cup {st[k + 1]}
    <3>1. 1 .. k + 1 = (1 .. k) \cup {k + 1}
      OBVIOUS
    <3> QED  BY <3>1
  <2>3. st[k + 1] \notin First(k)
    <3> SUFFICES ASSUME NEW j \in 1 .. k
                 PROVE  st[j] # st[k + 1]
      OBVIOUS
    <3>1. st[j] < st[k + 1] /\ st[j] \in Nat /\ st[k + 1] \in Nat
      BY <2>1 DEF IsAscending
    <3> QED  BY <3>1
  <2> HIDE DEF First
  <2>4. IsFiniteSet(First(k)) /\ Cardinality(First(k)) = k
    BY <1>2, <2>1
  <2> DEFINE x == st[k + 1]
             T == First(k)
  <2> HIDE DEF x, T, N, S
  <2>5. IsFiniteSet(T) /\ x \notin T
    BY <2>3, <2>4 DEF x, T
  <2>6. IsFiniteSet(T \cup {x}) /\ Cardinality(T \cup {x}) = Cardinality(T) + 1
    BY <2>5, FS_AddElement
  <2> QED  BY <2>2, <2>4, <2>6 DEF x, T
<1> HIDE DEF N
<1>3. \A k \in Nat : k \in N
  BY <1>1, <1>2, NatSetInduction
<1>4. \A k \in 0 .. m : Cardinality(First(k)) = k
  <2> SUFFICES ASSUME NEW k \in 0 .. m
               PROVE  Cardinality(First(k)) = k
    OBVIOUS
  <2>1. k \in Nat /\ k <= m
    OBVIOUS
  <2> HIDE DEF First
  <2> QED  BY <1>3, <2>1 DEF N
<1>5. ASSUME NEW k \in 1 .. m
      PROVE  Cardinality(Below(st[k])) = k - 1
  <2>1. ASSUME NEW j \in 1 .. m
        PROVE  st[j] < st[k] <=> j \in 1 .. k - 1
    <3>1. st[j] \in Nat /\ st[k] \in Nat
      OBVIOUS
    <3>2. CASE j < k
      BY <3>2 DEF IsAscending
    <3>3. CASE j = k
      BY <3>1, <3>3
    <3>4. CASE k < j
      <4>1. st[k] < st[j]
        BY <3>4 DEF IsAscending
      <4> QED  BY <3>1, <3>4, <4>1
    <3> QED  BY <3>2, <3>3, <3>4
  <2>2. 1 .. k - 1 \subseteq 1 .. m /\ k - 1 \in 0 .. m
    OBVIOUS
  <2>3. Below(st[k]) = First(k - 1)
    BY <2>1, <2>2
  <2> HIDE DEF First, Below
  <2> QED  BY <1>4, <2>2, <2>3
<1>6. Cardinality(S) = m
  <2>1. m \in 0 .. m
    OBVIOUS
  <2> HIDE DEF First
  <2> QED  BY <1>4, <2>1
<1>7. ASSUME NEW k \in 1 .. m
      PROVE  (CHOOSE s \in S : Cardinality(Below(s)) = k - 1) = st[k]
  <2>1. st[k] \in S /\ Cardinality(Below(st[k])) = k - 1
    BY <1>5
  <2>2. ASSUME NEW s \in S, Cardinality(Below(s)) = k - 1
        PROVE  s = st[k]
    <3>1. PICK j \in 1 .. m : s = st[j]
      OBVIOUS
    <3> HIDE DEF Below, S
    <3>2. j - 1 = k - 1
      BY <1>5, <2>2, <3>1
    <3>3. j = k
      BY <3>2
    <3> QED  BY <3>1, <3>3
  <2> HIDE DEF Below, S
  <2> QED  BY <2>1, <2>2
<1>8. Ascending(S) = [k \in 1 .. m |-> CHOOSE s \in S : Cardinality(Below(s)) = k - 1]
  <2> HIDE DEF First
  <2> QED  BY <1>6 DEF Ascending
<1> HIDE DEF Below, First, S
<1>9. Ascending(S) = [k \in 1 .. m |-> st[k]]
  BY <1>7, <1>8
<1> QED  BY <1>9 DEF S, First, NumbersOf

\* The strings are sequences of characters, and the token is not empty.
StringTypes ==
  /\ source \in Seq(Character) /\ target \in Seq(Character)
  /\ token \in Seq(Character) /\ token # <<>>

\* What is between the cuts are the pieces that the loops find on their walk through
\* the source, and the walk is that of split() and of replace2().
LEMMA GapsAreOnTheWalk ==
  ASSUME StringTypes, NEW m \in Nat \ {0}, NEW st \in [1 .. m -> 0 .. Len(source)],
         IsWalk(0, st, m, Behind(source, token))
  PROVE  Gaps = [k \in 1 .. m |-> PieceAt(source, token)[st[k]]]
<1> DEFINE n == Len(source)
           L == Len(token)
           Occ == {i \in 0 .. n : OccursAt(source, token, i)}
           next == Behind(source, token)
           At(i) == Find(source, token, i)
           c == [k \in 1 .. m - 1 |-> At(st[k])]
           C == {c[k] : k \in 1 .. m - 1}
<1>1. source \in Seq(Character) /\ token \in Seq(Character) \ {<<>>}
  BY DEF StringTypes
<1>2. /\ n \in Nat /\ L \in Nat \ {0} /\ next \in [0 .. n -> 0 .. n]
      /\ \A i \in 0 .. n : /\ At(i) = npos => next[i] = i /\ ~(next[i] > i)
                           /\ At(i) # npos => next[i] = At(i) + L /\ next[i] > i
  BY <1>1, BehindIs
<1>3. ASSUME NEW i \in 0 .. n
      PROVE  \/ At(i) = npos /\ \A j \in i .. n : j \notin Occ
             \/ /\ At(i) \in i .. n /\ At(i) # npos /\ At(i) \in Occ
                /\ \A j \in i .. At(i) - 1 : j \notin Occ
  <2>1. \/ At(i) = npos /\ \A j \in i .. n : ~OccursAt(source, token, j)
        \/ /\ At(i) \in i .. n /\ At(i) # npos
           /\ OccursAt(source, token, At(i)) /\ At(i) + L <= n
           /\ \A j \in i .. At(i) - 1 : ~OccursAt(source, token, j)
    BY <1>1, FindIs
  <2> HIDE DEF At
  <2> QED  BY <1>2, <2>1
<1>4. /\ st[1] = 0 /\ ~(next[st[m]] > st[m])
      /\ \A k \in 1 .. m - 1 : next[st[k]] > st[k] /\ st[k + 1] = next[st[k]]
  BY DEF IsWalk
<1>5. IsAscending(st, m)
  BY <1>2, WalkAscends
<1>6. Occ \in SUBSET (0 .. n)
  OBVIOUS
<1>7. \A k \in 1 .. m - 1 : k \in 1 .. m /\ c[k] = At(st[k])
  OBVIOUS
<1>8. c = [k \in 1 .. m - 1 |-> c[k]]
  OBVIOUS
<1> HIDE DEF n, L, Occ, next, At, c
<1>9. \A k \in 1 .. m : st[k] \in 0 .. n
  BY DEF n
<1>10. ASSUME NEW k \in 1 .. m - 1
       PROVE  /\ At(st[k]) # npos /\ c[k] \in 0 .. n /\ c[k] \in Occ /\ st[k] <= c[k]
              /\ st[k + 1] = c[k] + L /\ \A j \in st[k] .. c[k] - 1 : j \notin Occ
  <2>1. st[k] \in 0 .. n /\ next[st[k]] > st[k] /\ st[k + 1] = next[st[k]] /\ c[k] = At(st[k])
    BY <1>4, <1>7, <1>9
  <2>2. At(st[k]) # npos /\ next[st[k]] = At(st[k]) + L
    BY <1>2, <2>1
  <2>3. At(st[k]) \in st[k] .. n /\ At(st[k]) \in Occ /\ \A j \in st[k] .. At(st[k]) - 1 : j \notin Occ
    BY <1>3, <2>1, <2>2
  <2>4. c[k] \in st[k] .. n
    BY <2>1, <2>3
  <2>5. c[k] \in 0 .. n /\ st[k] <= c[k]
    BY <1>2, <2>1, <2>4
  <2> QED  BY <2>1, <2>2, <2>3, <2>5
<1>11. At(st[m]) = npos /\ \A j \in st[m] .. n : j \notin Occ
  <2>1. st[m] \in 0 .. n
    BY <1>9
  <2>2. At(st[m]) = npos
    BY <1>2, <1>4, <2>1
  <2> QED  BY <1>3, <2>1, <2>2
<1>12. c \in [1 .. m - 1 -> 0 .. n]
  BY <1>8, <1>10
<1>13. IsScan(Occ, n, L, m, st, c)
  BY <1>4, <1>10, <1>11 DEF IsScan
<1>14. st \in [1 .. m -> 0 .. n]
  BY DEF n
<1>15. /\ C \subseteq Occ /\ AreCuts(C, Occ, L)
       /\ {0} \cup {i + L : i \in C} = {st[k] : k \in 1 .. m}
       /\ \A k \in 1 .. m - 1 : c[k] \in C /\ st[k] <= c[k] /\ \A i \in C : i >= st[k] => c[k] <= i
       /\ \A i \in C : ~(i >= st[m])
  <2>1. \A i : i \in C <=> \E k \in 1 .. m - 1 : i = c[k]
    OBVIOUS
  <2> HIDE DEF C
  <2>2. ScanFinds(C, Occ, L, m, st, c)
    BY <1>2, <1>5, <1>6, <1>12, <1>13, <1>14, <2>1, ScanFindsCuts
  <2> QED  BY <2>2 DEF ScanFinds
<1> HIDE DEF C
<1>16. Cuts = C
  <2>1. Cuts = CHOOSE X \in SUBSET Occ : AreCuts(X, Occ, L)
    BY DEF Cuts, AreCuts, Occ, n, L
  <2> DEFINE cuts == CHOOSE X \in SUBSET Occ : AreCuts(X, Occ, L)
  <2>2. cuts \in SUBSET Occ /\ AreCuts(cuts, Occ, L)
    BY <1>15
  <2> HIDE DEF cuts
  <2>3. Occ \subseteq Nat /\ L \in Nat
    BY <1>2, <1>6
  <2>4. cuts = C
    BY <1>15, <2>2, <2>3, CutsAreUnique
  <2> QED  BY <2>1, <2>4 DEF cuts
<1> DEFINE starts == Ascending({0} \cup {i + L : i \in C})
           GapEnd(s) == Min({i \in C : i >= s} \cup {n})
<1>17. starts = st
  <2> HIDE DEF starts, GapEnd
  <2>1. m \in Nat /\ st \in [1 .. m -> Nat]
    <3>1. \A k \in 1 .. m : st[k] \in Nat
      BY <1>2, <1>14, SMTT(30)
    <3>2. st = [k \in 1 .. m |-> st[k]]
      BY <1>14
    <3> QED  BY <3>1, <3>2
  <2>2. Ascending(NumbersOf(st, m)) = st
    BY <1>5, <2>1, AscendingIs
  <2>3. starts = Ascending(NumbersOf(st, m))
    BY <1>15 DEF starts, NumbersOf
  <2> QED  BY <2>2, <2>3
<1>18. Gaps = [k \in DOMAIN starts |-> SubSeq(source, starts[k] + 1, GapEnd(starts[k]))]
  BY <1>16 DEF Gaps, n, L
<1> HIDE DEF starts
<1>19. \A i \in C : i \in 0 .. n
  BY <1>6, <1>15
<1>20. ASSUME NEW k \in 1 .. m
       PROVE  GapEnd(st[k]) = IF At(st[k]) = npos THEN n ELSE At(st[k])
  <2> DEFINE S == {i \in C : i >= st[k]} \cup {n}
  <2>1. S \subseteq Nat
    BY <1>2, <1>19
  <2>2. CASE k = m
    <3>1. S = {n}
      BY <1>15, <2>2
    <3> HIDE DEF S
    <3>2. n \in S /\ \A y \in S : n <= y
      BY <1>2, <3>1
    <3>3. Min(S) = n
      BY <2>1, <3>2, MinIs
    <3> QED  BY <1>11, <2>2, <3>3 DEF S
  <2>3. CASE k # m
    <3>1. k \in 1 .. m - 1
      BY <2>3
    <3>2. c[k] \in C /\ st[k] <= c[k] /\ c[k] \in 0 .. n /\ \A i \in C : i >= st[k] => c[k] <= i
      BY <1>10, <1>15, <3>1
    <3>3. c[k] >= st[k] /\ c[k] <= n
      <4> HIDE DEF S, GapEnd
      <4>1. st[k] \in 0 .. n
        BY <1>9
      <4>2. st[k] \in Nat
        BY <1>2, <4>1
      <4> QED  BY <1>2, <3>2, <4>2
    <3>4. c[k] \in S /\ \A y \in S : c[k] <= y
      BY <3>2, <3>3
    <3> HIDE DEF S
    <3>5. Min(S) = c[k]
      BY <2>1, <3>4, MinIs
    <3> QED  BY <1>7, <1>10, <3>1, <3>5 DEF S
  <2> QED  BY <2>2, <2>3
<1> HIDE DEF GapEnd
<1>21. ASSUME NEW k \in 1 .. m
       PROVE  SubSeq(source, st[k] + 1, GapEnd(st[k])) = PieceAt(source, token)[st[k]]
  <2>1. st[k] \in 0 .. Len(source)
    OBVIOUS
  <2>2. PieceAt(source, token)[st[k]] = Substr(source, st[k], At(st[k]))
    BY <2>1 DEF PieceAt, At
  <2> QED  BY <1>20, <2>2 DEF Substr, n
<1>22. Gaps = [k \in 1 .. m |-> SubSeq(source, st[k] + 1, GapEnd(st[k]))]
  BY <1>17, <1>18
<1> QED  BY <1>21, <1>22

LEMMA CutsAreTokens == StringTypes => CutsAtTokens
<1> SUFFICES ASSUME StringTypes
             PROVE  CutsAtTokens
  OBVIOUS
<1> DEFINE n == Len(source)
           next == Behind(source, token)
           piece == PieceAt(source, token)
           pieces == PiecesAt(source, token)
           with == [i \in 0 .. Len(source) |-> PieceAt(source, token)[i] \o target]
<1>1. source \in Seq(Character) /\ token \in Seq(Character) \ {<<>>} /\ target \in Seq(Character)
  BY DEF StringTypes
<1>2. n \in Nat /\ next \in [0 .. n -> 0 .. n] /\ 0 \in 0 .. n
  BY <1>1, BehindIs
<1>3. PICK f : Split(source, token) = f[0] /\ IsLoop(Seq(Character), f, n, pieces, pieces, next)
  BY <1>1, SplitUnfolds
<1>4. PICK g : Replace2(source, token, target) = g[0] /\ IsLoop(Character, g, n, piece, with, next)
  BY <1>1, Replace2Unfolds
<1>5. \A i \in 0 .. n : pieces[i] = IfNotEmpty(piece[i]) /\ with[i] = piece[i] \o target
  BY DEF PieceAt, PiecesAt
<1> HIDE DEF n, next, piece, pieces, with
<1>6. PICK m \in Nat \ {0} : \E st \in [1 .. m -> 0 .. n] : IsWalk(0, st, m, next)
  BY <1>2, WalkExists
<1>7. PICK st \in [1 .. m -> 0 .. n] : IsWalk(0, st, m, next)
  BY <1>6
<1>8. \A k \in 1 .. m : st[k] \in 0 .. n
  OBVIOUS
<1>9. Gaps = [k \in 1 .. m |-> piece[st[k]]]
  BY <1>7, GapsAreOnTheWalk DEF n, next, piece
<1>10. /\ DOMAIN Gaps = 1 .. m /\ Len(Gaps) = m
       /\ \A k \in 1 .. m : Gaps[k] = piece[st[k]]
  BY <1>9
<1>11. Split(source, token) = FlattenSeq(PartsOf(st, m, pieces, pieces))
  <2>1. IsLoop(Seq(Character), f, n, pieces, pieces, next)
    BY <1>3
  <2>2. f[0] = FlattenSeq(PartsOf(st, m, pieces, pieces))
    BY <1>7, <2>1, WalkFlattens
  <2> QED  BY <1>3, <2>2
<1>12. Replace2(source, token, target) = FlattenSeq(PartsOf(st, m, piece, with))
  <2>1. IsLoop(Character, g, n, piece, with, next)
    BY <1>4
  <2>2. g[0] = FlattenSeq(PartsOf(st, m, piece, with))
    BY <1>7, <2>1, WalkFlattens
  <2> QED  BY <1>4, <2>2
<1>13. PartsOf(st, m, pieces, pieces) = [k \in DOMAIN Gaps |-> IfNotEmpty(Gaps[k])]
  <2>1. \A k \in 1 .. m : (IF k < m THEN pieces[st[k]] ELSE pieces[st[k]]) = IfNotEmpty(Gaps[k])
    BY <1>5, <1>8, <1>10
  <2> QED  BY <1>10, <2>1 DEF PartsOf
<1>14. PartsOf(st, m, piece, with) =
         [k \in DOMAIN Gaps |-> IF k < Len(Gaps) THEN Gaps[k] \o target ELSE Gaps[k]]
  <2>1. \A k \in 1 .. m : (IF k < m THEN with[st[k]] ELSE piece[st[k]]) =
                            (IF k < Len(Gaps) THEN Gaps[k] \o target ELSE Gaps[k])
    BY <1>5, <1>8, <1>10
  <2> QED  BY <1>10, <2>1 DEF PartsOf
<1> QED  BY <1>11, <1>12, <1>13, <1>14 DEF CutsAtTokens

\* Where the commas and the end are.
CommasOf(v) == {i \in 0 .. Len(v) : i = Len(v) \/ v[i + 1] = Comma}

\* find() of a comma is the first place with one, or npos where the end comes first.
LEMMA CommaIsFound ==
  ASSUME NEW S, Comma \in S, NEW v \in Seq(S), NEW r, IsFirst(r, Len(v), CommasOf(v)),
         NEW i \in 0 .. Len(v)
  PROVE  LET found == Find(v, <<Comma>>, i)
         IN  IF found = npos THEN r[i] = Len(v) ELSE found = r[i] /\ r[i] # Len(v)
<1> DEFINE n == Len(v)
           t == <<Comma>>
           T == CommasOf(v)
           found == Find(v, t, i)
           k == r[i]
<1>1. n \in Nat /\ t \in Seq(S) \ {<<>>} /\ Len(t) = 1
  BY LenProperties
<1>2. ASSUME NEW j \in 0 .. n
      PROVE  OccursAt(v, t, j) <=> j # n /\ v[j + 1] = Comma
  <2>1. CASE j = n
    BY <1>1, <2>1 DEF OccursAt
  <2>2. CASE j # n
    <3> DEFINE s == SubSeq(v, j + 1, j + 1)
    <3>1. j \in Nat /\ j + 1 \in Nat /\ j + 1 <= Len(v) /\ j <= j + 1 /\ (j + 1) - j = 1
      BY <1>1, <2>2
    <3>2. s \in Seq(S) /\ Len(s) = 1 /\ s[1] = v[j + 1]
      <4>1. s \in Seq(S) /\ Len(s) = (j + 1) - j /\ \A l \in 1 .. (j + 1) - j : s[l] = v[j + l]
        BY <3>1, PartIs
      <4> HIDE DEF s
      <4> QED  BY <3>1, <4>1
    <3>3. OccursAt(v, t, j) <=> s = t
      BY <1>1, <3>1 DEF OccursAt
    <3> HIDE DEF s
    <3>4. s = <<v[j + 1]>>
      BY <3>2
    <3>5. s = t <=> v[j + 1] = Comma
      BY <3>4
    <3> QED  BY <2>2, <3>3, <3>5
  <2> QED  BY <2>1, <2>2
<1> HIDE DEF t
<1>3. \A j \in 0 .. n : j \in T <=> j = n \/ OccursAt(v, t, j)
  BY <1>2 DEF CommasOf
<1>4. k \in i .. n /\ k \in T /\ \A j \in i .. k - 1 : j \notin T
  <2>1. n \in T
    BY <1>1 DEF CommasOf
  <2> QED  BY <1>1, <2>1, FirstIs
<1>5. \/ found = npos /\ \A j \in i .. n : ~OccursAt(v, t, j)
      \/ /\ found \in i .. n /\ found # npos /\ OccursAt(v, t, found) /\ found + Len(t) <= n
         /\ \A j \in i .. found - 1 : ~OccursAt(v, t, j)
  BY <1>1, FindIs
<1>6. k \in 0 .. n /\ i \in Nat
  BY <1>1, <1>4
<1> HIDE DEF n, T, found, k
<1>7. CASE found = npos
  <2>1. \A j \in i .. n : ~OccursAt(v, t, j)
    BY <1>5, <1>7
  <2>2. k = n
    BY <1>3, <1>4, <1>6, <2>1
  <2> QED  BY <1>7, <2>2 DEF found, n, k, t
<1>8. CASE found # npos
  <2>1. /\ found \in i .. n /\ OccursAt(v, t, found) /\ found + 1 <= n
        /\ \A j \in i .. found - 1 : ~OccursAt(v, t, j)
    BY <1>1, <1>5, <1>8
  <2>2. found \in 0 .. n /\ found # n
    BY <1>1, <1>6, <2>1
  <2>3. found \in T
    BY <1>3, <2>1, <2>2
  <2>4. ~(found < k)
    <3>1. found < k => found \in i .. k - 1
      BY <1>1, <1>6, <2>1
    <3> QED  BY <1>4, <2>3, <3>1
  <2>5. ~(k < found)
    <3>1. k < found => k \in i .. found - 1 /\ k # n
      BY <1>1, <1>4, <1>6, <2>1
    <3> QED  BY <1>3, <1>4, <1>6, <2>1, <3>1
  <2>6. found = k
    BY <1>1, <1>6, <2>1, <2>4, <2>5
  <2> QED  BY <1>8, <2>2, <2>6 DEF found, n, k, t
<1> QED  BY <1>7, <1>8

\* What split() finds at the commas, from each place on.
LEMMA SplitAtCommas ==
  ASSUME NEW S, Comma \in S, NEW v \in Seq(S), NEW r, IsFirst(r, Len(v), CommasOf(v))
  PROVE  \E f : /\ Split(v, <<Comma>>) = f[0]
                /\ \A i \in 0 .. Len(v) :
                     /\ f[i] \in Seq(Seq(S))
                     /\ i = Len(v) => f[i] = <<>>
                     /\ i # Len(v) /\ i \in CommasOf(v) => f[i] = f[i + 1]
                     /\ i \notin CommasOf(v) => f[i] = <<SubSeq(v, i + 1, r[i])>> \o f[r[i]]
<1> DEFINE n == Len(v)
           t == <<Comma>>
           T == CommasOf(v)
           next == Behind(v, t)
           pieces == PiecesAt(v, t)
           At(i) == Find(v, t, i)
<1>1. n \in Nat /\ t \in Seq(S) \ {<<>>} /\ Len(t) = 1
  BY LenProperties
<1>2. PICK f : Split(v, t) = f[0] /\ IsLoop(Seq(S), f, n, pieces, pieces, next)
  BY <1>1, SplitUnfolds
<1>3. f \in [0 .. n -> Seq(Seq(S))] /\ \A i \in 0 .. n : f[i] = IF next[i] > i THEN pieces[i] \o f[next[i]] ELSE pieces[i]
  BY <1>2 DEF IsLoop, IsUnfolded
<1>4. \A i \in 0 .. n : /\ At(i) = npos => ~(next[i] > i)
                        /\ At(i) # npos => next[i] = At(i) + 1 /\ next[i] > i
  <2>1. \A i \in 0 .. n : /\ At(i) = npos => ~(next[i] > i)
                          /\ At(i) # npos => next[i] = At(i) + Len(t) /\ next[i] > i
    <3> HIDE DEF t
    <3>1. t \in Seq(S) \ {<<>>}
      BY <1>1
    <3> QED  BY <3>1, BehindIs
  <2>2. Len(t) = 1
    BY <1>1
  <2> HIDE DEF n, t, next, At
  <2> QED  BY <2>1, <2>2
<1>5. \A i \in 0 .. n : IF At(i) = npos THEN r[i] = n ELSE At(i) = r[i] /\ r[i] # n
  BY CommaIsFound
<1>6. \A i \in 0 .. n : pieces[i] = IfNotEmpty(Substr(v, i, At(i)))
  BY DEF PiecesAt
<1>7. n \in T /\ \A i \in 0 .. n : r[i] \in i .. n /\ r[i] \in T
  <2>1. n \in T
    BY <1>1 DEF CommasOf
  <2> QED  BY <1>1, <2>1, FirstIs
<1>8. \A i \in 0 .. n : i \in T => r[i] = i
  BY DEF IsFirst
<1> HIDE DEF next, pieces, At, T, t
<1>9. ASSUME NEW i \in 0 .. n
      PROVE  pieces[i] = IfNotEmpty(SubSeq(v, i + 1, r[i]))
  <2>1. Substr(v, i, At(i)) = SubSeq(v, i + 1, r[i])
    <3>1. CASE At(i) = npos
      BY <1>5, <3>1 DEF Substr
    <3>2. CASE At(i) # npos
      BY <1>5, <3>2 DEF Substr
    <3> QED  BY <3>1, <3>2
  <2> QED  BY <1>6, <2>1
<1> HIDE DEF n
<1>10. ASSUME NEW i \in 0 .. n
       PROVE  f[i] = IF r[i] = n THEN pieces[i] ELSE pieces[i] \o f[r[i] + 1]
  <2>1. CASE At(i) = npos
    BY <1>3, <1>4, <1>5, <2>1
  <2>2. CASE At(i) # npos
    BY <1>3, <1>4, <1>5, <2>2
  <2> QED  BY <2>1, <2>2
<1>11. ASSUME NEW i \in 0 .. n, i \in T
       PROVE  pieces[i] = <<>>
  <2>1. r[i] = i /\ i \in Int /\ i < i + 1
    BY <1>1, <1>8, <1>11
  <2>2. SubSeq(v, i + 1, i) = <<>>
    BY <2>1, SubSeqEmpty
  <2> QED  BY <1>9, <2>1, <2>2 DEF IfNotEmpty
<1>12. f[n] = <<>>
  <2>1. n \in 0 .. n /\ r[n] = n
    BY <1>1, <1>7, <1>8
  <2> QED  BY <1>7, <1>10, <1>11, <2>1
<1>13. ASSUME NEW i \in 0 .. n, i # n, i \in T
       PROVE  f[i] = f[i + 1]
  <2>1. r[i] = i /\ i + 1 \in 0 .. n
    BY <1>1, <1>8, <1>13
  <2>2. f[i] = <<>> \o f[i + 1]
    BY <1>10, <1>11, <1>13, <2>1
  <2>3. f[i + 1] \in Seq(Seq(S))
    BY <1>3, <2>1
  <2> QED  BY <2>2, <2>3, ConcatEmptySeq
<1>14. ASSUME NEW i \in 0 .. n, i \notin T
       PROVE  f[i] = <<SubSeq(v, i + 1, r[i])>> \o f[r[i]]
  <2> DEFINE k == r[i]
             s == SubSeq(v, i + 1, k)
  <2>1. k \in i .. n /\ k # i /\ k \in T
    BY <1>7, <1>14
  <2>2. i \in Nat /\ k \in Nat /\ i < k /\ k <= n /\ k \in 0 .. n
    BY <1>1, <2>1
  <2> HIDE DEF k
  <2>3. s \in Seq(S) /\ Len(s) = k - i
    BY <2>2, PartIs DEF n
  <2> HIDE DEF s
  <2>4. s # <<>>
    BY <2>2, <2>3
  <2>5. pieces[i] = <<s>>
    BY <1>9, <2>4 DEF IfNotEmpty, s, k
  <2>6. CASE k = n
    <3>1. f[i] = <<s>>
      BY <1>10, <2>5, <2>6 DEF k
    <3>2. <<s>> \in Seq(Seq(S))
      BY <2>3
    <3>3. <<s>> \o <<>> = <<s>>
      BY <3>2, ConcatEmptySeq
    <3>4. f[k] = <<>>
      BY <1>12, <2>6
    <3> QED  BY <3>1, <3>3, <3>4 DEF s, k
  <2>7. CASE k # n
    <3>1. f[i] = <<s>> \o f[k + 1]
      BY <1>10, <2>5, <2>7 DEF k
    <3>2. f[k] = f[k + 1]
      BY <1>13, <2>1, <2>2, <2>7
    <3> QED  BY <3>1, <3>2 DEF s, k
  <2> QED  BY <2>6, <2>7
<1> QED  BY <1>2, <1>3, <1>12, <1>13, <1>14 DEF n, T, t

\* The blanks of a piece end before f.
BlanksEnd(p, f) == (\A k \in 1 .. f - 1 : p[k] = Blank) /\ (f # Len(p) => p[f] # Blank)

\* A piece is trimmed to what begins with its first character that is no blank, or to its
\* last one.
LEMMA TrimmedIs ==
  ASSUME NEW S, NEW p \in Seq(S), NEW f \in 1 .. Len(p), BlanksEnd(p, f)
  PROVE  Trimmed(p) = SubSeq(p, f, Len(p))
<1> DEFINE n == Len(p)
           Ending(l) == SubSeq(p, l, n)
           Starts(s) == s # <<>> /\ s[1] # Blank
           Longest(s) == Starts(s) /\ \A r \in Suffixes(p) : r # <<>> /\ r[1] # Blank => Len(r) <= Len(s)
           chosen == CHOOSE s \in Suffixes(p) : Longest(s)
<1>1. n \in Nat /\ f \in Nat /\ f <= n /\ DOMAIN p = 1 .. n
  BY LenProperties
<1>2. Trimmed(p) = IF \A i \in DOMAIN p : p[i] = Blank THEN <<Blank>> ELSE chosen
  BY DEF Trimmed
<1>3. ASSUME NEW l \in 1 .. n
      PROVE  Ending(l) \in Seq(S) /\ Len(Ending(l)) = n - l + 1 /\ Ending(l)[1] = p[l] /\ Ending(l) # <<>>
  <2> DEFINE a == l - 1
  <2> HIDE DEF n
  <2>1. a \in Nat /\ a <= n /\ a + 1 = l /\ n - a = n - l + 1 /\ 1 \in 1 .. n - a
    <3>1. l \in 1 .. n /\ n \in Nat
      BY <1>1
    <3>2. \A x \in Nat : \A y \in 1 .. x : /\ y - 1 \in Nat /\ y - 1 <= x /\ (y - 1) + 1 = y
                                         /\ x - (y - 1) = x - y + 1 /\ 1 \in 1 .. x - (y - 1)
      OBVIOUS
    <3> QED  BY <3>1, <3>2
  <2> HIDE DEF a
  <2>2. /\ SubSeq(p, a + 1, n) \in Seq(S) /\ Len(SubSeq(p, a + 1, n)) = n - a
        /\ \A i \in 1 .. n - a : SubSeq(p, a + 1, n)[i] = p[a + i]
    <3>1. n <= Len(p) /\ n \in Nat
      BY <1>1 DEF n
    <3> HIDE DEF Ending, Starts
    <3> QED  BY <2>1, <3>1, PartIs
  <2> DEFINE s == SubSeq(p, a + 1, n)
  <2>3. s = Ending(l)
    BY <2>1
  <2>4. s[1] = p[a + 1]
    BY <2>1, <2>2
  <2>5. s \in Seq(S) /\ Len(s) = n - a
    BY <2>2
  <2> HIDE DEF s, Ending
  <2>6. s # <<>>
    BY <1>1, <2>1, <2>5
  <2> QED  BY <2>1, <2>3, <2>4, <2>5, <2>6
<1>4. Suffixes(p) = {Ending(l) : l \in 1 .. n} \cup {<<>>}
  BY DEF Suffixes
<1> HIDE DEF n, Ending, chosen
<1>5. CASE \A i \in DOMAIN p : p[i] = Blank
  <2>1. f = n
    BY <1>1, <1>5 DEF n, BlanksEnd
  <2>2. n \in 1 .. n /\ n - n + 1 = 1
    BY <1>1, <2>1
  <2>3. Ending(n) \in Seq(S) /\ Len(Ending(n)) = 1 /\ Ending(n)[1] = p[n]
    BY <1>3, <2>2
  <2>4. p[n] = Blank
    BY <1>1, <1>5, <2>2
  <2>5. Ending(n) = <<Blank>>
    BY <2>3, <2>4
  <2> QED  BY <1>2, <1>5, <2>1, <2>5 DEF Ending, n
<1>6. CASE ~\A i \in DOMAIN p : p[i] = Blank
  <2>1. PICK i \in 1 .. n : p[i] # Blank
    BY <1>1, <1>6
  <2>2. p[f] # Blank
    <3>1. CASE f = n
      <4>1. i = n \/ i \in 1 .. f - 1
        BY <1>1, <3>1
      <4> QED  BY <2>1, <3>1, <4>1 DEF BlanksEnd
    <3>2. CASE f # n
      BY <3>2 DEF n, BlanksEnd
    <3> QED  BY <3>1, <3>2
  <2>3. ASSUME NEW l \in 1 .. n, p[l] # Blank
        PROVE  f <= l
    <3>1. ~(l \in 1 .. f - 1)
      BY <2>3 DEF BlanksEnd
    <3> QED  BY <1>1, <3>1
  <2>4. f \in 1 .. n
    BY <1>1
  <2>5. ASSUME NEW r \in Suffixes(p), Starts(r)
        PROVE  \E l \in 1 .. n : r = Ending(l) /\ f <= l /\ Len(r) = n - l + 1
    <3>1. PICK l \in 1 .. n : r = Ending(l)
      BY <1>4, <2>5
    <3>2. p[l] # Blank
      BY <1>3, <2>5, <3>1
    <3>3. f <= l
      BY <2>3, <3>2
    <3> QED  BY <1>3, <3>1, <3>3
  <2>6. Ending(f) \in Suffixes(p) /\ Starts(Ending(f)) /\ Len(Ending(f)) = n - f + 1
    BY <1>3, <1>4, <2>2, <2>4
  <2>7. Longest(Ending(f))
    <3> SUFFICES ASSUME NEW r \in Suffixes(p), r # <<>>, r[1] # Blank
                 PROVE  Len(r) <= Len(Ending(f))
      BY <2>6
    <3>1. PICK l \in 1 .. n : f <= l /\ Len(r) = n - l + 1
      BY <2>5
    <3> QED  BY <1>1, <2>6, <3>1
  <2>8. ASSUME NEW s \in Suffixes(p), Longest(s)
        PROVE  s = Ending(f)
    <3>1. Starts(s) /\ Len(Ending(f)) <= Len(s)
      BY <2>6, <2>8
    <3>2. PICK l \in 1 .. n : s = Ending(l) /\ f <= l /\ Len(s) = n - l + 1
      BY <2>5, <3>1
    <3>3. n - f + 1 <= n - l + 1
      BY <2>6, <3>1, <3>2
    <3>4. l = f
      BY <1>1, <3>2, <3>3
    <3> QED  BY <3>2, <3>4
  <2> HIDE DEF Longest
  <2>9. chosen = Ending(f)
    BY <2>6, <2>7, <2>8 DEF chosen
  <2> QED  BY <1>2, <1>6, <2>9 DEF Ending, n
<1> QED  BY <1>5, <1>6

\* Where the group of a match begins: at a character that is no blank, or before the
\* comma or the end.
GroupStarts(v) ==
  {i \in 0 .. Len(v) - 1 : v[i + 1] # Blank \/ i + 1 = Len(v) \/ v[i + 2] = Comma}

\* The group is the piece between the commas, trimmed.
LEMMA GroupIsTrimmed ==
  ASSUME NEW S, NEW v \in Seq(S), Len(v) # 0,
         NEW r, IsFirst(r, Len(v), CommasOf(v)), NEW g, IsFirst(g, Len(v) - 1, GroupStarts(v)),
         NEW i \in 0 .. Len(v), i \notin CommasOf(v)
  PROVE  Substr(v, g[i], r[i]) = Trimmed(SubSeq(v, i + 1, r[i]))
<1> DEFINE n == Len(v)
           T == CommasOf(v)
           G == GroupStarts(v)
           k == r[i]
           j == g[i]
           p == SubSeq(v, i + 1, k)
           f == j - i + 1
<1>1. n \in Nat /\ n - 1 \in Nat /\ n \in T /\ i # n /\ i \in Nat /\ i \in 0 .. n - 1
  <2>1. n \in Nat /\ n # 0
    BY LenProperties
  <2>2. n \in T
    BY <2>1 DEF CommasOf
  <2>3. i # n
    BY <2>2
  <2> QED  BY <2>1, <2>2, <2>3
<1>2. k \in i .. n /\ k \in T /\ \A l \in i .. k - 1 : l \notin T
  BY <1>1, FirstIs
<1>3. i < k /\ k \in 1 .. n
  <2>1. k # i
    BY <1>2
  <2> QED  BY <1>1, <1>2, <2>1
<1>4. n - 1 \in G
  <2>1. n - 1 \in 0 .. Len(v) - 1 /\ (n - 1) + 1 = n
    BY <1>1
  <2> QED  BY <2>1 DEF GroupStarts
<1>5. j \in i .. n - 1 /\ j \in G /\ \A l \in i .. j - 1 : l \notin G
  BY <1>1, <1>4, FirstIs
<1>6. \A l \in 0 .. n : l \in T <=> l = n \/ v[l + 1] = Comma
  BY DEF CommasOf
<1>7. \A l \in 0 .. n - 1 : l \in G <=> v[l + 1] # Blank \/ l + 1 = n \/ v[l + 2] = Comma
  BY DEF GroupStarts
<1> HIDE DEF n, T, G, k, j
<1>8. \A l \in 0 .. n - 1 : l \in G <=> v[l + 1] # Blank \/ l + 1 \in T
  <2> SUFFICES ASSUME NEW l \in 0 .. n - 1
               PROVE  l + 1 \in T <=> l + 1 = n \/ v[l + 2] = Comma
    BY <1>7
  <2>1. l + 1 \in 0 .. n /\ (l + 1) + 1 = l + 2
    BY <1>1
  <2> QED  BY <1>6, <2>1
<1>9. j <= k - 1
  <2>1. k - 1 \in 0 .. n - 1 /\ k - 1 \in i .. n - 1 /\ (k - 1) + 1 = k
    BY <1>1, <1>3
  <2>2. k - 1 \in G
    BY <1>2, <1>8, <2>1
  <2>3. ~(k - 1 \in i .. j - 1)
    BY <1>5, <2>2
  <2> QED  BY <1>1, <1>3, <1>5, <2>1, <2>3
<1>10. p \in Seq(S) /\ Len(p) = k - i /\ \A l \in 1 .. k - i : p[l] = v[i + l]
  BY <1>1, <1>3, PartIs DEF n
<1> HIDE DEF p
<1>11. f \in 1 .. k - i /\ j + 1 = i + f /\ j \in Nat
  BY <1>1, <1>3, <1>5, <1>9
<1>12. ASSUME NEW l \in 1 .. f - 1
       PROVE  p[l] = Blank
  <2> DEFINE m == i + l - 1
  <2>1. m \in i .. j - 1 /\ m \in 0 .. n - 1 /\ m + 1 = i + l /\ l \in 1 .. k - i
    BY <1>1, <1>3, <1>5, <1>9
  <2> HIDE DEF m
  <2>2. v[m + 1] = Blank
    BY <1>5, <1>8, <2>1
  <2> QED  BY <1>10, <2>1, <2>2
<1>13. ASSUME f # Len(p)
       PROVE  p[f] # Blank
  <2>1. j + 1 \in i .. k - 1 /\ j \in 0 .. n - 1
    BY <1>1, <1>3, <1>5, <1>9, <1>10, <1>11, <1>13
  <2>2. v[j + 1] # Blank
    BY <1>2, <1>5, <1>8, <2>1
  <2> QED  BY <1>10, <1>11, <2>2
<1>14. Trimmed(p) = SubSeq(p, f, Len(p))
  <2>1. f \in 1 .. Len(p)
    BY <1>10, <1>11
  <2>2. BlanksEnd(p, f)
    BY <1>12, <1>13 DEF BlanksEnd
  <2> HIDE DEF f
  <2> QED  BY <1>10, <2>1, <2>2, TrimmedIs
<1>15. SubSeq(p, f, k - i) = SubSeq(v, j + 1, k)
  <2> DEFINE a == i + 1
             b == k - i
  <2>1. /\ a \in 1 .. Len(v) /\ k \in 1 .. Len(v)
        /\ f \in 1 .. k - a + 1 /\ b \in 1 .. k - a + 1
        /\ a + f - 1 = j + 1 /\ a + b - 1 = k
    BY <1>1, <1>3, <1>11 DEF n
  <2>2. p = SubSeq(v, a, k)
    BY DEF p
  <2> HIDE DEF f, a, b
  <2>3. SubSeq(SubSeq(v, a, k), f, b) = SubSeq(v, a + f - 1, a + b - 1)
    BY <2>1, SubSeqOfSubSeq
  <2>4. SubSeq(p, f, b) = SubSeq(v, j + 1, k)
    BY <2>1, <2>2, <2>3
  <2> QED  BY <2>4 DEF b
<1>16. Substr(v, j, k) = SubSeq(v, j + 1, k)
  <2>1. k # npos
    BY <1>3 DEF npos
  <2> QED  BY <2>1 DEF Substr
<1> QED  BY <1>10, <1>14, <1>15, <1>16 DEF p, j, k

\* The pieces, each of them trimmed.
TrimmedPieces(pieces) == [k \in DOMAIN pieces |-> Trimmed(pieces[k])]

LEMMA TrimmedOneByOne ==
  ASSUME NEW S, NEW a \in S, NEW q \in Seq(S)
  PROVE  TrimmedPieces(<<a>> \o q) = <<Trimmed(a)>> \o TrimmedPieces(q)
<1> DEFINE n == Len(q)
           X == {Trimmed(a)} \cup {Trimmed(q[k]) : k \in 1 .. n}
           all == <<a>> \o q
           left == TrimmedPieces(all)
           trimmed == TrimmedPieces(q)
           right == <<Trimmed(a)>> \o trimmed
<1>1. n \in Nat /\ DOMAIN q = 1 .. n
  BY LenProperties
<1>2. trimmed \in [1 .. n -> X] /\ \A k \in 1 .. n : trimmed[k] = Trimmed(q[k])
  BY <1>1 DEF TrimmedPieces
<1>3. Trimmed(a) \in X
  OBVIOUS
<1> HIDE DEF n, X, trimmed
<1>4. trimmed \in Seq(X) /\ Len(trimmed) = n
  BY <1>1, <1>2
<1>5. <<Trimmed(a)>> \in Seq(X) /\ Len(<<Trimmed(a)>>) = 1 /\ <<Trimmed(a)>>[1] = Trimmed(a)
  BY <1>3
<1>6. /\ right \in Seq(X) /\ Len(right) = 1 + n
      /\ \A k \in 1 .. 1 + n : right[k] = IF k <= 1 THEN <<Trimmed(a)>>[k] ELSE trimmed[k - 1]
  BY <1>4, <1>5, ConcatProperties
<1>7. <<a>> \in Seq(S) /\ Len(<<a>>) = 1 /\ <<a>>[1] = a
  OBVIOUS
<1>8. /\ all \in Seq(S) /\ Len(all) = 1 + n
      /\ \A k \in 1 .. 1 + n : all[k] = IF k <= 1 THEN <<a>>[k] ELSE q[k - 1]
  BY <1>7, ConcatProperties DEF n
<1> HIDE DEF all, right
<1>9. DOMAIN all = 1 .. 1 + n /\ left = [k \in 1 .. 1 + n |-> Trimmed(all[k])]
  BY <1>8, LenProperties DEF TrimmedPieces
<1>10. ASSUME NEW k \in 1 .. 1 + n
       PROVE  Trimmed(all[k]) = right[k]
  <2>1. CASE k = 1
    <3>1. k <= 1
      BY <2>1
    <3>2. all[k] = a /\ right[k] = Trimmed(a)
      BY <1>5, <1>6, <1>7, <1>8, <2>1, <3>1
    <3> QED  BY <3>2
  <2>2. CASE k # 1
    <3>1. ~(k <= 1) /\ k - 1 \in 1 .. n
      BY <1>1, <2>2
    <3>2. all[k] = q[k - 1]
      BY <1>8, <3>1
    <3>3. right[k] = trimmed[k - 1]
      BY <1>6, <3>1
    <3> QED  BY <1>2, <3>1, <3>2, <3>3
  <2> QED  BY <2>1, <2>2
<1>11. right = [k \in 1 .. 1 + n |-> right[k]]
  BY <1>6
<1>12. left = right
  BY <1>9, <1>10, <1>11
<1> QED  BY <1>12 DEF right, all, trimmed

\* to_array() makes what split() does at the commas, trimmed.
LEMMA ToArrayIs ==
  ASSUME NEW S, Comma \in S, NEW v \in Seq(S)
  PROVE  ToArray(v) = TrimmedPieces(Split(v, <<Comma>>))
<1> DEFINE n == Len(v)
           T == CommasOf(v)
           G == GroupStarts(v)
           CommaAt(i) == i = Len(v) \/ v[i + 1] = Comma
           Runs(f) == f = [i \in 0 .. Len(v) |-> IF CommaAt(i) THEN i ELSE f[i + 1]]
           RunEnd == CHOOSE f : Runs(f)
           Starts(f) == f = [i \in 0 .. Len(v) - 1 |->
                               IF v[i + 1] # Blank \/ i + 1 = Len(v) \/ CommaAt(i + 1) THEN i ELSE f[i + 1]]
           GroupStart == CHOOSE f : Starts(f)
           Body(f, i) == CASE i = Len(v) -> <<>>
                           [] i < Len(v) /\ CommaAt(i) -> f[i + 1]
                           [] OTHER -> <<Substr(v, GroupStart[i], RunEnd[i])>> \o f[RunEnd[i]]
           Unfolds(f) == f = [i \in 0 .. Len(v) |-> Body(f, i)]
           From == CHOOSE f : Unfolds(f)
<1>1. ToArray(v) = From[0]
  BY DEF ToArray
<1>2. n \in Nat /\ 0 \in 0 .. n
  BY LenProperties
<1>3. n \in T /\ \A i \in 0 .. n : i \in T <=> CommaAt(i)
  BY <1>2 DEF CommasOf
<1>4. IsFirst(RunEnd, n, T)
  <2>1. PICK f \in [0 .. n -> 0 .. n] : IsFirst(f, n, T)
    BY <1>2, <1>3, FirstExists
  <2>2. \A i \in 0 .. n : f[i] = IF CommaAt(i) THEN i ELSE f[i + 1]
    BY <1>3, <2>1 DEF IsFirst
  <2>3. Runs(f)
    <3> HIDE DEF CommaAt
    <3> QED  BY <2>2
  <2>4. Runs(RunEnd)
    <3> HIDE DEF Runs
    <3> QED  BY <2>3
  <2> HIDE DEF RunEnd
  <2>5. \A i \in 0 .. n : RunEnd[i] = IF CommaAt(i) THEN i ELSE RunEnd[i + 1]
    <3> HIDE DEF CommaAt
    <3> QED  BY <2>4
  <2> QED  BY <1>3, <2>5 DEF IsFirst
<1>5. ASSUME n # 0
      PROVE  IsFirst(GroupStart, n - 1, G)
  <2> DEFINE Stop(i) == v[i + 1] # Blank \/ i + 1 = Len(v) \/ CommaAt(i + 1)
  <2>1. \A i \in 0 .. n - 1 : i \in G <=> Stop(i)
    <3> SUFFICES ASSUME NEW i \in 0 .. n - 1
                 PROVE  i \in G <=> Stop(i)
      OBVIOUS
    <3>1. (i + 1) + 1 = i + 2
      OBVIOUS
    <3> QED  BY <3>1 DEF GroupStarts
  <2>2. n - 1 \in Nat /\ n - 1 \in 0 .. n - 1 /\ (n - 1) + 1 = Len(v)
    BY <1>2, <1>5
  <2>3. n - 1 \in G
    BY <2>1, <2>2
  <2>4. PICK f \in [0 .. n - 1 -> 0 .. n - 1] : IsFirst(f, n - 1, G)
    BY <2>2, <2>3, FirstExists
  <2>5. Starts(f) <=> f = [i \in 0 .. n - 1 |-> IF Stop(i) THEN i ELSE f[i + 1]]
    OBVIOUS
  <2>6. Starts(GroupStart) => GroupStart = [i \in 0 .. n - 1 |-> IF Stop(i) THEN i ELSE GroupStart[i + 1]]
    <3> HIDE DEF GroupStart
    <3> QED  OBVIOUS
  <2>7. \A i \in 0 .. n - 1 : f[i] = IF i \in G THEN i ELSE f[i + 1]
    BY <2>4 DEF IsFirst
  <2>8. Starts(f)
    <3> HIDE DEF Stop, Starts, G
    <3> QED  BY <2>1, <2>5, <2>7
  <2>9. Starts(GroupStart)
    <3> HIDE DEF Starts
    <3> QED  BY <2>8
  <2> HIDE DEF Stop, Starts, GroupStart, G
  <2>10. \A i \in 0 .. n - 1 : GroupStart[i] = IF Stop(i) THEN i ELSE GroupStart[i + 1]
    BY <2>6, <2>9
  <2> QED  BY <2>1, <2>10 DEF IsFirst
<1> HIDE DEF RunEnd, GroupStart
<1>6. PICK f : /\ Split(v, <<Comma>>) = f[0]
               /\ \A i \in 0 .. n :
                    /\ f[i] \in Seq(Seq(S))
                    /\ i = n => f[i] = <<>>
                    /\ i # n /\ i \in T => f[i] = f[i + 1]
                    /\ i \notin T => f[i] = <<SubSeq(v, i + 1, RunEnd[i])>> \o f[RunEnd[i]]
  BY <1>4, SplitAtCommas
<1>7. \A i \in 0 .. n : RunEnd[i] \in i .. n /\ RunEnd[i] \in T
  BY <1>2, <1>3, <1>4, FirstIs
<1>8. ASSUME NEW i \in 0 .. n, i \notin T
      PROVE  /\ i # n /\ i < RunEnd[i] /\ RunEnd[i] \in 0 .. n /\ SubSeq(v, i + 1, RunEnd[i]) \in Seq(S)
             /\ Substr(v, GroupStart[i], RunEnd[i]) = Trimmed(SubSeq(v, i + 1, RunEnd[i]))
  <2>1. i # n /\ n # 0 /\ i \in Nat
    BY <1>2, <1>3, <1>8
  <2>2. RunEnd[i] \in i .. n /\ RunEnd[i] # i
    BY <1>7, <1>8
  <2>3. RunEnd[i] \in Nat /\ i <= RunEnd[i] /\ RunEnd[i] <= Len(v) /\ i < RunEnd[i] /\ RunEnd[i] \in 0 .. n
    BY <1>2, <2>1, <2>2
  <2>4. SubSeq(v, i + 1, RunEnd[i]) \in Seq(S)
    BY <2>1, <2>3, PartIs
  <2>5. Substr(v, GroupStart[i], RunEnd[i]) = Trimmed(SubSeq(v, i + 1, RunEnd[i]))
    BY <1>4, <1>5, <1>8, <2>1, GroupIsTrimmed
  <2> QED  BY <2>1, <2>3, <2>4, <2>5
<1> DEFINE h == [i \in 0 .. n |-> TrimmedPieces(f[i])]
<1>9. \A i \in 0 .. n : h[i] = TrimmedPieces(f[i])
  OBVIOUS
<1>10. h = [i \in 0 .. n |-> h[i]]
  OBVIOUS
<1> HIDE DEF h
<1>11. ASSUME NEW g, NEW i \in 0 .. n
       PROVE  /\ i = n => Body(g, i) = <<>>
              /\ i # n /\ i \in T => Body(g, i) = g[i + 1]
              /\ i \notin T => Body(g, i) = <<Trimmed(SubSeq(v, i + 1, RunEnd[i]))>> \o g[RunEnd[i]]
  <2>1. CASE i = n
    <3>1. i = Len(v) /\ i \in T
      BY <1>3, <2>1
    <3>2. Body(g, i) = <<>>
      <4> HIDE DEF CommaAt
      <4> QED  BY <3>1
    <3> HIDE DEF Body
    <3> QED  BY <2>1, <3>1, <3>2
  <2>2. CASE i # n /\ i \in T
    <3>1. i < Len(v) /\ CommaAt(i) /\ i # Len(v)
      BY <1>2, <1>3, <2>2
    <3> HIDE DEF CommaAt
    <3> QED  BY <2>2, <3>1
  <2>3. CASE i \notin T
    <3>1. i # n /\ i # Len(v) /\ ~CommaAt(i)
      BY <1>3, <1>8, <2>3
    <3>2. Body(g, i) = <<Substr(v, GroupStart[i], RunEnd[i])>> \o g[RunEnd[i]]
      <4> HIDE DEF CommaAt
      <4> QED  BY <3>1
    <3>3. Substr(v, GroupStart[i], RunEnd[i]) = Trimmed(SubSeq(v, i + 1, RunEnd[i]))
      BY <1>8, <2>3
    <3> HIDE DEF Body
    <3> QED  BY <2>3, <3>1, <3>2, <3>3
  <2> HIDE DEF Body
  <2> QED  BY <1>3, <2>1, <2>2, <2>3
<1> HIDE DEF Body, CommaAt
<1>12. ASSUME NEW i \in 0 .. n
       PROVE  h[i] = Body(h, i)
  <2>1. CASE i = n
    <3>1. f[i] = <<>>
      BY <1>6, <2>1
    <3>2. TrimmedPieces(<<>>) = <<>>
      BY DEF TrimmedPieces
    <3> QED  BY <1>9, <1>11, <2>1, <3>1, <3>2
  <2>2. CASE i # n /\ i \in T
    <3>1. i + 1 \in 0 .. n
      BY <1>2, <2>2
    <3>2. h[i] = h[i + 1]
      BY <1>6, <1>9, <2>2, <3>1
    <3> QED  BY <1>11, <2>2, <3>2
  <2>3. CASE i \notin T
    <3> DEFINE p == SubSeq(v, i + 1, RunEnd[i])
               k == RunEnd[i]
    <3>1. k \in 0 .. n /\ p \in Seq(S)
      BY <1>8, <2>3
    <3>2. f[i] = <<p>> \o f[k]
      BY <1>6, <2>3
    <3>3. Body(h, i) = <<Trimmed(p)>> \o h[k]
      BY <1>11, <2>3
    <3> HIDE DEF p, k
    <3>4. f[k] \in Seq(Seq(S)) /\ h[k] = TrimmedPieces(f[k])
      BY <1>6, <1>9, <3>1
    <3> DEFINE q == f[k]
    <3>5. q \in Seq(Seq(S))
      BY <3>4
    <3> HIDE DEF q
    <3>6. TrimmedPieces(<<p>> \o q) = <<Trimmed(p)>> \o TrimmedPieces(q)
      BY <3>1, <3>5, TrimmedOneByOne
    <3> QED  BY <1>9, <3>2, <3>3, <3>4, <3>6 DEF q
  <2> QED  BY <2>1, <2>2, <2>3
<1>13. Unfolds(h)
  <2>1. h = [i \in 0 .. n |-> Body(h, i)]
    BY <1>10, <1>12
  <2> QED  BY <2>1
<1>14. Unfolds(From)
  <2> HIDE DEF Unfolds
  <2> QED  BY <1>13
<1> HIDE DEF From
<1>15. \A i \in 0 .. n : From[i] = Body(From, i)
  BY <1>14
<1> DEFINE next == [i \in 0 .. n |-> IF i = n THEN n ELSE IF i \in T THEN i + 1 ELSE RunEnd[i]]
           Same == {i \in 0 .. n : From[i] = h[i]}
<1>16. ASSUME NEW i \in 0 .. n
       PROVE  /\ next[i] \in 0 .. n
              /\ i = n => ~(next[i] > i)
              /\ i # n /\ i \in T => next[i] = i + 1 /\ next[i] > i
              /\ i \notin T => next[i] = RunEnd[i] /\ next[i] > i
  <2>1. next[i] = IF i = n THEN n ELSE IF i \in T THEN i + 1 ELSE RunEnd[i]
    OBVIOUS
  <2>2. i # n => i + 1 \in 0 .. n /\ i + 1 > i
    BY <1>2
  <2> HIDE DEF next
  <2>3. CASE i = n
    BY <1>2, <1>3, <2>1, <2>3
  <2>4. CASE i # n /\ i \in T
    BY <2>1, <2>2, <2>4
  <2>5. CASE i \notin T
    <3>1. i # n /\ i < RunEnd[i] /\ RunEnd[i] \in 0 .. n
      BY <1>8, <2>5
    <3>2. next[i] = RunEnd[i]
      BY <2>1, <2>5, <3>1
    <3> QED  BY <2>5, <3>1, <3>2
  <2> QED  BY <2>3, <2>4, <2>5
<1>17. next \in [0 .. n -> 0 .. n]
  BY <1>16
<1> HIDE DEF next
<1>18. ASSUME NEW i \in 0 .. n, next[i] > i => next[i] \in Same
       PROVE  i \in Same
  <2>1. CASE i = n
    BY <1>11, <1>12, <1>15, <2>1
  <2>2. CASE i # n /\ i \in T
    <3>1. From[i + 1] = h[i + 1]
      BY <1>16, <1>18, <2>2
    <3> QED  BY <1>11, <1>12, <1>15, <2>2, <3>1
  <2>3. CASE i \notin T
    <3>1. From[RunEnd[i]] = h[RunEnd[i]]
      BY <1>16, <1>18, <2>3
    <3>2. Body(From, i) = <<Trimmed(SubSeq(v, i + 1, RunEnd[i]))>> \o From[RunEnd[i]]
      BY <1>11, <2>3
    <3>3. Body(h, i) = <<Trimmed(SubSeq(v, i + 1, RunEnd[i]))>> \o h[RunEnd[i]]
      BY <1>11, <2>3
    <3>4. From[i] = Body(From, i) /\ h[i] = Body(h, i)
      BY <1>12, <1>15
    <3>5. From[i] = h[i]
      BY <3>1, <3>2, <3>3, <3>4
    <3> QED  BY <3>5
  <2> QED  BY <2>1, <2>2, <2>3
<1> HIDE DEF Same
<1>19. 0 \in Same
  BY <1>2, <1>17, <1>18, BackwardInduction
<1>20. From[0] = h[0]
  BY <1>19 DEF Same
<1> QED  BY <1>1, <1>2, <1>6, <1>9, <1>20

\* to_array() has what split() has, trimmed, whatever the strings are.
LEMMA ListsAreTrimmed == StringTypes => ListsAreSplits
<1> SUFFICES ASSUME StringTypes
             PROVE  ListsAreSplits
  OBVIOUS
<1>1. Comma \in Character /\ source \in Seq(Character)
  BY CharacterAssumption DEF StringTypes
<1>2. ToArray(source) = TrimmedPieces(Split(source, <<Comma>>))
  BY <1>1, ToArrayIs
<1> HIDE DEF StringTypes
<1> QED  BY <1>2 DEF ListsAreSplits, TrimmedPieces

\* The strings are strings, and no token is empty: parse() leaves them alone.
THEOREM TextTypes == TextSpec => []StringTypes
<1>1. TextInit => StringTypes
  BY DEF TextInit, StringTypes
<1>2. StringTypes /\ [TextNext]_textVars => StringTypes'
  BY DEF StringTypes, TextNext, textVars
<1> QED  BY <1>1, <1>2, PTL DEF TextSpec

\* split() and replace2() cut a string at the tokens that do not overlap one
\* another, from the left, whatever the string, the token and the target are.
THEOREM TokensAreCut == TextSpec => []CutsAtTokens
<1>1. StringTypes => CutsAtTokens
  BY CutsAreTokens
<1> QED  BY <1>1, TextTypes, PTL

\* to_array() has an element for each piece that split() finds at the commas.
THEOREM ListsAreMade == TextSpec => []ListsAreSplits
<1>1. StringTypes => ListsAreSplits
  BY ListsAreTrimmed
<1> QED  BY <1>1, TextTypes, PTL
=============================================================================
