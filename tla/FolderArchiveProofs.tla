------------------------ MODULE FolderArchiveProofs ------------------------
(***************************************************************************)
(* Theorems about Combiner.tla, Compressor.tla and FolderArchive.tla, for  *)
(* all names, contents and sizes of blocks:                                *)
(*                                                                         *)
(*  - divide() is the inverse of append() and finds nothing in what was    *)
(*    cut short;                                                           *)
(*  - decompression() is the inverse of compression() when the blocks fit, *)
(*    and else says that it cannot, provided that LZ4 loses nothing;       *)
(*  - an in-place call that says FALSE has not touched the file;           *)
(*  - what is restored from an archive is a beginning of what was put into *)
(*    it, and all of it when nothing was lost.                             *)
(*                                                                         *)
(* The last two rest on invariants.  That of the archive says of the file, *)
(* and of what is in memory of it, that it is a beginning of the image of  *)
(* the files archived so far (Image), or what compression() makes of one;  *)
(* and of decompression() that it stands behind as many entries of that    *)
(* image as it has taken.                                                  *)
(***************************************************************************)
EXTENDS FolderArchive, SequenceInduction, FiniteSetTheorems

\* What append() adds: the bytes of the size and the reversed data.
LEMMA FramedBytes ==
  ASSUME NEW data \in Seq(Byte), Len(data) <= MaxSize
  PROVE  /\ Framed(data) \in Seq(Byte)
         /\ Len(Framed(data)) = WordSize + Len(data)
         /\ \A i \in 1 .. WordSize : Framed(data)[i] = Word(Len(data))[i]
         /\ \A i \in 1 .. Len(data) : Framed(data)[WordSize + i] = data[Len(data) - i + 1]
<1> DEFINE n == Len(data)
<1>1. n \in 0 .. MaxSize /\ WordSize \in Nat
  BY WordAssumption, LenProperties
<1>2. Word(n) \in Seq(Byte) /\ Len(Word(n)) = WordSize
  BY <1>1, WordAssumption
<1>3. /\ Reverse(data) \in Seq(Byte)
      /\ Len(Reverse(data)) = n
      /\ \A i \in 1 .. n : Reverse(data)[i] = data[n - i + 1]
  <2>1. Reverse(data) = [i \in 1 .. n |-> data[(n - i) + 1]]
    BY DEF Reverse
  <2>2. \A i \in 1 .. n : (n - i) + 1 \in 1 .. n /\ data[(n - i) + 1] \in Byte
    BY <1>1, ElementOfSeq
  <2> QED  BY <1>1, <2>1, <2>2
<1> DEFINE w == Word(n)
           r == Reverse(data)
<1> HIDE DEF w, r
<1>4. w \in Seq(Byte) /\ Len(w) = WordSize /\ r \in Seq(Byte) /\ Len(r) = n
  BY <1>2, <1>3 DEF w, r
<1>5. /\ w \o r \in Seq(Byte)
      /\ Len(w \o r) = WordSize + n
      /\ \A i \in 1 .. WordSize + n : (w \o r)[i] = IF i <= WordSize THEN w[i] ELSE r[i - WordSize]
  <2>1. /\ w \o r \in Seq(Byte)
        /\ Len(w \o r) = Len(w) + Len(r)
        /\ \A i \in 1 .. Len(w) + Len(r) : (w \o r)[i] = IF i <= Len(w) THEN w[i] ELSE r[i - Len(w)]
    BY <1>4, ConcatProperties, ZenonT(30)
  <2> QED  BY <1>4, <2>1
<1>6. Framed(data) = w \o r
  BY DEF Framed, w, r
<1>7. \A i \in 1 .. WordSize : (w \o r)[i] = w[i]
  BY <1>1, <1>5
<1>8. \A i \in 1 .. n : (w \o r)[WordSize + i] = r[i]
  BY <1>1, <1>5
<1> QED  BY <1>1, <1>3, <1>5, <1>6, <1>7, <1>8 DEF w, r

-----------------------------------------------------------------------------
(* A buffer in which framed data begins at some at.                     *)

\* The size that divide() reads there.
LEMMA SizeRead ==
  ASSUME NEW bytes \in Seq(Byte), NEW at \in Nat, NEW n \in 0 .. MaxSize,
         at + WordSize <= Len(bytes),
         \A i \in 1 .. WordSize : bytes[at + i] = Word(n)[i]
  PROVE  Size(SubSeq(bytes, at + 1, at + WordSize)) = n
<1>1. /\ WordSize \in Nat /\ Len(bytes) \in Nat
      /\ Word(n) \in Seq(Byte) /\ Len(Word(n)) = WordSize /\ Size(Word(n)) = n
  BY WordAssumption, LenProperties
<1>2. \A i \in at + 1 .. at + WordSize : bytes[i] \in Byte
  BY <1>1, ElementOfSeq
<1> DEFINE t == SubSeq(bytes, at + 1, at + WordSize)
<1>3. /\ t \in Seq(Byte)
      /\ Len(t) = WordSize
      /\ \A i \in 1 .. WordSize : t[i] = bytes[at + 1 + i - 1]
  BY <1>1, <1>2, SubSeqProperties
<1> HIDE DEF t
<1>4. \A i \in 1 .. WordSize : t[i] = Word(n)[i]
  BY <1>1, <1>3
<1>5. t = Word(n)
  BY <1>1, <1>3, <1>4, SeqEqual
<1> QED  BY <1>1, <1>5 DEF t

\* What append() has put anywhere into a buffer divide() gives back, and it goes
\* on behind it.
THEOREM DivideInvertsAppend ==
  ASSUME NEW bytes \in Seq(Byte), NEW at \in Nat, NEW data \in Seq(Byte),
         data # <<>>, Len(data) <= MaxSize,
         at + Len(Framed(data)) <= Len(bytes),
         \A i \in 1 .. Len(Framed(data)) : bytes[at + i] = Framed(data)[i]
  PROVE  Divide(bytes, at) = [data |-> data, index |-> at + Len(Framed(data))]
<1> DEFINE n == Len(data)
           from == at + WordSize
<1>1. /\ WordSize \in Nat /\ Len(bytes) \in Nat
      /\ n \in 0 .. MaxSize /\ n # 0
  BY WordAssumption, LenProperties, EmptySeq
<1>2. /\ Len(Framed(data)) = WordSize + n
      /\ \A i \in 1 .. WordSize : Framed(data)[i] = Word(n)[i]
      /\ \A i \in 1 .. n : Framed(data)[WordSize + i] = data[n - i + 1]
  BY FramedBytes
<1>3. Size(SubSeq(bytes, at + 1, from)) = n
  <2>1. \A i \in 1 .. WordSize : bytes[at + i] = Word(n)[i]
    BY <1>1, <1>2
  <2> QED  BY <1>1, <1>2, <2>1, SizeRead
<1> DEFINE t == SubSeq(bytes, from + 1, from + n)
<1>4. /\ Len(t) = n
      /\ \A i \in 1 .. n : t[i] = bytes[from + i]
  <2>1. \A i \in from + 1 .. from + n : bytes[i] \in Byte
    BY <1>1, <1>2, ElementOfSeq
  <2>2. /\ Len(t) = n
        /\ \A i \in 1 .. from + n - (from + 1) + 1 : t[i] = bytes[from + 1 + i - 1]
    BY <1>1, <2>1, SubSeqProperties
  <2> QED  BY <1>1, <2>2
<1> HIDE DEF t
<1>5. \A i \in 1 .. n : t[i] = data[n - i + 1]
  <2> TAKE i \in 1 .. n
  <2>1. WordSize + i \in 1 .. WordSize + n
    BY <1>1
  <2>2. bytes[at + (WordSize + i)] = Framed(data)[WordSize + i]
    BY <1>2, <2>1
  <2> QED  BY <1>1, <1>2, <1>4, <2>2
<1>6. Reverse(t) = data
  <2>1. Reverse(t) = [i \in 1 .. n |-> t[(n - i) + 1]]
    BY <1>4 DEF Reverse
  <2>2. \A i \in 1 .. n : (n - i) + 1 \in 1 .. n /\ n - ((n - i) + 1) + 1 = i
    BY <1>1
  <2>3. \A i \in 1 .. n : t[(n - i) + 1] = data[i]
    BY <1>5, <2>2
  <2>4. data = [i \in 1 .. n |-> data[i]]
    OBVIOUS
  <2> QED  BY <2>1, <2>3, <2>4
<1>7. ~(Len(bytes) < from) /\ ~(n = 0 \/ Len(bytes) < from + n)
  BY <1>1, <1>2
<1>8. Divide(bytes, at) = [data |-> Reverse(t), index |-> from + n]
  BY <1>3, <1>7 DEF Divide, t
<1> QED  BY <1>1, <1>2, <1>6, <1>8

\* Of data that was cut short, be it in its size, divide() gives back nothing.
THEOREM DivideRefusesTorn ==
  ASSUME NEW bytes \in Seq(Byte), NEW at \in Nat, NEW data \in Seq(Byte),
         Len(data) <= MaxSize,
         at <= Len(bytes), Len(bytes) < at + Len(Framed(data)),
         \A i \in 1 .. Len(bytes) - at : bytes[at + i] = Framed(data)[i]
  PROVE  Divide(bytes, at).data = <<>>
<1>1. /\ WordSize \in Nat /\ Len(bytes) \in Nat /\ Len(data) \in 0 .. MaxSize
      /\ Len(Framed(data)) = WordSize + Len(data)
      /\ \A i \in 1 .. WordSize : Framed(data)[i] = Word(Len(data))[i]
  BY WordAssumption, LenProperties, FramedBytes
<1>2. CASE Len(bytes) < at + WordSize
  BY <1>2 DEF Divide
<1>3. CASE Len(bytes) >= at + WordSize
  <2>1. \A i \in 1 .. WordSize : bytes[at + i] = Word(Len(data))[i]
    BY <1>1, <1>3
  <2>2. Size(SubSeq(bytes, at + 1, at + WordSize)) = Len(data)
    BY <1>1, <1>3, <2>1, SizeRead
  <2> QED  BY <1>1, <1>3, <2>2 DEF Divide
<1> QED  BY <1>1, <1>2, <1>3

-----------------------------------------------------------------------------
(* Compression.                                                             *)

\* The blocks lie one behind the other; only the last may be shorter.
LEMMA BlocksAreAdjacent ==
  ASSUME NEW data \in Seq(Byte), data # <<>>, NEW b \in Nat \ {0}
  PROVE  LET blocks == Blocks(data, b)
             count == Len(blocks)
         IN  /\ count \in Nat \ {0}
             /\ blocks \in Seq(Seq(Byte))
             /\ \E bound \in [0 .. count -> 0 .. Len(data)] :
                  /\ bound[0] = 0
                  /\ bound[count] = Len(data)
                  /\ \A k \in 1 .. count :
                       /\ bound[k - 1] < bound[k] /\ bound[k] - bound[k - 1] <= b
                       /\ k < count => bound[k] - bound[k - 1] = b
                       /\ blocks[k] = SubSeq(data, bound[k - 1] + 1, bound[k])
<1> DEFINE n == Len(data)
           q == (n + b - 1) \div b
           Block(k) == SubSeq(data, (k - 1) * b + 1, Min({k * b, n}))
           blocks == Blocks(data, b)
           bound == [k \in 0 .. q |-> IF k = q THEN n ELSE k * b]
<1>1. n \in Nat \ {0}
  BY EmptySeq
<1>2. q \in Nat \ {0} /\ (q - 1) * b < n /\ n <= q * b
  BY <1>1, RoundedUp
<1>3. blocks = [k \in 1 .. q |-> Block(k)]
  BY DEF Blocks
<1> HIDE DEF n, q
<1>4. ASSUME NEW k \in 0 .. q - 1
      PROVE  k * b \in Nat /\ k * b < n
  <2>1. k * b <= (q - 1) * b /\ k * b \in Nat
    BY <1>2, Multiples
  <2>2. (q - 1) * b \in Nat
    BY <1>2
  <2> QED  BY <1>1, <1>2, <2>1, <2>2
<1>5. bound \in [0 .. q -> 0 .. n]
  BY <1>1, <1>2, <1>4
<1>6. bound[0] = 0 /\ bound[q] = n
  <2>1. 0 * b = 0
    OBVIOUS
  <2> QED  BY <1>2, <2>1
<1>7. ASSUME NEW k \in 1 .. q
      PROVE  /\ bound[k - 1] < bound[k] /\ bound[k] - bound[k - 1] <= b
             /\ k < q => bound[k] - bound[k - 1] = b
             /\ Block(k) = SubSeq(data, bound[k - 1] + 1, bound[k])
  <2>1. k - 1 \in 0 .. q - 1 /\ k - 1 # q /\ k \in 0 .. q /\ k - 1 \in 0 .. q
    BY <1>2
  <2>2. bound[k - 1] = (k - 1) * b /\ (k - 1) * b \in Nat /\ (k - 1) * b < n
    BY <1>4, <2>1
  <2>3. (k - 1) * b = k * b - b /\ k * b \in Nat
    OBVIOUS
  <2>4. CASE k = q
    <3>1. bound[k] = n
      BY <2>1, <2>4
    <3>2. n <= k * b
      BY <1>2, <2>4
    <3>3. Min({k * b, n}) = n
      BY <1>1, <2>3, <3>2, MinOfTwo
    <3>4. bound[k - 1] < bound[k] /\ bound[k] - bound[k - 1] <= b
      <4> HIDE DEF bound
      <4> QED  BY <1>1, <2>2, <2>3, <3>1, <3>2
    <3>5. Block(k) = SubSeq(data, bound[k - 1] + 1, bound[k])
      <4> HIDE DEF bound
      <4> QED  BY <2>2, <3>1, <3>3
    <3>6. ~(k < q)
      BY <1>2, <2>4
    <3> HIDE DEF bound, Block
    <3> QED  BY <3>4, <3>5, <3>6
  <2>5. CASE k # q
    <3>1. bound[k] = k * b
      BY <2>1, <2>5
    <3>2. k \in 0 .. q - 1
      BY <1>2, <2>5
    <3>3. k * b < n
      BY <1>4, <3>2
    <3>4. Min({k * b, n}) = k * b
      BY <1>1, <2>3, <3>3, MinOfTwo
    <3>5. bound[k - 1] < bound[k] /\ bound[k] - bound[k - 1] = b
      <4> HIDE DEF bound
      <4> QED  BY <1>1, <2>2, <2>3, <3>1
    <3>6. Block(k) = SubSeq(data, bound[k - 1] + 1, bound[k])
      <4> HIDE DEF bound
      <4> QED  BY <2>2, <3>1, <3>4
    <3> HIDE DEF bound, Block
    <3> QED  BY <1>5, <2>1, <2>2, <2>3, <3>1, <3>5, <3>6
  <2> QED  BY <2>4, <2>5
<1> HIDE DEF bound
<1>8. ASSUME NEW k \in 1 .. q
      PROVE  Block(k) \in Seq(Byte)
  <2>1. bound[k - 1] \in 0 .. n /\ bound[k] \in 0 .. n
    BY <1>2, <1>5
  <2>2. \A i \in bound[k - 1] + 1 .. bound[k] : data[i] \in Byte
    BY <1>1, <2>1, ElementOfSeq DEF n
  <2> HIDE DEF Block
  <2>3. SubSeq(data, bound[k - 1] + 1, bound[k]) \in Seq(Byte)
    BY <1>1, <2>1, <2>2, SubSeqProperties
  <2> QED  BY <1>7, <2>3
<1> HIDE DEF Block
<1>9. blocks \in Seq(Seq(Byte)) /\ Len(blocks) = q
  <2> HIDE DEF blocks
  <2>1. blocks \in [1 .. q -> Seq(Byte)]
    BY <1>3, <1>8
  <2> QED  BY <1>2, <2>1
<1>10. \A k \in 1 .. q : blocks[k] = Block(k)
  BY <1>3
<1> HIDE DEF blocks
<1> QED  BY <1>2, <1>5, <1>6, <1>7, <1>9, <1>10 DEF n, blocks

\* LZ4 and the sizes of one block.
LEMMA BlockLossless ==
  ASSUME LZ4Lossless, NEW b \in BlockBytes, NEW block \in Seq(Byte), Len(block) \in 1 .. b
  PROVE  /\ LZ4(block) \in Seq(Byte) \ {<<>>}
         /\ UnLZ4(LZ4(block)) = block
         /\ \A n \in {Len(block), Len(LZ4(block))} :
              /\ IntWord(n) \in Seq(Byte) /\ Len(IntWord(n)) = IntSize
              /\ IntOf(IntWord(n)) = n
BY DEF LZ4Lossless, Lossless

\* A block with its two sizes.
LEMMA PackedBlock ==
  ASSUME LZ4Lossless,
         NEW b \in BlockBytes, NEW block \in Seq(Byte), Len(block) \in 1 .. b
  PROVE  /\ IntSize \in Nat
         /\ Len(LZ4(block)) \in Nat \ {0}
         /\ Packed(block) \in Seq(Byte) \ {<<>>}
         /\ Len(Packed(block)) = 2 * IntSize + Len(LZ4(block))
<1> DEFINE x == IntWord(Len(block))
           y == IntWord(Len(LZ4(block)))
           z == LZ4(block)
<1>1. /\ x \in Seq(Byte) /\ Len(x) = IntSize
      /\ y \in Seq(Byte) /\ Len(y) = IntSize
      /\ z \in Seq(Byte) /\ z # <<>>
  BY BlockLossless
<1>2. Packed(block) = x \o y \o z
  BY DEF Packed
<1> HIDE DEF x, y, z
<1>3. x \o y \in Seq(Byte) /\ Len(x \o y) = IntSize + IntSize
  BY <1>1, ConcatProperties, ZenonT(60)
<1>4. x \o y \o z \in Seq(Byte) /\ Len(x \o y \o z) = IntSize + IntSize + Len(z)
  BY <1>1, <1>3, ConcatProperties
<1>5. IntSize \in Nat /\ Len(z) \in Nat \ {0}
  BY <1>1, LenProperties, EmptySeq
<1>6. x \o y \o z # <<>>
  BY <1>4, <1>5, EmptySeq
<1> QED  BY <1>2, <1>4, <1>5, <1>6 DEF z

\* What decompression() reads where a block begins.
LEMMA BlockIsRead ==
  ASSUME LZ4Lossless,
         NEW b \in BlockBytes, NEW block \in Seq(Byte), Len(block) \in 1 .. b,
         NEW bytes \in Seq(Byte), NEW at \in Nat, IsAt(Packed(block), bytes, at)
  PROVE  LET size == Len(LZ4(block))
         IN  /\ IntOf(SubSeq(bytes, at + 1, at + IntSize)) = Len(block)
             /\ IntOf(SubSeq(bytes, at + IntSize + 1, at + IntSize + IntSize)) = size
             /\ at + 2 * IntSize + size = at + Len(Packed(block))
             /\ UnLZ4(SubSeq(bytes, at + 2 * IntSize + 1, at + 2 * IntSize + size)) = block
<1> DEFINE x == IntWord(Len(block))
           y == IntWord(Len(LZ4(block)))
           z == LZ4(block)
<1>1. /\ x \in Seq(Byte) /\ Len(x) = IntSize /\ IntOf(x) = Len(block)
      /\ y \in Seq(Byte) /\ Len(y) = IntSize /\ IntOf(y) = Len(LZ4(block))
      /\ z \in Seq(Byte) /\ UnLZ4(z) = block
  BY BlockLossless
<1>2. Packed(block) = x \o y \o z
  BY DEF Packed
<1>3. IntSize \in Nat /\ Len(z) \in Nat /\ Len(Packed(block)) = 2 * IntSize + Len(z)
  BY PackedBlock
<1> HIDE DEF x, y, z
<1>4. x \o y \in Seq(Byte) /\ Len(x \o y) = 2 * IntSize
  <2>1. x \o y \in Seq(Byte) /\ Len(x \o y) = Len(x) + Len(y)
    BY <1>1, ConcatProperties
  <2>2. IntSize + IntSize = 2 * IntSize
    BY <1>3
  <2> QED  BY <1>1, <2>1, <2>2
<1>5. IsAt(x \o y, bytes, at) /\ IsAt(z, bytes, at + 2 * IntSize)
  <2>1. IsAt((x \o y) \o z, bytes, at)
    BY <1>2
  <2> QED  BY <1>1, <1>4, <2>1, PartsOfConcat
<1>6. IsAt(x, bytes, at) /\ IsAt(y, bytes, at + IntSize)
  BY <1>1, <1>5, PartsOfConcat
<1>7. at + IntSize \in Nat /\ at + 2 * IntSize \in Nat
  BY <1>3
<1>8. /\ SubSeq(bytes, at + 1, at + IntSize) = x
      /\ SubSeq(bytes, at + IntSize + 1, at + IntSize + IntSize) = y
      /\ SubSeq(bytes, at + 2 * IntSize + 1, at + 2 * IntSize + Len(z)) = z
  <2>1. SubSeq(bytes, at + 1, at + Len(x)) = x
    BY <1>1, <1>6, SubSeqIsPart
  <2>2. SubSeq(bytes, at + IntSize + 1, at + IntSize + Len(y)) = y
    BY <1>1, <1>6, <1>7, SubSeqIsPart
  <2>3. SubSeq(bytes, at + 2 * IntSize + 1, at + 2 * IntSize + Len(z)) = z
    BY <1>1, <1>5, <1>7, SubSeqIsPart
  <2> QED  BY <1>1, <2>1, <2>2, <2>3
<1>9. at + 2 * IntSize + Len(z) = at + Len(Packed(block))
  BY <1>3
<1> QED  BY <1>1, <1>8, <1>9 DEF y, z

\* One turn of the loop of decompression().
TurnAfter(turn, bytes, block_bytes) ==
  LET IntAt(i) == IntOf(SubSeq(bytes, i + 1, i + IntSize))
      Start(i) == i + 2 * IntSize
      End(i) == Start(i) + IntAt(i + IntSize)
      BlockAt(i) == UnLZ4(SubSeq(bytes, Start(i) + 1, End(i)))
      Ends(i) == \/ i = Len(bytes)
                 \/ IntAt(i) <= 0
                 \/ IntAt(i + IntSize) <= 0
                 \/ Len(BlockAt(i)) > block_bytes
      i == turn.read_index
  IN  IF Ends(i) THEN turn
      ELSE [read_index |-> End(i), data |-> turn.data \o BlockAt(i)]

\* The turns of decompression() exist, and its result is what the last one leaves.
LEMMA DecompressionTurns ==
  ASSUME NEW bytes, Len(bytes) \in Nat, NEW block_bytes
  PROVE  \E turn :
           /\ turn[0] = [read_index |-> 0, data |-> <<>>]
           /\ \A n \in 1 .. Len(bytes) : turn[n] = TurnAfter(turn[n - 1], bytes, block_bytes)
           /\ Decompression(bytes, block_bytes) =
                IF turn[Len(bytes)].data = <<>> THEN Refused ELSE turn[Len(bytes)].data
<1> DEFINE Turns(f, n) == f = [k \in 0 .. n |-> IF k = 0 THEN [read_index |-> 0, data |-> <<>>]
                                               ELSE TurnAfter(f[k - 1], bytes, block_bytes)]
           S == {n \in Nat : \E f : Turns(f, n)}
<1>1. 0 \in S
  <2>1. Turns([k \in 0 .. 0 |-> [read_index |-> 0, data |-> <<>>]], 0)
    OBVIOUS
  <2> HIDE DEF Turns
  <2> QED  BY <2>1
<1>2. ASSUME NEW n \in Nat, n \in S
      PROVE  n + 1 \in S
  <2>1. PICK f : Turns(f, n)
    BY <1>2
  <2> DEFINE g == [k \in 0 .. n + 1 |-> IF k = n + 1 THEN TurnAfter(f[n], bytes, block_bytes) ELSE f[k]]
  <2>2. ASSUME NEW k \in 0 .. n + 1
        PROVE  g[k] = IF k = 0 THEN [read_index |-> 0, data |-> <<>>]
                      ELSE TurnAfter(g[k - 1], bytes, block_bytes)
    <3>1. CASE k = n + 1
      <4>1. k # 0 /\ k - 1 = n /\ n \in 0 .. n + 1 /\ n # n + 1
        BY <3>1
      <4> QED  BY <3>1, <4>1
    <3>2. CASE k # n + 1
      <4>1. k \in 0 .. n /\ (k # 0 => k - 1 \in 0 .. n + 1 /\ k - 1 # n + 1)
        BY <3>2
      <4>2. g[k] = f[k] /\ (k # 0 => g[k - 1] = f[k - 1])
        BY <3>2, <4>1
      <4>3. f[k] = IF k = 0 THEN [read_index |-> 0, data |-> <<>>]
                   ELSE TurnAfter(f[k - 1], bytes, block_bytes)
        BY <2>1, <4>1
      <4> QED  BY <4>2, <4>3
    <3> QED  BY <3>1, <3>2
  <2>3. g = [k \in 0 .. n + 1 |-> g[k]]
    OBVIOUS
  <2> HIDE DEF g
  <2>4. Turns(g, n + 1)
    BY <2>2, <2>3
  <2> HIDE DEF Turns
  <2> QED  BY <2>4
<1> HIDE DEF S
<1>3. \A n \in Nat : n \in S
  BY <1>1, <1>2, NatSetInduction
<1>4. \E f : Turns(f, Len(bytes))
  BY <1>3 DEF S
<1> DEFINE turn == CHOOSE f : Turns(f, Len(bytes))
<1>5. Turns(turn, Len(bytes))
  <2> HIDE DEF Turns
  <2> QED  BY <1>4
<1>6. Decompression(bytes, block_bytes) =
        IF turn[Len(bytes)].data = <<>> THEN Refused ELSE turn[Len(bytes)].data
  BY DEF Decompression, TurnAfter
<1> HIDE DEF turn
<1>7. turn[0] = [read_index |-> 0, data |-> <<>>]
  BY <1>5
<1>8. ASSUME NEW n \in 1 .. Len(bytes)
      PROVE  turn[n] = TurnAfter(turn[n - 1], bytes, block_bytes)
  <2>1. n \in 0 .. Len(bytes) /\ n # 0
    OBVIOUS
  <2> QED  BY <1>5, <2>1
<1> QED  BY <1>6, <1>7, <1>8

\* decompression() gives back what compression() was given, whatever the two sizes of
\* blocks, as long as the blocks of the one fit into those of the other; when they do
\* not it says so, and never gives back a part.
THEOREM DecompressionInvertsCompression ==
  ASSUME LZ4Lossless,
         NEW b \in BlockBytes \ {0}, NEW c \in BlockBytes, NEW data \in Seq(Byte) \ {<<>>}
  PROVE  LET bytes == Compression(data, b)
         IN  /\ bytes \in Seq(Byte) \ {<<>>}
             /\ b <= c \/ Len(data) <= c => Decompression(bytes, c) = data
             /\ ~(b <= c \/ Len(data) <= c) => Decompression(bytes, c) = Refused
<1> DEFINE blocks == Blocks(data, b)
           q == Len(blocks)
           pieces == [k \in DOMAIN blocks |-> Packed(blocks[k])]
           bytes == FlattenSeq(pieces)
           Pos(k) == Len(FlattenSeq(SubSeq(pieces, 1, k)))
<1>1. b \in Nat \ {0} /\ b \in BlockBytes /\ c \in Nat /\ data \in Seq(Byte) /\ data # <<>>
  BY ArchiveAssumption
<1>2. Compression(data, b) = bytes
  BY <1>1 DEF Compression
<1>3. q \in Nat \ {0} /\ blocks \in Seq(Seq(Byte))
  BY <1>1, BlocksAreAdjacent
<1>4. PICK bound \in [0 .. q -> 0 .. Len(data)] :
        /\ bound[0] = 0
        /\ bound[q] = Len(data)
        /\ \A k \in 1 .. q :
             /\ bound[k - 1] < bound[k] /\ bound[k] - bound[k - 1] <= b
             /\ k < q => bound[k] - bound[k - 1] = b
             /\ blocks[k] = SubSeq(data, bound[k - 1] + 1, bound[k])
  BY <1>1, BlocksAreAdjacent
<1>5. DOMAIN blocks = 1 .. q
  BY <1>3
<1> HIDE DEF blocks, q
<1>6. \A k \in 1 .. q : pieces[k] = Packed(blocks[k])
  BY <1>5
<1>7. Len(data) \in Nat /\ \A k \in 0 .. q : bound[k] \in 0 .. Len(data)
  BY <1>1, <1>4, LenProperties
<1>8. ASSUME NEW k \in 1 .. q
      PROVE  /\ blocks[k] \in Seq(Byte)
             /\ Len(blocks[k]) = bound[k] - bound[k - 1]
             /\ Len(blocks[k]) \in 1 .. b
             /\ pieces[k] \in Seq(Byte) \ {<<>>}
  <2>1. k \in 0 .. q /\ k - 1 \in 0 .. q
    BY <1>3
  <2>2. bound[k] \in 0 .. Len(data) /\ bound[k - 1] \in 0 .. Len(data)
    BY <1>7, <2>1
  <2>3. /\ bound[k - 1] < bound[k] /\ bound[k] - bound[k - 1] <= b
        /\ blocks[k] = SubSeq(data, bound[k - 1] + 1, bound[k])
    BY <1>4
  <2>4. \A i \in bound[k - 1] + 1 .. bound[k] : data[i] \in Byte
    BY <1>1, <1>7, <2>2, ElementOfSeq
  <2>5. /\ blocks[k] \in Seq(Byte)
        /\ Len(blocks[k]) = bound[k] - (bound[k - 1] + 1) + 1
    BY <1>7, <2>2, <2>3, <2>4, SubSeqProperties
  <2>6. Len(blocks[k]) = bound[k] - bound[k - 1] /\ Len(blocks[k]) \in 1 .. b
    BY <1>1, <1>7, <2>2, <2>3, <2>5, SMTT(30)
  <2>7. Packed(blocks[k]) \in Seq(Byte) \ {<<>>}
    BY <1>1, <2>5, <2>6, PackedBlock
  <2>8. pieces[k] \in Seq(Byte) \ {<<>>}
    BY <1>6, <2>7
  <2> HIDE DEF pieces
  <2> QED  BY <2>5, <2>6, <2>8
<1>9. pieces \in Seq(Seq(Byte) \ {<<>>}) /\ Len(pieces) = q
  <2>1. pieces \in [1 .. q -> Seq(Byte) \ {<<>>}]
    <3>1. pieces = [k \in 1 .. q |-> pieces[k]]
      BY <1>5
    <3> HIDE DEF pieces
    <3> QED  BY <1>8, <3>1
  <2> HIDE DEF pieces
  <2> QED  BY <1>3, <2>1
<1> HIDE DEF pieces
<1>10. pieces \in Seq(Seq(Byte))
  BY <1>9, SeqMonotonic
<1>11. bytes \in Seq(Byte) /\ Len(bytes) \in Nat /\ q <= Len(bytes) /\ bytes # <<>>
  <2>1. bytes \in Seq(Byte)
    BY <1>10, FlattenType
  <2>2. Len(bytes) >= Len(pieces)
    BY <1>9, FlattenLonger
  <2> HIDE DEF bytes
  <2>3. Len(bytes) \in Nat
    BY <2>1, LenProperties
  <2>4. q <= Len(bytes) /\ Len(bytes) # 0
    BY <1>3, <1>9, <2>2, <2>3
  <2> QED  BY <2>1, <2>3, <2>4, EmptySeq
<1>12. Pos(0) = 0 /\ Pos(q) = Len(bytes)
  <2>1. SubSeq(pieces, 1, 0) = <<>>
    BY <1>9, SubSeqEmpty
  <2>2. SubSeq(pieces, 1, q) = pieces
    BY <1>9, SubSeqFull
  <2> QED  BY <2>1, <2>2, FlattenEmpty, EmptySeq
<1>13. ASSUME NEW k \in 1 .. q
       PROVE  /\ Pos(k - 1) \in Nat
              /\ Pos(k) = Pos(k - 1) + Len(pieces[k])
              /\ Pos(k) <= Len(bytes)
              /\ Pos(k - 1) < Pos(k)
              /\ IsAt(pieces[k], bytes, Pos(k - 1))
  <2>1. /\ Pos(k - 1) \in Nat
        /\ Pos(k) = Pos(k - 1) + Len(pieces[k])
        /\ Pos(k - 1) + Len(pieces[k]) <= Len(bytes)
        /\ \A i \in 1 .. Len(pieces[k]) : bytes[Pos(k - 1) + i] = pieces[k][i]
    <3>1. k \in 1 .. Len(pieces)
      BY <1>9
    <3> QED  BY <1>10, <3>1, FlattenAt, ZenonT(60)
  <2>2. IsAt(pieces[k], bytes, Pos(k - 1))
    <3> HIDE DEF Pos, bytes
    <3> QED  BY <2>1 DEF IsAt
  <2>3. Len(pieces[k]) \in Nat \ {0}
    BY <1>8, EmptySeq, LenProperties
  <2> HIDE DEF Pos, bytes
  <2> QED  BY <2>1, <2>2, <2>3
<1> HIDE DEF Pos, bytes
<1>14. ASSUME NEW k \in 1 .. q, NEW done
       PROVE  TurnAfter([read_index |-> Pos(k - 1), data |-> done], bytes, c) =
                IF Len(blocks[k]) > c THEN [read_index |-> Pos(k - 1), data |-> done]
                ELSE [read_index |-> Pos(k), data |-> done \o blocks[k]]
  <2> DEFINE at == Pos(k - 1)
             size == Len(LZ4(blocks[k]))
  <2>1. IsAt(Packed(blocks[k]), bytes, at) /\ at \in Nat /\ at # Len(bytes)
    BY <1>6, <1>11, <1>13
  <2>2. blocks[k] \in Seq(Byte) /\ Len(blocks[k]) \in 1 .. b
    BY <1>8
  <2>3. /\ IntSize \in Nat
        /\ size \in Nat \ {0}
        /\ Len(Packed(blocks[k])) = 2 * IntSize + size
    BY <1>1, <2>2, PackedBlock
  <2> HIDE DEF at
  <2>4. /\ IntOf(SubSeq(bytes, at + 1, at + IntSize)) = Len(blocks[k])
        /\ IntOf(SubSeq(bytes, at + IntSize + 1, at + IntSize + IntSize)) = size
        /\ UnLZ4(SubSeq(bytes, at + 2 * IntSize + 1, at + 2 * IntSize + size)) = blocks[k]
    BY <1>1, <1>11, <2>1, <2>2, BlockIsRead
  <2>5. at + 2 * IntSize + size = Pos(k)
    <3>1. Pos(k) = at + Len(Packed(blocks[k]))
      BY <1>6, <1>13 DEF at
    <3> HIDE DEF size
    <3> QED  BY <2>1, <2>3, <3>1
  <2>6. ~(Len(blocks[k]) <= 0) /\ ~(size <= 0)
    BY <2>2, <2>3
  <2> HIDE DEF size
  <2>7. TurnAfter([read_index |-> at, data |-> done], bytes, c) =
          IF Len(blocks[k]) > c THEN [read_index |-> at, data |-> done]
          ELSE [read_index |-> at + 2 * IntSize + size, data |-> done \o blocks[k]]
    BY <2>1, <2>4, <2>6 DEF TurnAfter
  <2> QED  BY <2>5, <2>7 DEF at
<1>15. PICK turn :
         /\ turn[0] = [read_index |-> 0, data |-> <<>>]
         /\ \A n \in 1 .. Len(bytes) : turn[n] = TurnAfter(turn[n - 1], bytes, c)
         /\ Decompression(bytes, c) =
              IF turn[Len(bytes)].data = <<>> THEN Refused ELSE turn[Len(bytes)].data
  BY <1>11, DecompressionTurns
<1>16. ASSUME \A k \in 1 .. q : Len(blocks[k]) <= c
       PROVE  Decompression(bytes, c) = data
  <2> DEFINE At(k) == [read_index |-> Pos(k), data |-> SubSeq(data, 1, bound[k])]
             S == {k \in Nat : k <= q => turn[k] = At(k)}
             last == [read_index |-> Len(bytes), data |-> data]
             R == {k \in Nat : q + k <= Len(bytes) => turn[q + k] = last}
  <2>1. 0 \in S
    <3>1. SubSeq(data, 1, 0) = <<>>
      BY <1>1, SubSeqEmpty
    <3> QED  BY <1>4, <1>12, <1>15, <3>1
  <2>2. ASSUME NEW j \in Nat, j \in S
        PROVE  j + 1 \in S
    <3> SUFFICES ASSUME j + 1 <= q
                 PROVE  turn[j + 1] = At(j + 1)
      OBVIOUS
    <3> DEFINE k == j + 1
    <3>1. k \in 1 .. q /\ k - 1 = j /\ j <= q /\ k \in 1 .. Len(bytes)
      BY <1>3, <1>11
    <3> HIDE DEF k
    <3>2. turn[j] = [read_index |-> Pos(k - 1), data |-> SubSeq(data, 1, bound[k - 1])]
      BY <2>2, <3>1
    <3>3. turn[k] = TurnAfter(turn[j], bytes, c)
      BY <1>15, <3>1
    <3>4. ~(Len(blocks[k]) > c)
      BY <1>1, <1>8, <1>16, <3>1
    <3>5. turn[k] = [read_index |-> Pos(k), data |-> SubSeq(data, 1, bound[k - 1]) \o blocks[k]]
      BY <1>14, <3>1, <3>2, <3>3, <3>4
    <3>6. SubSeq(data, 1, bound[k - 1]) \o blocks[k] = SubSeq(data, 1, bound[k])
      <4>1. k \in 0 .. q /\ k - 1 \in 0 .. q
        BY <1>3, <3>1
      <4>2. bound[k] \in 0 .. Len(data) /\ bound[k - 1] \in 0 .. Len(data) /\ bound[k - 1] < bound[k]
        BY <1>4, <1>7, <3>1, <4>1
      <4>3. blocks[k] = SubSeq(data, bound[k - 1] + 1, bound[k])
        BY <1>4, <3>1
      <4> DEFINE m == bound[k - 1]
                 n == bound[k]
      <4>4. /\ m \in 0 .. n /\ n \in 0 .. Len(data)
        BY <1>7, <4>2
      <4> HIDE DEF m, n
      <4>5. SubSeq(data, 1, m) \o SubSeq(data, m + 1, n) = SubSeq(data, 1, n)
        BY <1>1, <1>7, <4>4, ConcatAdjacentSubSeq
      <4> QED  BY <4>3, <4>5 DEF m, n
    <3> QED  BY <3>5, <3>6 DEF k
  <2> HIDE DEF S
  <2>3. \A k \in Nat : k \in S
    BY <2>1, <2>2, NatSetInduction
  <2>4. turn[q] = last
    <3>1. turn[q] = At(q)
      BY <1>3, <2>3 DEF S
    <3>2. SubSeq(data, 1, bound[q]) = data
      BY <1>1, <1>4, SubSeqFull
    <3> QED  BY <1>12, <3>1, <3>2
  <2>5. 0 \in R
    <3>1. q + 0 = q
      BY <1>3
    <3> HIDE DEF last
    <3> QED  BY <2>4, <3>1
  <2>6. ASSUME NEW j \in Nat, j \in R
        PROVE  j + 1 \in R
    <3> SUFFICES ASSUME q + (j + 1) <= Len(bytes)
                 PROVE  turn[q + (j + 1)] = last
      OBVIOUS
    <3> DEFINE k == q + (j + 1)
    <3>1. k \in 1 .. Len(bytes) /\ k - 1 = q + j /\ q + j <= Len(bytes)
      BY <1>3, <1>11
    <3> HIDE DEF k
    <3>2. turn[k] = TurnAfter(last, bytes, c)
      <4> HIDE DEF last
      <4>1. turn[k - 1] = last
        BY <2>6, <3>1
      <4> QED  BY <1>15, <3>1, <4>1
    <3>3. TurnAfter(last, bytes, c) = last
      BY DEF TurnAfter
    <3> HIDE DEF last
    <3> QED  BY <3>2, <3>3 DEF k
  <2> HIDE DEF R
  <2>7. Len(bytes) - q \in R
    <3>1. \A k \in Nat : k \in R
      BY <2>5, <2>6, NatSetInduction
    <3>2. Len(bytes) - q \in Nat
      BY <1>3, <1>11
    <3> QED  BY <3>1, <3>2
  <2>8. turn[Len(bytes)] = last
    <3>1. q + (Len(bytes) - q) = Len(bytes) /\ Len(bytes) <= Len(bytes)
      BY <1>3, <1>11
    <3> HIDE DEF last
    <3> QED  BY <2>7, <3>1 DEF R
  <2>9. turn[Len(bytes)].data = data
    BY <2>8
  <2> QED  BY <1>1, <1>15, <2>9
<1>17. ASSUME Len(blocks[1]) > c
       PROVE  Decompression(bytes, c) = Refused
  <2> DEFINE start == [read_index |-> 0, data |-> <<>>]
             S == {k \in Nat : k <= Len(bytes) => turn[k] = start}
  <2>1. TurnAfter(start, bytes, c) = start
    <3>1. 1 \in 1 .. q /\ 1 - 1 = 0
      BY <1>3
    <3> QED  BY <1>12, <1>14, <1>17, <3>1
  <2> HIDE DEF start
  <2>2. 0 \in S
    BY <1>15 DEF start
  <2>3. ASSUME NEW j \in Nat, j \in S
        PROVE  j + 1 \in S
    <3> SUFFICES ASSUME j + 1 <= Len(bytes)
                 PROVE  turn[j + 1] = start
      OBVIOUS
    <3>1. j + 1 \in 1 .. Len(bytes) /\ (j + 1) - 1 = j /\ j <= Len(bytes)
      BY <1>11
    <3> QED  BY <1>15, <2>1, <2>3, <3>1
  <2> HIDE DEF S
  <2>4. \A k \in Nat : k \in S
    BY <2>2, <2>3, NatSetInduction
  <2>5. turn[Len(bytes)] = start
    BY <1>11, <2>4 DEF S
  <2> QED  BY <1>15, <2>5 DEF start
<1>18. ASSUME b <= c \/ Len(data) <= c
       PROVE  \A k \in 1 .. q : Len(blocks[k]) <= c
  <2> TAKE k \in 1 .. q
  <2>1. k \in 0 .. q /\ k - 1 \in 0 .. q
    BY <1>3
  <2>2. bound[k] \in 0 .. Len(data) /\ bound[k - 1] \in 0 .. Len(data)
    BY <1>7, <2>1
  <2>3. Len(blocks[k]) = bound[k] - bound[k - 1] /\ Len(blocks[k]) \in 1 .. b
    BY <1>8
  <2> QED  BY <1>1, <1>7, <1>18, <2>2, <2>3
<1>19. ASSUME ~(b <= c \/ Len(data) <= c)
       PROVE  Len(blocks[1]) > c
  <2>1. 1 \in 1 .. q /\ 1 - 1 = 0 /\ 1 \in 0 .. q
    BY <1>3
  <2>2. Len(blocks[1]) = bound[1]
    <3>1. Len(blocks[1]) = bound[1] - bound[1 - 1]
      BY <1>8, <2>1
    <3>2. bound[1] \in Nat
      BY <1>7, <2>1
    <3> QED  BY <1>4, <2>1, <3>1, <3>2
  <2>3. CASE q = 1
    BY <1>1, <1>4, <1>7, <1>19, <2>2, <2>3
  <2>4. CASE q # 1
    <3>1. 1 < q
      BY <1>3, <2>4
    <3>2. bound[1] - bound[1 - 1] = b
      BY <1>4, <2>1, <3>1
    <3>3. bound[1] = b
      BY <1>4, <1>7, <2>1, <3>2
    <3> QED  BY <1>1, <1>19, <2>2, <3>3, <1>7
  <2> QED  BY <2>3, <2>4
<1> QED  BY <1>2, <1>11, <1>16, <1>17, <1>18, <1>19

-----------------------------------------------------------------------------
(* What an archive holds: each entry as compression() appends it.          *)

\* The name and the content of a file, and both as one entry.
Plain(entry) == Framed(entry[1]) \o Framed(entry[2])

Frame(entry) == Framed(Plain(entry))

Frames(entries) == [k \in DOMAIN entries |-> Frame(entries[k])]

\* The bytes of an archive of these files.
Image(entries) == FlattenSeq(Frames(entries))

\* The sizes of an entry are within what a size_t of the model holds.
LEMMA EntryBytes ==
  ASSUME NEW entry \in Name \X Content
  PROVE  /\ entry[1] \in Seq(Byte) /\ entry[1] # <<>> /\ Len(entry[1]) <= MaxSize
         /\ entry[2] \in Seq(Byte) /\ Len(entry[2]) <= MaxSize
         /\ Framed(entry[1]) \in Seq(Byte) /\ Framed(entry[2]) \in Seq(Byte)
         /\ Plain(entry) \in Seq(Byte) /\ Plain(entry) # <<>> /\ Len(Plain(entry)) <= MaxSize
         /\ Len(Plain(entry)) = Len(Framed(entry[1])) + Len(Framed(entry[2]))
         /\ Frame(entry) \in Seq(Byte) /\ Frame(entry) # <<>>
         /\ Len(Frame(entry)) = WordSize + Len(Plain(entry))
<1> DEFINE name == entry[1]
           data == entry[2]
<1>1. name \in Name /\ data \in Content
  OBVIOUS
<1>2. name \in Seq(Byte) /\ name # <<>> /\ data \in Seq(Byte)
  BY <1>1, ArchiveAssumption
<1>3. Len(name) + Len(data) + 2 * WordSize <= MaxSize
  BY <1>1, ArchiveAssumption
<1> HIDE DEF name, data
<1>4. Len(name) \in Nat /\ Len(data) \in Nat /\ WordSize \in Nat \ {0} /\ MaxSize \in Nat
  BY <1>2, LenProperties, WordAssumption
<1>5. Len(name) <= MaxSize /\ Len(data) <= MaxSize
  BY <1>3, <1>4
<1>6. /\ Framed(name) \in Seq(Byte) /\ Len(Framed(name)) = WordSize + Len(name)
      /\ Framed(data) \in Seq(Byte) /\ Len(Framed(data)) = WordSize + Len(data)
  BY <1>2, <1>5, FramedBytes
<1> DEFINE plain == Framed(name) \o Framed(data)
<1>7. plain \in Seq(Byte) /\ Len(plain) = Len(Framed(name)) + Len(Framed(data))
  BY <1>6, ConcatProperties
<1> HIDE DEF plain
<1>8. Len(plain) <= MaxSize /\ Len(plain) \in Nat \ {0}
  BY <1>3, <1>4, <1>6, <1>7
<1>9. Framed(plain) \in Seq(Byte) /\ Len(Framed(plain)) = WordSize + Len(plain)
  BY <1>7, <1>8, FramedBytes
<1>10. plain # <<>> /\ Framed(plain) # <<>>
  BY <1>4, <1>7, <1>8, <1>9, EmptySeq
<1>11. Plain(entry) = plain /\ Frame(entry) = Framed(plain)
  BY DEF Plain, Frame, plain, name, data
<1> QED  BY <1>2, <1>5, <1>6, <1>7, <1>8, <1>9, <1>10, <1>11 DEF name, data

\* decompression() takes an entry apart into the name and the content.
LEMMA EntryParts ==
  ASSUME NEW entry \in Name \X Content
  PROVE  /\ Divide(Plain(entry), 0).data = entry[1]
         /\ Divide(Plain(entry), Divide(Plain(entry), 0).index).data = entry[2]
<1> DEFINE name == entry[1]
           data == entry[2]
           plain == Plain(entry)
           at == Len(Framed(name))
<1>1. /\ name \in Seq(Byte) /\ name # <<>> /\ Len(name) <= MaxSize
      /\ data \in Seq(Byte) /\ Len(data) <= MaxSize
      /\ Framed(name) \in Seq(Byte) /\ Framed(data) \in Seq(Byte)
      /\ plain \in Seq(Byte)
      /\ Len(plain) = at + Len(Framed(data))
  BY EntryBytes
<1>2. plain = Framed(name) \o Framed(data)
  BY DEF Plain
<1> HIDE DEF name, data, plain
<1>3. at \in Nat /\ Len(plain) \in Nat
  BY <1>1, LenProperties
<1>4. IsAt(Framed(name), plain, 0) /\ IsAt(Framed(data), plain, at)
  <2>1. IsAt(plain, plain, 0)
    BY <1>3 DEF IsAt
  <2>2. IsAt(Framed(name), plain, 0) /\ IsAt(Framed(data), plain, 0 + at)
    BY <1>1, <1>2, <2>1, PartsOfConcat
  <2>3. 0 + at = at
    BY <1>3
  <2> QED  BY <2>2, <2>3
<1>5. Divide(plain, 0) = [data |-> name, index |-> at]
  <2>1. Divide(plain, 0) = [data |-> name, index |-> 0 + at]
    BY <1>1, <1>4, DivideInvertsAppend DEF IsAt
  <2> HIDE DEF at
  <2> QED  BY <1>3, <2>1
<1>6. Divide(plain, at).data = data
  <2>1. CASE data # <<>>
    <3>1. Divide(plain, at) = [data |-> data, index |-> at + Len(Framed(data))]
      BY <1>1, <1>3, <1>4, <2>1, DivideInvertsAppend DEF IsAt
    <3> QED  BY <3>1
  <2>2. CASE data = <<>>
    <3>1. /\ Len(data) = 0 /\ Len(Framed(data)) = WordSize + Len(data)
          /\ \A i \in 1 .. WordSize : Framed(data)[i] = Word(Len(data))[i]
      BY <1>1, <2>2, EmptySeq, FramedBytes
    <3>2. WordSize \in Nat /\ 0 \in 0 .. MaxSize
      BY WordAssumption
    <3> HIDE DEF at
    <3>3. /\ at + WordSize <= Len(plain)
          /\ \A i \in 1 .. WordSize : plain[at + i] = Word(0)[i]
      <4>1. Len(Framed(data)) = WordSize
        BY <3>1, <3>2
      <4> QED  BY <1>4, <3>1, <4>1 DEF IsAt
    <3>4. Size(SubSeq(plain, at + 1, at + WordSize)) = 0
      BY <1>1, <1>3, <3>2, <3>3, SizeRead
    <3> QED  BY <2>2, <3>4 DEF Divide
  <2> QED  BY <2>1, <2>2
<1> QED  BY <1>5, <1>6 DEF name, data, plain

\* Frames() is a sequence of as many.
LEMMA FramesType ==
  ASSUME NEW entries \in Seq(Name \X Content)
  PROVE  /\ Frames(entries) \in Seq(Seq(Byte)) /\ Len(Frames(entries)) = Len(entries)
         /\ \A k \in 1 .. Len(entries) : Frames(entries)[k] = Frame(entries[k])
         /\ Image(entries) \in Seq(Byte)
<1> DEFINE n == Len(entries)
           f == Frames(entries)
<1>1. n \in Nat /\ DOMAIN entries = 1 .. n /\ \A k \in 1 .. n : entries[k] \in Name \X Content
  BY LenProperties, ElementOfSeq
<1> HIDE DEF n
<1>2. \A k \in 1 .. n : Frame(entries[k]) \in Seq(Byte)
  BY <1>1, EntryBytes
<1>3. f = [k \in 1 .. n |-> Frame(entries[k])]
  BY <1>1 DEF Frames
<1>4. f \in [1 .. n -> Seq(Byte)]
  BY <1>2, <1>3
<1> HIDE DEF f
<1>5. f \in Seq(Seq(Byte)) /\ Len(f) = n
  BY <1>1, <1>4
<1>6. FlattenSeq(f) \in Seq(Byte)
  BY <1>5, FlattenType
<1> QED  BY <1>3, <1>5, <1>6 DEF f, n, Image

\* An archive of no files is empty.
LEMMA ImageEmpty == Image(<<>>) = <<>>
<1>1. Frames(<<>>) \in Seq(Seq(Byte)) /\ Len(Frames(<<>>)) = 0
  BY FramesType, EmptySeq
<1>2. Frames(<<>>) = <<>>
  BY <1>1, EmptySeq
<1> QED  BY <1>2, FlattenEmpty DEF Image

\* The archive of the first files.
LEMMA ImageStep ==
  ASSUME NEW entries \in Seq(Name \X Content), NEW k \in 1 .. Len(entries)
  PROVE  LET at == Len(Image(SubSeq(entries, 1, k - 1)))
             upto == Len(Image(SubSeq(entries, 1, k)))
         IN  /\ at \in Nat /\ upto \in Nat
             /\ upto = at + Len(Frame(entries[k]))
             /\ upto <= Len(Image(entries))
             /\ IsAt(Frame(entries[k]), Image(entries), at)
             /\ Image(SubSeq(entries, 1, k)) = Image(SubSeq(entries, 1, k - 1)) \o Frame(entries[k])
<1> DEFINE n == Len(entries)
           frames == Frames(entries)
<1>1. n \in Nat /\ k \in Nat /\ k \in 1 .. n
  BY LenProperties
<1>2. frames \in Seq(Seq(Byte)) /\ Len(frames) = n /\ \A i \in 1 .. n : frames[i] = Frame(entries[i])
  BY FramesType
<1> HIDE DEF n, frames
<1>3. ASSUME NEW m \in 0 .. n
      PROVE  Frames(SubSeq(entries, 1, m)) = SubSeq(frames, 1, m)
  <2> DEFINE first == SubSeq(entries, 1, m)
             f == Frames(first)
             g == SubSeq(frames, 1, m)
  <2>1. \A i \in 1 .. m : entries[i] \in Name \X Content /\ frames[i] \in Seq(Byte)
    BY <1>1, <1>2, ElementOfSeq DEF n
  <2>2. /\ first \in Seq(Name \X Content) /\ Len(first) = m
        /\ \A i \in 1 .. m : first[i] = entries[i]
    BY <1>1, <2>1, FirstElements DEF n
  <2>3. /\ g \in Seq(Seq(Byte)) /\ Len(g) = m
        /\ \A i \in 1 .. m : g[i] = frames[i]
    BY <1>1, <1>2, <2>1, FirstElements
  <2> HIDE DEF first, g
  <2>4. f \in Seq(Seq(Byte)) /\ Len(f) = m /\ \A i \in 1 .. m : f[i] = Frame(first[i])
    BY <2>2, FramesType
  <2> HIDE DEF f
  <2>5. ASSUME NEW i \in 1 .. m
        PROVE  f[i] = g[i]
    <3>1. i \in 1 .. n
      BY <1>1
    <3>2. f[i] = Frame(entries[i])
      BY <2>2, <2>4
    <3>3. g[i] = Frame(entries[i])
      BY <1>2, <2>3, <3>1
    <3> QED  BY <3>2, <3>3
  <2>6. f = g
    BY <2>3, <2>4, <2>5, SeqEqual
  <2> QED  BY <2>6 DEF f, g, first
<1>4. /\ Frames(SubSeq(entries, 1, k)) = SubSeq(frames, 1, k)
      /\ Frames(SubSeq(entries, 1, k - 1)) = SubSeq(frames, 1, k - 1)
  <2>1. k \in 0 .. n /\ k - 1 \in 0 .. n
    BY <1>1
  <2> QED  BY <1>3, <2>1
<1>5. k \in 1 .. Len(frames) /\ frames[k] = Frame(entries[k])
  BY <1>1, <1>2
<1>6. FlattenSeq(SubSeq(frames, 1, k)) = FlattenSeq(SubSeq(frames, 1, k - 1)) \o frames[k]
  BY <1>2, <1>5, FlattenStep
<1> DEFINE at == Len(FlattenSeq(SubSeq(frames, 1, k - 1)))
           upto == Len(FlattenSeq(SubSeq(frames, 1, k)))
<1>7. /\ at \in Nat
      /\ upto = at + Len(frames[k])
      /\ at + Len(frames[k]) <= Len(FlattenSeq(frames))
      /\ \A i \in 1 .. Len(frames[k]) : FlattenSeq(frames)[at + i] = frames[k][i]
  BY <1>2, <1>5, FlattenAt
<1>8. Len(frames[k]) \in Nat
  BY <1>2, <1>5, ElementOfSeq, LenProperties
<1> HIDE DEF at, upto
<1>9. upto \in Nat /\ upto <= Len(FlattenSeq(frames)) /\ IsAt(frames[k], FlattenSeq(frames), at)
  BY <1>7, <1>8 DEF IsAt
<1>10. /\ Image(SubSeq(entries, 1, k)) = FlattenSeq(SubSeq(frames, 1, k))
       /\ Image(SubSeq(entries, 1, k - 1)) = FlattenSeq(SubSeq(frames, 1, k - 1))
       /\ Image(entries) = FlattenSeq(frames)
  BY <1>4 DEF Image, frames
<1> QED  BY <1>5, <1>6, <1>7, <1>9, <1>10 DEF at, upto

\* A last file comes behind the others.
LEMMA ImageAppend ==
  ASSUME NEW entries \in Seq(Name \X Content), NEW entry \in Name \X Content
  PROVE  Image(Append(entries, entry)) = Image(entries) \o Frame(entry)
<1> DEFINE n == Len(entries)
           more == Append(entries, entry)
<1>1. /\ n \in Nat
      /\ more \in Seq(Name \X Content) /\ Len(more) = n + 1
      /\ more[n + 1] = entry
      /\ \A i \in 1 .. n : more[i] = entries[i]
  BY AppendProperties, LenProperties
<1> HIDE DEF more
<1>2. SubSeq(more, 1, n + 1) = more
  BY <1>1, SubSeqFull
<1>3. SubSeq(more, 1, n) = entries
  <2>1. \A i \in 1 .. n : more[i] \in Name \X Content
    BY <1>1, ElementOfSeq
  <2>2. /\ SubSeq(more, 1, n) \in Seq(Name \X Content) /\ Len(SubSeq(more, 1, n)) = n
        /\ \A i \in 1 .. n : SubSeq(more, 1, n)[i] = more[i]
    BY <1>1, <2>1, FirstElements
  <2> QED  BY <1>1, <2>2, SeqEqual
<1>4. n + 1 \in 1 .. Len(more) /\ (n + 1) - 1 = n
  BY <1>1
<1>5. Image(SubSeq(more, 1, n + 1)) = Image(SubSeq(more, 1, (n + 1) - 1)) \o Frame(more[n + 1])
  BY <1>1, <1>4, ImageStep
<1> QED  BY <1>1, <1>2, <1>3, <1>4, <1>5 DEF more

-----------------------------------------------------------------------------
(* What decompression() finds in an archive that ends anywhere.            *)

\* Behind the first k entries of an archive that ends after n bytes divide() gives
\* back the next entry when all of it is there, and else nothing.
LEMMA EntryRead ==
  ASSUME NEW entries \in Seq(Name \X Content), NEW n \in 0 .. Len(Image(entries)),
         NEW k \in 0 .. Len(entries), Len(Image(SubSeq(entries, 1, k))) <= n
  PROVE  LET bytes == SubSeq(Image(entries), 1, n)
             at == Len(Image(SubSeq(entries, 1, k)))
             next == Len(Image(SubSeq(entries, 1, k + 1)))
         IN  IF k < Len(entries) /\ next <= n
             THEN Divide(bytes, at) = [data |-> Plain(entries[k + 1]), index |-> next]
             ELSE Divide(bytes, at).data = <<>>
<1> DEFINE image == Image(entries)
           bytes == SubSeq(image, 1, n)
           at == Len(Image(SubSeq(entries, 1, k)))
           next == Len(Image(SubSeq(entries, 1, k + 1)))
<1>1. image \in Seq(Byte) /\ Len(image) \in Nat /\ Len(entries) \in Nat /\ WordSize \in Nat \ {0}
  BY FramesType, LenProperties, WordAssumption
<1>2. /\ bytes \in Seq(Byte) /\ Len(bytes) = n
      /\ \A i \in 1 .. n : bytes[i] = image[i]
      /\ n \in Nat /\ n <= Len(image)
  BY <1>1, FirstElements
<1>3. CASE k = Len(entries)
  <2>1. SubSeq(entries, 1, k) = entries
    BY <1>3, SubSeqFull
  <2>2. at = Len(image)
    BY <2>1
  <2>3. Len(bytes) < at + WordSize
    <3> HIDE DEF bytes, at, image
    <3> QED  BY <1>1, <1>2, <2>2
  <2>4. Divide(bytes, at).data = <<>>
    <3> HIDE DEF bytes, at
    <3> QED  BY <2>3 DEF Divide
  <2>5. ~(k < Len(entries))
    BY <1>1, <1>3
  <2> HIDE DEF bytes, at, next, image
  <2> QED  BY <2>4, <2>5 DEF bytes, at, image
<1>4. CASE k # Len(entries)
  <2> DEFINE j == k + 1
             plain == Plain(entries[j])
  <2>1. j \in 1 .. Len(entries) /\ j - 1 = k /\ k < Len(entries)
    BY <1>1, <1>4
  <2>2. entries[j] \in Name \X Content
    BY <1>1, <2>1, ElementOfSeq
  <2>3. plain \in Seq(Byte) /\ plain # <<>> /\ Len(plain) <= MaxSize
    BY <2>2, EntryBytes
  <2> DEFINE framed == Framed(plain)
  <2>4. framed = Frame(entries[j])
    BY DEF Frame
  <2>5. /\ at \in Nat /\ next \in Nat /\ next = at + Len(framed) /\ next <= Len(image)
        /\ IsAt(framed, image, at)
    <3> HIDE DEF framed, j
    <3>1. LET at1 == Len(Image(SubSeq(entries, 1, j - 1)))
              upto == Len(Image(SubSeq(entries, 1, j)))
          IN  /\ at1 \in Nat /\ upto \in Nat
              /\ upto = at1 + Len(Frame(entries[j]))
              /\ upto <= Len(Image(entries))
              /\ IsAt(Frame(entries[j]), Image(entries), at1)
      BY <2>1, ImageStep
    <3> QED  BY <2>1, <2>4, <3>1 DEF j
  <2> HIDE DEF at, next, bytes, image, j, plain
  <2>6. \A i \in 1 .. Len(framed) : image[at + i] = framed[i]
    BY <2>5 DEF IsAt
  <2>7. at <= n
    BY DEF at
  <2>8. Len(framed) \in Nat
    <3>1. framed \in Seq(Byte)
      BY <2>2, <2>4, EntryBytes
    <3> HIDE DEF framed
    <3> QED  BY <3>1, LenProperties
  <2>9. CASE next <= n
    <3>1. at + Len(framed) <= Len(bytes)
      <4> HIDE DEF framed
      <4> QED  BY <1>2, <2>5, <2>9
    <3>2. ASSUME NEW i \in 1 .. Len(framed)
          PROVE  bytes[at + i] = framed[i]
      <4> HIDE DEF framed
      <4>1. at + i \in 1 .. n
        BY <1>1, <1>2, <2>5, <2>8, <2>9
      <4>2. bytes[at + i] = image[at + i]
        BY <1>2, <4>1
      <4> QED  BY <2>6, <4>2
    <3>3. Divide(bytes, at) = [data |-> plain, index |-> at + Len(framed)]
      BY <1>2, <2>3, <2>5, <3>1, <3>2, DivideInvertsAppend
    <3> HIDE DEF framed
    <3> QED  BY <2>1, <2>5, <2>9, <3>3 DEF at, next, bytes, image, j, plain
  <2>10. CASE ~(next <= n)
    <3>1. at <= Len(bytes) /\ Len(bytes) < at + Len(framed)
      <4> HIDE DEF framed
      <4> QED  BY <1>1, <1>2, <2>5, <2>7, <2>10
    <3>2. ASSUME NEW i \in 1 .. Len(bytes) - at
          PROVE  bytes[at + i] = framed[i]
      <4> HIDE DEF framed
      <4>1. at + i \in 1 .. n /\ i \in 1 .. Len(framed)
        BY <1>1, <1>2, <2>5, <2>8, <2>10
      <4>2. bytes[at + i] = image[at + i]
        BY <1>2, <4>1
      <4> QED  BY <2>6, <4>1, <4>2
    <3>3. Divide(bytes, at).data = <<>>
      BY <1>2, <2>3, <2>5, <3>1, <3>2, DivideRefusesTorn
    <3> QED  BY <2>10, <3>3 DEF at, next, bytes, image
  <2> QED  BY <2>9, <2>10
<1> QED  BY <1>3, <1>4

-----------------------------------------------------------------------------
(* Beginnings of a sequence: CutOf(bytes, of, all), where all says that    *)
(* nothing is missing at its end.                                          *)

CutOf(bytes, of, all) ==
  \E n \in 0 .. Len(of) : bytes = SubSeq(of, 1, n) /\ (all => n = Len(of))

\* It has nothing but bytes of it, and when all is there, all of them.
LEMMA CutBytes ==
  ASSUME NEW of \in Seq(Byte), NEW all, NEW bytes, CutOf(bytes, of, all)
  PROVE  /\ bytes \in Seq(Byte)
         /\ Len(bytes) \in 0 .. Len(of) /\ bytes = SubSeq(of, 1, Len(bytes))
         /\ all => Len(bytes) = Len(of)
         /\ all => bytes = of
<1>1. PICK n \in 0 .. Len(of) : bytes = SubSeq(of, 1, n) /\ (all => n = Len(of))
  BY DEF CutOf
<1>2. bytes \in Seq(Byte) /\ Len(bytes) = n
  BY <1>1, FirstElements
<1>3. SubSeq(of, 1, Len(of)) = of
  BY SubSeqFull
<1> QED  BY <1>1, <1>2, <1>3

\* A beginning of a beginning is one.
LEMMA CutAgain ==
  ASSUME NEW of \in Seq(Byte), NEW all, NEW bytes, CutOf(bytes, of, all),
         NEW n \in 0 .. Len(bytes)
  PROVE  /\ CutOf(SubSeq(bytes, 1, n), of, FALSE)
         /\ n = Len(bytes) => CutOf(SubSeq(bytes, 1, n), of, all)
<1> DEFINE m == Len(bytes)
<1>1. bytes \in Seq(Byte) /\ m \in 0 .. Len(of) /\ bytes = SubSeq(of, 1, m)
  BY CutBytes
<1>2. m \in Nat /\ Len(of) \in Nat /\ n \in 0 .. m
  BY LenProperties, <1>1
<1> HIDE DEF m
<1>3. /\ SubSeq(bytes, 1, n) \in Seq(Byte) /\ Len(SubSeq(bytes, 1, n)) = n
      /\ \A i \in 1 .. n : SubSeq(bytes, 1, n)[i] = bytes[i]
  BY <1>1, <1>2, FirstElements DEF m
<1>4. \A i \in 1 .. m : bytes[i] = of[i]
  <2>1. \A i \in 1 .. m : SubSeq(of, 1, m)[i] = of[i]
    BY <1>1, FirstElements
  <2> QED  BY <1>1, <2>1
<1>5. n \in 0 .. Len(of)
  BY <1>1, <1>2
<1>6. /\ SubSeq(of, 1, n) \in Seq(Byte) /\ Len(SubSeq(of, 1, n)) = n
      /\ \A i \in 1 .. n : SubSeq(of, 1, n)[i] = of[i]
  BY <1>5, FirstElements
<1>7. SubSeq(bytes, 1, n) = SubSeq(of, 1, n)
  <2>1. \A i \in 1 .. n : SubSeq(bytes, 1, n)[i] = SubSeq(of, 1, n)[i]
    BY <1>2, <1>3, <1>4, <1>6
  <2> QED  BY <1>3, <1>6, <2>1, SeqEqual
<1>8. CutOf(SubSeq(bytes, 1, n), of, FALSE)
  BY <1>5, <1>7 DEF CutOf
<1>9. SubSeq(bytes, 1, m) = bytes
  BY <1>1, SubSeqFull DEF m
<1> QED  BY <1>8, <1>9 DEF m

\* A beginning of what is followed by more.
LEMMA CutOfLonger ==
  ASSUME NEW of \in Seq(Byte), NEW more \in Seq(Byte), NEW all, NEW bytes, CutOf(bytes, of, all)
  PROVE  CutOf(bytes, of \o more, FALSE)
<1> DEFINE m == Len(bytes)
           longer == of \o more
<1>1. bytes \in Seq(Byte) /\ m \in 0 .. Len(of) /\ bytes = SubSeq(of, 1, m)
  BY CutBytes
<1>2. /\ longer \in Seq(Byte) /\ Len(longer) = Len(of) + Len(more)
      /\ \A i \in 1 .. Len(of) + Len(more) : longer[i] = IF i <= Len(of) THEN of[i] ELSE more[i - Len(of)]
      /\ Len(of) \in Nat /\ Len(more) \in Nat
  BY ConcatProperties, LenProperties
<1>3. \A i \in 1 .. m : bytes[i] = of[i]
  <2>1. \A i \in 1 .. m : SubSeq(of, 1, m)[i] = of[i]
    BY <1>1, FirstElements
  <2> QED  BY <1>1, <2>1
<1> HIDE DEF longer
<1>4. m \in 0 .. Len(longer) /\ m \in Nat
  BY <1>1, <1>2
<1>5. /\ SubSeq(longer, 1, m) \in Seq(Byte) /\ Len(SubSeq(longer, 1, m)) = m
      /\ \A i \in 1 .. m : SubSeq(longer, 1, m)[i] = longer[i]
  BY <1>2, <1>4, FirstElements
<1>6. ASSUME NEW i \in 1 .. m
      PROVE  SubSeq(longer, 1, m)[i] = bytes[i]
  <2>1. i \in 1 .. Len(of) + Len(more) /\ i <= Len(of)
    BY <1>1, <1>2
  <2>2. longer[i] = of[i]
    BY <1>2, <2>1
  <2> QED  BY <1>3, <1>5, <2>2
<1>7. SubSeq(longer, 1, m) = bytes
  BY <1>1, <1>5, <1>6, SeqEqual
<1> QED  BY <1>4, <1>7 DEF CutOf, longer

\* All of it, and a beginning of what follows.
LEMMA CutBehind ==
  ASSUME NEW of \in Seq(Byte), NEW more \in Seq(Byte), NEW n \in 0 .. Len(more)
  PROVE  CutOf(of \o SubSeq(more, 1, n), of \o more, n = Len(more))
<1> DEFINE m == Len(of) + n
           longer == of \o more
           part == of \o SubSeq(more, 1, n)
<1>1. Len(of) \in Nat /\ Len(more) \in Nat /\ n \in Nat /\ n <= Len(more) /\ m \in Nat
  BY LenProperties
<1>2. /\ SubSeq(more, 1, n) \in Seq(Byte) /\ Len(SubSeq(more, 1, n)) = n
      /\ \A i \in 1 .. n : SubSeq(more, 1, n)[i] = more[i]
  BY FirstElements
<1>3. /\ longer \in Seq(Byte) /\ Len(longer) = Len(of) + Len(more)
      /\ \A i \in 1 .. Len(of) + Len(more) : longer[i] = IF i <= Len(of) THEN of[i] ELSE more[i - Len(of)]
  BY ConcatProperties
<1>4. /\ part \in Seq(Byte) /\ Len(part) = m
      /\ \A i \in 1 .. m : part[i] = IF i <= Len(of) THEN of[i] ELSE SubSeq(more, 1, n)[i - Len(of)]
  BY <1>2, ConcatProperties
<1> HIDE DEF longer, part
<1>5. m \in 0 .. Len(longer) /\ (n = Len(more) => m = Len(longer))
  <2>1. Len(longer) \in Nat /\ m <= Len(longer)
    BY <1>1, <1>3
  <2>2. n = Len(more) => m = Len(longer)
    BY <1>3
  <2> HIDE DEF m
  <2> QED  BY <1>1, <2>1, <2>2
<1>6. /\ SubSeq(longer, 1, m) \in Seq(Byte) /\ Len(SubSeq(longer, 1, m)) = m
      /\ \A i \in 1 .. m : SubSeq(longer, 1, m)[i] = longer[i]
  <2> HIDE DEF m
  <2> QED  BY <1>3, <1>5, FirstElements
<1>7. ASSUME NEW i \in 1 .. m
      PROVE  SubSeq(longer, 1, m)[i] = part[i]
  <2>1. i \in 1 .. Len(of) + Len(more)
    BY <1>1
  <2>2. SubSeq(longer, 1, m)[i] = longer[i]
    BY <1>6
  <2>3. CASE i <= Len(of)
    BY <1>3, <1>4, <2>1, <2>2, <2>3
  <2>4. CASE ~(i <= Len(of))
    <3>1. i - Len(of) \in 1 .. n
      BY <1>1, <2>4
    <3>2. part[i] = SubSeq(more, 1, n)[i - Len(of)]
      BY <1>4, <2>4
    <3>3. SubSeq(more, 1, n)[i - Len(of)] = more[i - Len(of)]
      BY <1>2, <3>1
    <3>4. longer[i] = more[i - Len(of)]
      BY <1>3, <2>1, <2>4
    <3> QED  BY <2>2, <3>2, <3>3, <3>4
  <2> QED  BY <2>3, <2>4
<1>8. SubSeq(longer, 1, m) = part
  <2> HIDE DEF m
  <2> QED  BY <1>4, <1>6, <1>7, SeqEqual
<1> QED  BY <1>5, <1>8 DEF CutOf, longer, part

\* Nothing is a beginning of anything.
LEMMA NothingIsCut ==
  ASSUME NEW of \in Seq(Byte)
  PROVE  CutOf(<<>>, of, FALSE)
<1>1. Len(of) \in Nat
  BY LenProperties
<1>2. SubSeq(of, 1, 0) = <<>>
  BY SubSeqEmpty
<1>3. 0 \in 0 .. Len(of)
  BY <1>1
<1> QED  BY <1>2, <1>3 DEF CutOf

-----------------------------------------------------------------------------
(* In-place calls.  The invariant adds which call each place belongs to,   *)
(* and that a call in progress has not answered yet.                       *)

PlacesOfCalls ==
  /\ pc \in {"open", "read", "write size", "write entry"} => call = "compression"
  /\ pc \in {"divide", "write file"} => call = "decompression"
  /\ pc \in {"pack", "unpack"} => archive = before
  /\ pc # "idle" => result = "none"

AInv == PlacesOfCalls /\ RefusedLeavesFile

LEMMA AInitInv == FAInit => AInv
BY DEF FAInit, AInv, PlacesOfCalls, RefusedLeavesFile

\* Both in-place calls begin alike.
LEMMA TransformInv ==
  ASSUME NEW name \in {"pack", "unpack"}, NEW data, Transform(name, data)
  PROVE  AInv'
BY DEF Transform, Begin, Goto, Return, Forget, AInv, PlacesOfCalls, RefusedLeavesFile

LEMMA ANextInv == AInv /\ [FANext]_vars => AInv'
<1> SUFFICES ASSUME AInv, [FANext]_vars
             PROVE  AInv'
  OBVIOUS
<1> USE DEF AInv, PlacesOfCalls, RefusedLeavesFile
<1>1. CASE ListFiles
  BY <1>1 DEF ListFiles, Begin, Goto
<1>2. CASE OpenArchive
  BY <1>2 DEF OpenArchive
<1>3. CASE ReadFile
  <2>1. CASE source[Head(files)] = Gone
    BY <1>3, <2>1 DEF ReadFile, Return
  <2>2. CASE source[Head(files)] # Gone
    BY <1>3, <2>2 DEF ReadFile
  <2> QED  BY <2>1, <2>2
<1>4. CASE WriteSize
  BY <1>4 DEF WriteSize
<1>5. CASE WriteEntry
  BY <1>5 DEF WriteEntry
<1>6. CASE EndArchive
  BY <1>6 DEF EndArchive, Return, historyVars
<1>7. ASSUME NEW block_bytes \in BlockBytes, Compress(block_bytes) \/ Decompress(block_bytes)
      PROVE  AInv'
  BY <1>7, TransformInv DEF Compress, Decompress
<1>8. CASE Truncate
  BY <1>8 DEF Truncate
<1>9. CASE Rewrite
  BY <1>9 DEF Rewrite, Return
<1>10. CASE ReadArchive
  BY <1>10 DEF ReadArchive, Begin, Goto
<1>11. CASE OpenFile
  BY <1>11 DEF OpenFile
<1>12. CASE WriteFile
  BY <1>12 DEF WriteFile
<1>13. CASE EndRestore
  BY <1>13 DEF EndRestore, Return, historyVars
<1>14. CASE OpenFails
  BY <1>14 DEF OpenFails, Return, historyVars
<1>15. ASSUME NEW name \in Name, Change(name)
       PROVE  AInv'
  BY <1>15 DEF Change, processVars, historyVars
<1>16. CASE Crash
  BY <1>16 DEF Crash, Return
<1>17. CASE UNCHANGED vars
  BY <1>17 DEF vars, diskVars, processVars, historyVars
<1> QED  BY <1>1, <1>2, <1>3, <1>4, <1>5, <1>6, <1>7, <1>8, <1>9, <1>10, <1>11, <1>12, <1>13, <1>14,
            <1>15, <1>16, <1>17 DEF FANext

\* In-place compression and decompression that say FALSE leave the file as it
\* was, wherever they give up.
THEOREM RefusalLeavesFile == FASpec => []RefusedLeavesFile
<1>1. AInv => RefusedLeavesFile
  BY DEF AInv
<1> QED  BY <1>1, AInitInv, ANextInv, PTL DEF FASpec

-----------------------------------------------------------------------------
(* The invariant of archiving and restoring.                               *)

Writing == {"read", "write size", "write entry"}

Restoring == {"divide", "write file"}

ArchiveType ==
  /\ source \in [Name -> Content \cup {Gone}]
  /\ archive \in Seq(Byte)
  /\ restored \in [Name -> Seq(Byte) \cup {Gone}]
  /\ files \in Seq(Name)
  /\ archived \in Seq(Name \X Content)
  /\ taken \in Nat

\* No name is listed twice, and none is listed that has been archived.
NamesApart ==
  /\ \A i, j \in 1 .. Len(archived) : archived[i][1] = archived[j][1] => i = j
  /\ pc \in Writing \cup {"open"} => \A i, j \in 1 .. Len(files) : files[i] = files[j] => i = j
  /\ pc \in Writing =>
       \A i \in 1 .. Len(archived) : \A j \in 1 .. Len(files) : archived[i][1] # files[j]

\* The archive of the first k files that have been archived.
First(k) == Image(SubSeq(archived, 1, k))

\* What the archive holds when nothing is lost: the last entry is not in it before
\* its size and its bytes have been written.
Due ==
  IF pc = "write size" THEN First(Len(archived) - 1)
  ELSE IF pc = "write entry" THEN First(Len(archived) - 1) \o Word(Len(buffer))
  ELSE Image(archived)

\* bytes are what compression() makes of a beginning.
PackOf(bytes, of, all) ==
  \E n \in 1 .. Len(of) : \E block_bytes \in BlockBytes \ {0} :
    bytes = Compression(SubSeq(of, 1, n), block_bytes) /\ (all => n = Len(of))

\* While the archive is written its stream fails when something is lost.
EntryWritten ==
  /\ pc \in Writing => form = "plain" /\ (whole => ~bad) /\ (~bad => whole)
  /\ pc \in {"write size", "write entry"} =>
       archived # <<>> /\ buffer = Reverse(Plain(archived[Len(archived)]))

\* What the file and the memory hold.
ArchiveHolds ==
  /\ form = "plain" /\ pc # "write unpacked" => CutOf(archive, Due, whole)
  /\ form = "packed" => PackOf(archive, Image(archived), whole)
  /\ pc \in {"pack", "write packed"} => PackOf(buffer, Image(archived), whole)
  /\ pc \in {"unpack", "write unpacked"} => CutOf(buffer, Image(archived), whole)

RewriteForms ==
  /\ pc = "write unpacked" => archive = <<>> /\ form = "plain"
  /\ pc = "write packed" => form = "torn"

\* decompression() is behind as many entries as it has taken.
RestoreIndex ==
  /\ call # "decompression" => taken = 0
  /\ pc \in {"pack", "unpack", "write packed", "write unpacked"} => call # "decompression"
  /\ pc \notin Restoring => index = 0
  /\ pc \in Restoring =>
       /\ form = "plain" /\ buffer = archive
       /\ taken <= Len(archived)
       /\ Len(First(taken)) <= Len(archive)
  /\ pc = "divide" => index = Len(First(taken))
  /\ pc = "write file" =>
       /\ taken >= 1
       /\ index = Len(First(taken - 1))
       /\ archived[taken][1] \in cut
       /\ restored[archived[taken][1]] = <<>>

CInv ==
  /\ ArchiveType /\ NamesApart /\ EntryWritten /\ ArchiveHolds /\ RewriteForms /\ RestoreIndex
  /\ RestoredAreArchived /\ NothingIsLost

\* The bytes of data, the last one first.
LEMMA ReverseBytes ==
  ASSUME NEW data \in Seq(Byte)
  PROVE  /\ Reverse(data) \in Seq(Byte)
         /\ Len(Reverse(data)) = Len(data)
<1>1. Len(data) \in Nat
  BY LenProperties
<1>2. Reverse(data) = [i \in 1 .. Len(data) |-> data[(Len(data) - i) + 1]]
  BY DEF Reverse
<1>3. \A i \in 1 .. Len(data) : (Len(data) - i) + 1 \in 1 .. Len(data) /\ data[(Len(data) - i) + 1] \in Byte
  BY <1>1, ElementOfSeq
<1> QED  BY <1>1, <1>2, <1>3

\* The files archived first, in the archive.
LEMMA FirstFiles ==
  ASSUME ArchiveType, NEW k \in 0 .. Len(archived)
  PROVE  /\ First(k) \in Seq(Byte) /\ Len(First(k)) \in Nat
         /\ Len(First(k)) <= Len(Image(archived))
         /\ k = 0 => First(k) = <<>>
         /\ k = Len(archived) => First(k) = Image(archived)
<1>1. archived \in Seq(Name \X Content) /\ Len(archived) \in Nat
  BY LenProperties DEF ArchiveType
<1>2. SubSeq(archived, 1, k) \in Seq(Name \X Content)
  BY <1>1, FirstElements
<1>3. First(k) \in Seq(Byte) /\ Len(First(k)) \in Nat
  BY <1>2, FramesType, LenProperties DEF First
<1>4. k = 0 => First(k) = <<>>
  <2>1. SubSeq(archived, 1, 0) = <<>>
    BY SubSeqEmpty
  <2> QED  BY <2>1, ImageEmpty DEF First
<1>5. k = Len(archived) => First(k) = Image(archived)
  BY <1>1, SubSeqFull DEF First
<1>6. Len(First(k)) <= Len(Image(archived))
  <2>1. CASE k = 0
    <3>1. Len(First(k)) = 0 /\ Len(Image(archived)) \in Nat
      BY <1>1, <1>4, <2>1, FramesType, LenProperties, EmptySeq
    <3> QED  BY <3>1
  <2>2. CASE k # 0
    <3>1. k \in 1 .. Len(archived)
      BY <2>2
    <3> QED  BY <1>1, <3>1, ImageStep DEF First
  <2> QED  BY <2>1, <2>2
<1> QED  BY <1>3, <1>4, <1>5, <1>6

\* The entry in memory is the end of the archive.
LEMMA EntryInMemory ==
  ASSUME ArchiveType, archived # <<>>, buffer = Reverse(Plain(archived[Len(archived)]))
  PROVE  LET first == First(Len(archived) - 1)
             size == Word(Len(buffer))
         IN  /\ first \in Seq(Byte) /\ size \in Seq(Byte) /\ buffer \in Seq(Byte)
             /\ first \o size \in Seq(Byte) /\ size \o buffer \in Seq(Byte)
             /\ Image(archived) = (first \o size) \o buffer
             /\ Image(archived) = first \o (size \o buffer)
<1> DEFINE n == Len(archived)
           entry == archived[n]
           first == First(n - 1)
           size == Word(Len(buffer))
<1>1. archived \in Seq(Name \X Content) /\ archived # <<>> /\ buffer = Reverse(Plain(entry))
  BY DEF ArchiveType
<1>2. n \in Nat \ {0} /\ n \in 1 .. n /\ n - 1 \in 0 .. n
  <2>1. n \in Nat /\ n # 0
    BY <1>1, LenProperties, EmptySeq
  <2> HIDE DEF n
  <2> QED  BY <2>1
<1>3. entry \in Name \X Content
  BY <1>1, <1>2, ElementOfSeq
<1>4. /\ Plain(entry) \in Seq(Byte) /\ Len(Plain(entry)) <= MaxSize
      /\ Frame(entry) = Word(Len(Plain(entry))) \o Reverse(Plain(entry))
  BY <1>3, EntryBytes DEF Frame, Framed
<1>5. buffer \in Seq(Byte) /\ Len(buffer) = Len(Plain(entry))
  <2>1. Reverse(Plain(entry)) \in Seq(Byte) /\ Len(Reverse(Plain(entry))) = Len(Plain(entry))
    BY <1>4, ReverseBytes
  <2> QED  BY <1>1, <2>1
<1>6. size \in Seq(Byte)
  <2>1. Len(Plain(entry)) \in 0 .. MaxSize
    <3> HIDE DEF entry
    <3> QED  BY <1>4, LenProperties, WordAssumption
  <2> QED  BY <1>5, <2>1, WordAssumption
<1>7. first \in Seq(Byte)
  BY <1>2, FirstFiles
<1>8. Image(archived) = first \o Frame(entry)
  <2>1. Image(SubSeq(archived, 1, n)) = Image(SubSeq(archived, 1, n - 1)) \o Frame(archived[n])
    BY <1>1, <1>2, ImageStep
  <2>2. SubSeq(archived, 1, n) = archived
    BY <1>1, SubSeqFull
  <2> QED  BY <2>1, <2>2 DEF First
<1>9. Frame(entry) = size \o buffer
  BY <1>1, <1>4, <1>5
<1> HIDE DEF first, size, entry
<1>10. (first \o size) \o buffer = first \o (size \o buffer)
  <2>1. first \in Seq(Byte) /\ size \in Seq(Byte) /\ buffer \in Seq(Byte)
    BY <1>5, <1>6, <1>7
  <2> QED  BY <2>1, ConcatAssociative, SMTT(30)
<1>11. first \o size \in Seq(Byte) /\ size \o buffer \in Seq(Byte)
  BY <1>5, <1>6, <1>7, ConcatProperties
<1> QED  BY <1>5, <1>6, <1>7, <1>8, <1>9, <1>10, <1>11 DEF first, size

\* The archive holds a beginning of all that has been archived, at any time.
LEMMA ArchiveIsCut ==
  ASSUME ArchiveType, EntryWritten, ArchiveHolds, form = "plain", pc # "write unpacked"
  PROVE  /\ CutOf(archive, Image(archived), FALSE)
         /\ pc \notin {"write size", "write entry"} => CutOf(archive, Image(archived), whole)
<1>1. Image(archived) \in Seq(Byte)
  BY FramesType DEF ArchiveType
<1>2. CutOf(archive, Due, whole)
  BY DEF ArchiveHolds
<1>3. CASE pc \notin {"write size", "write entry"}
  <2>1. CutOf(archive, Image(archived), whole)
    BY <1>2, <1>3 DEF Due
  <2>2. CutOf(archive, Image(archived), FALSE)
    BY <2>1 DEF CutOf
  <2> QED  BY <2>1, <2>2
<1>4. CASE pc \in {"write size", "write entry"}
  <2> DEFINE first == First(Len(archived) - 1)
             size == Word(Len(buffer))
  <2>1. /\ first \in Seq(Byte) /\ size \in Seq(Byte) /\ buffer \in Seq(Byte)
        /\ first \o size \in Seq(Byte) /\ size \o buffer \in Seq(Byte)
        /\ Image(archived) = (first \o size) \o buffer
        /\ Image(archived) = first \o (size \o buffer)
    <3>1. archived # <<>> /\ buffer = Reverse(Plain(archived[Len(archived)]))
      BY <1>4 DEF EntryWritten
    <3> QED  BY <3>1, EntryInMemory
  <2>2. CASE pc = "write size"
    <3>1. Due = first
      BY <2>2 DEF Due
    <3> HIDE DEF first, size
    <3>2. CutOf(archive, first, whole)
      BY <1>2, <3>1
    <3>3. CutOf(archive, first \o (size \o buffer), FALSE)
      BY <2>1, <3>2, CutOfLonger
    <3> QED  BY <1>4, <2>1, <3>3
  <2>3. CASE pc = "write entry"
    <3>1. Due = first \o size
      BY <2>3 DEF Due
    <3> HIDE DEF first, size
    <3>2. CutOf(archive, first \o size, whole)
      BY <1>2, <3>1
    <3>3. CutOf(archive, (first \o size) \o buffer, FALSE)
      BY <2>1, <3>2, CutOfLonger
    <3> QED  BY <1>4, <2>1, <3>3
  <2> QED  BY <1>4, <2>2, <2>3
<1> QED  BY <1>3, <1>4

\* What decompression() reads behind the first k entries.
LEMMA EntryParsed ==
  ASSUME ArchiveType, EntryWritten, ArchiveHolds, form = "plain", pc \in Restoring,
         NEW k \in 0 .. Len(archived),
         buffer = archive, index = Len(First(k)), Len(First(k)) <= Len(archive)
  PROVE  /\ Parsed.data # <<>> => k < Len(archived) /\ Len(First(k + 1)) <= Len(archive)
         /\ k < Len(archived) /\ Len(First(k + 1)) <= Len(archive) =>
              /\ Parsed.data # <<>>
              /\ Parsed.index = Len(First(k + 1))
              /\ ParsedName.data = archived[k + 1][1]
              /\ ParsedData = archived[k + 1][2]
         /\ Parsed.data = <<>> /\ whole => k = Len(archived)
<1> DEFINE image == Image(archived)
           n == Len(archive)
           entry == archived[k + 1]
<1>1. archived \in Seq(Name \X Content) /\ Len(archived) \in Nat /\ image \in Seq(Byte)
  BY FramesType, LenProperties DEF ArchiveType
<1>2. CutOf(archive, image, whole)
  BY ArchiveIsCut DEF Restoring
<1>3. /\ n \in 0 .. Len(image) /\ archive = SubSeq(image, 1, n)
      /\ whole => n = Len(image)
  BY <1>1, <1>2, CutBytes
<1>4. IF k < Len(archived) /\ Len(First(k + 1)) <= n
      THEN Divide(archive, index) = [data |-> Plain(entry), index |-> Len(First(k + 1))]
      ELSE Divide(archive, index).data = <<>>
  <2>1. Len(Image(SubSeq(archived, 1, k))) <= n
    BY DEF First
  <2> HIDE DEF n
  <2>2. LET bytes == SubSeq(Image(archived), 1, n)
            at == Len(Image(SubSeq(archived, 1, k)))
            next == Len(Image(SubSeq(archived, 1, k + 1)))
        IN  IF k < Len(archived) /\ next <= n
            THEN Divide(bytes, at) = [data |-> Plain(archived[k + 1]), index |-> next]
            ELSE Divide(bytes, at).data = <<>>
    BY <1>1, <1>3, <2>1, EntryRead
  <2> QED  BY <1>3, <2>2 DEF First
<1>5. ASSUME k < Len(archived), Len(First(k + 1)) <= n
      PROVE  /\ Parsed.data # <<>>
             /\ Parsed.index = Len(First(k + 1))
             /\ ParsedName.data = archived[k + 1][1]
             /\ ParsedData = archived[k + 1][2]
  <2>1. entry \in Name \X Content
    <3>1. k + 1 \in 1 .. Len(archived)
      BY <1>1, <1>5
    <3> QED  BY <1>1, <3>1, ElementOfSeq
  <2> HIDE DEF entry
  <2>2. Parsed = [data |-> Plain(entry), index |-> Len(First(k + 1))]
    BY <1>4, <1>5 DEF Parsed
  <2>3. Plain(entry) # <<>>
    BY <2>1, EntryBytes
  <2>4. ParsedName.data = entry[1] /\ ParsedData = entry[2]
    BY <2>1, <2>2, EntryParts DEF ParsedName, ParsedData
  <2> QED  BY <2>2, <2>3, <2>4 DEF entry
<1>6. Parsed.data # <<>> => k < Len(archived) /\ Len(First(k + 1)) <= n
  BY <1>4 DEF Parsed
<1>7. ASSUME Parsed.data = <<>>, whole
      PROVE  k = Len(archived)
  <2> SUFFICES ASSUME k < Len(archived) PROVE FALSE
    BY <1>1
  <2>1. k + 1 \in 0 .. Len(archived)
    BY <1>1
  <2>2. Len(First(k + 1)) <= n
    BY <1>3, <1>7, <2>1, FirstFiles
  <2> QED  BY <1>5, <1>7, <2>2
<1> QED  BY <1>5, <1>6, <1>7

-----------------------------------------------------------------------------
(* The actions.                                                            *)

\* A client call begins with an empty folder to restore to.
LEMMA EmptyFolder == NoFiles \in [Name -> Seq(Byte) \cup {Gone}] /\ NoFiles \in [Name -> Content \cup {Gone}]
BY DEF NoFiles

\* The files that are listed are those of the folder, each once.
LEMMA Listed ==
  ASSUME NEW folder, NEW list \in SetToSeqs(Existing(folder))
  PROVE  /\ list \in Seq(Name)
         /\ \A i, j \in 1 .. Len(list) : list[i] = list[j] => i = j
<1> DEFINE S == Existing(folder)
           n == Cardinality(S)
<1>1. S \subseteq Name /\ IsFiniteSet(S)
  BY ArchiveAssumption, FS_Subset DEF Existing
<1> HIDE DEF S
<1>2. n \in Nat
  BY <1>1, FS_CardinalityType
<1>3. list \in [1 .. n -> S] /\ \A i, j \in 1 .. n : i # j => list[i] # list[j]
  BY DEF SetToSeqs, S
<1> HIDE DEF n
<1>4. list \in Seq(Name) /\ Len(list) = n
  BY <1>1, <1>2, <1>3
<1> QED  BY <1>3, <1>4

LEMMA ListFilesInv ==
  ASSUME CInv, PlacesOfCalls, ListFiles
  PROVE  CInv'
<1> USE DEF CInv
<1>1. /\ pc = "idle" /\ pc' = "open" /\ call' = "compression" /\ result' = "none"
      /\ restored' = NoFiles /\ taken' = 0 /\ cut' = {}
      /\ source' \in [Name -> Content \cup {Gone}] /\ files' \in SetToSeqs(Existing(source'))
      /\ UNCHANGED <<archive, buffer, index, bad, form, whole, archived>>
  BY DEF ListFiles, Begin, Goto
<1>2. ArchiveType'
  <2>1. files' \in Seq(Name)
    BY <1>1, Listed
  <2> QED  BY <1>1, <2>1, EmptyFolder DEF ArchiveType
<1>3. NamesApart'
  <2>1. \A i, j \in 1 .. Len(files') : files'[i] = files'[j] => i = j
    BY <1>1, Listed
  <2> QED  BY <1>1, <2>1 DEF NamesApart, Writing
<1>4. EntryWritten'
  BY <1>1 DEF EntryWritten, Writing
<1>5. ArchiveHolds'
  BY <1>1 DEF ArchiveHolds, Due
<1>6. RewriteForms'
  BY <1>1 DEF RewriteForms
<1>7. RestoreIndex'
  BY <1>1 DEF RestoreIndex, Restoring
<1>8. RestoredAreArchived'
  <2>1. \A k \in 1 .. taken' : FALSE
    BY <1>1
  <2>2. taken' <= Len(archived')
    BY <1>1, LenProperties DEF ArchiveType
  <2> QED  BY <2>1, <2>2 DEF RestoredAreArchived
<1>9. NothingIsLost'
  BY <1>1 DEF NothingIsLost
<1> QED  BY <1>2, <1>3, <1>4, <1>5, <1>6, <1>7, <1>8, <1>9

\* A call that has not taken an entry yet has nothing to answer for.
LEMMA NothingTaken ==
  ASSUME archived' \in Seq(Name \X Content), taken' = 0
  PROVE  RestoredAreArchived'
<1>1. \A k \in 1 .. taken' : FALSE
  OBVIOUS
<1>2. taken' <= Len(archived')
  BY LenProperties
<1> QED  BY <1>1, <1>2 DEF RestoredAreArchived

LEMMA OpenArchiveInv ==
  ASSUME CInv, PlacesOfCalls, OpenArchive
  PROVE  CInv'
<1> USE DEF CInv
<1>1. /\ pc = "open" /\ pc' = "read"
      /\ archive' = <<>> /\ bad' = FALSE /\ form' = "plain" /\ whole' = TRUE /\ archived' = <<>>
      /\ UNCHANGED <<source, restored, files, buffer, index, result, taken, cut, call, before>>
  BY DEF OpenArchive
<1>2. call = "compression" /\ taken = 0 /\ result = "none"
  BY <1>1 DEF PlacesOfCalls, RestoreIndex
<1>3. archived' \in Seq(Name \X Content) /\ Len(archived') = 0
  BY <1>1, EmptySeq
<1>4. ArchiveType'
  BY <1>1, <1>3, EmptySeq DEF ArchiveType
<1>5. NamesApart'
  <2>1. \A i, j \in 1 .. Len(files') : files'[i] = files'[j] => i = j
    BY <1>1 DEF NamesApart
  <2> QED  BY <1>1, <1>3, <2>1 DEF NamesApart, Writing
<1>6. EntryWritten'
  BY <1>1 DEF EntryWritten, Writing
<1>7. ArchiveHolds'
  <2>1. Image(archived') = <<>>
    BY <1>1, ImageEmpty
  <2>2. CutOf(archive', Image(archived'), whole')
    <3>1. Len(Image(archived')) = 0 /\ SubSeq(Image(archived'), 1, 0) = <<>>
      BY <2>1, SubSeqEmpty, EmptySeq
    <3>2. archive' = SubSeq(Image(archived'), 1, 0) /\ 0 \in 0 .. Len(Image(archived'))
      BY <1>1, <3>1
    <3> QED  BY <3>1, <3>2 DEF CutOf
  <2> QED  BY <1>1, <2>2 DEF ArchiveHolds, Due
<1>8. RewriteForms'
  BY <1>1 DEF RewriteForms
<1>9. RestoreIndex'
  BY <1>1, <1>2 DEF RestoreIndex, Restoring
<1>10. RestoredAreArchived'
  BY <1>1, <1>2, <1>3, NothingTaken
<1>11. NothingIsLost'
  BY <1>1, <1>2 DEF NothingIsLost
<1> QED  BY <1>4, <1>5, <1>6, <1>7, <1>8, <1>9, <1>10, <1>11

LEMMA ReadFileInv ==
  ASSUME CInv, PlacesOfCalls, ReadFile
  PROVE  CInv'
<1> USE DEF CInv
<1> DEFINE name == Head(files)
           data == source[name]
<1>1. /\ pc = "read" /\ files # <<>>
      /\ UNCHANGED <<archive, restored, form, taken, cut, call, before>>
  BY DEF ReadFile
<1>2. call = "compression" /\ taken = 0 /\ form = "plain"
  BY <1>1 DEF PlacesOfCalls, RestoreIndex, EntryWritten, Writing
<1>3. files \in Seq(Name) /\ archived \in Seq(Name \X Content) /\ source \in [Name -> Content \cup {Gone}]
  BY DEF ArchiveType
<1>4. CutOf(archive, Image(archived), whole)
  BY <1>1, <1>2 DEF ArchiveHolds, Due
<1>5. CASE data = Gone
  <2>1. /\ pc' = "idle" /\ result' = "FALSE" /\ whole' = FALSE /\ archived' = archived
        /\ source' = NoFiles /\ files' = <<>> /\ buffer' = <<>> /\ index' = 0 /\ bad' = FALSE
    BY <1>5 DEF ReadFile, Return, Forget
  <2>2. ArchiveType'
    BY <1>1, <2>1, EmptyFolder, EmptySeq DEF ArchiveType
  <2>3. NamesApart'
    BY <2>1 DEF NamesApart, Writing
  <2>4. EntryWritten'
    BY <2>1 DEF EntryWritten, Writing
  <2>5. ArchiveHolds'
    <3>1. CutOf(archive', Image(archived'), whole')
      BY <1>1, <1>4, <2>1 DEF CutOf
    <3> QED  BY <1>1, <1>2, <2>1, <3>1 DEF ArchiveHolds, Due
  <2>6. RewriteForms'
    BY <2>1 DEF RewriteForms
  <2>7. RestoreIndex'
    BY <1>1, <1>2, <2>1 DEF RestoreIndex, Restoring
  <2>8. RestoredAreArchived'
    BY <1>1, <1>2, <1>3, <2>1, NothingTaken
  <2>9. NothingIsLost'
    BY <1>1, <1>2, <2>1 DEF NothingIsLost
  <2> QED  BY <2>2, <2>3, <2>4, <2>5, <2>6, <2>7, <2>8, <2>9
<1>6. CASE data # Gone
  <2> DEFINE entry == <<name, data>>
             n == Len(archived)
  <2>1. /\ buffer' = Entry(name, data)
        /\ archived' = Append(archived, entry)
        /\ files' = Tail(files)
        /\ pc' = "write size"
        /\ UNCHANGED <<source, index, bad, result, whole>>
    BY <1>6 DEF ReadFile
  <2>2. name \in Name /\ data \in Content
    BY <1>1, <1>3, <1>6, HeadTailProperties
  <2>3. entry \in Name \X Content /\ entry[1] = name /\ entry[2] = data
    BY <2>2
  <2>4. buffer' = Reverse(Plain(entry))
    BY <2>1, <2>3 DEF Entry, Plain
  <2> HIDE DEF entry
  <2>5. /\ n \in Nat
        /\ archived' \in Seq(Name \X Content) /\ Len(archived') = n + 1
        /\ archived'[n + 1] = entry
        /\ \A i \in 1 .. n : archived'[i] = archived[i]
    <3> DEFINE more == Append(archived, entry)
    <3>1. n \in Nat
      BY <1>3, LenProperties
    <3>2. /\ more \in Seq(Name \X Content) /\ Len(more) = n + 1
          /\ more[n + 1] = entry
          /\ \A i \in 1 .. n : more[i] = archived[i]
      BY <1>3, <2>3, AppendProperties
    <3>3. archived' = more
      BY <2>1
    <3> HIDE DEF more
    <3> QED  BY <3>1, <3>2, <3>3
  <2>6. /\ files' \in Seq(Name) /\ Len(files) \in Nat /\ Len(files') = Len(files) - 1
        /\ \A j \in 1 .. Len(files') : files'[j] = files[j + 1]
        /\ name = files[1] /\ 1 \in 1 .. Len(files)
    <3>1. Len(files) \in Nat /\ Len(files) # 0
      BY <1>1, <1>3, EmptySeq, LenProperties
    <3>2. /\ Tail(files) \in Seq(Name) /\ Len(Tail(files)) = Len(files) - 1
          /\ \A j \in 1 .. Len(Tail(files)) : Tail(files)[j] = files[j + 1]
          /\ Head(files) = files[1]
      BY <1>1, <1>3, HeadTailProperties
    <3>3. 1 \in 1 .. Len(files)
      BY <3>1
    <3>4. name = files[1]
      BY <3>2
    <3> HIDE DEF name, data
    <3> QED  BY <2>1, <3>1, <3>2, <3>3, <3>4
  <2> HIDE DEF name, data
  <2>7. ArchiveType'
    BY <1>1, <1>3, <2>1, <2>5, <2>6 DEF ArchiveType
  <2>8. NamesApart'
    <3>1. /\ \A i, j \in 1 .. n : archived[i][1] = archived[j][1] => i = j
          /\ \A i, j \in 1 .. Len(files) : files[i] = files[j] => i = j
          /\ \A i \in 1 .. n : \A j \in 1 .. Len(files) : archived[i][1] # files[j]
      BY <1>1 DEF NamesApart, Writing
    <3> HIDE DEF n
    <3>2. ASSUME NEW i \in 1 .. n + 1
          PROVE  IF i = n + 1 THEN archived'[i][1] = name
                 ELSE i \in 1 .. n /\ archived'[i][1] = archived[i][1]
      BY <2>3, <2>5
    <3>3. ASSUME NEW i \in 1 .. n + 1, NEW j \in 1 .. n + 1, archived'[i][1] = archived'[j][1]
          PROVE  i = j
      <4>1. CASE i = n + 1 /\ j = n + 1
        BY <4>1
      <4>2. CASE i = n + 1 /\ j # n + 1
        BY <2>6, <3>1, <3>2, <3>3, <4>2
      <4>3. CASE i # n + 1 /\ j = n + 1
        BY <2>6, <3>1, <3>2, <3>3, <4>3
      <4>4. CASE i # n + 1 /\ j # n + 1
        BY <3>1, <3>2, <3>3, <4>4
      <4> QED  BY <4>1, <4>2, <4>3, <4>4
    <3>4. ASSUME NEW i \in 1 .. Len(files')
          PROVE  i + 1 \in 1 .. Len(files) /\ i + 1 # 1 /\ files'[i] = files[i + 1]
      BY <2>6
    <3>5. ASSUME NEW i \in 1 .. Len(files'), NEW j \in 1 .. Len(files'), files'[i] = files'[j]
          PROVE  i = j
      <4>1. i + 1 = j + 1
        BY <3>1, <3>4, <3>5
      <4>2. i \in Nat /\ j \in Nat
        BY <2>6
      <4> QED  BY <4>1, <4>2
    <3>6. ASSUME NEW i \in 1 .. n + 1, NEW j \in 1 .. Len(files')
          PROVE  archived'[i][1] # files'[j]
      <4>1. CASE i = n + 1
        BY <2>6, <3>1, <3>2, <3>4, <4>1
      <4>2. CASE i # n + 1
        BY <3>1, <3>2, <3>4, <4>2
      <4> QED  BY <4>1, <4>2
    <3> QED  BY <2>5, <3>3, <3>5, <3>6 DEF NamesApart, n
  <2>9. EntryWritten'
    <3>1. archived' # <<>> /\ archived'[Len(archived')] = entry
      BY <2>5, EmptySeq
    <3> QED  BY <1>1, <1>2, <2>1, <2>4, <3>1 DEF EntryWritten, Writing
  <2>10. ArchiveHolds'
    <3>1. SubSeq(archived', 1, Len(archived') - 1) = archived
      <4>1. Len(archived') - 1 = n /\ n \in 0 .. Len(archived')
        BY <2>5
      <4>2. /\ SubSeq(archived', 1, n) \in Seq(Name \X Content) /\ Len(SubSeq(archived', 1, n)) = n
            /\ \A i \in 1 .. n : SubSeq(archived', 1, n)[i] = archived'[i]
        BY <2>5, <4>1, FirstElements
      <4>3. SubSeq(archived', 1, n) = archived
        BY <1>3, <2>5, <4>2, SeqEqual
      <4> QED  BY <4>1, <4>3
    <3>2. First(Len(archived) - 1)' = Image(archived)
      BY <3>1 DEF First
    <3>3. Due' = Image(archived)
      BY <2>1, <3>2 DEF Due
    <3>4. CutOf(archive, Due, whole)'
      BY <1>1, <1>4, <2>1, <3>3 DEF CutOf
    <3> QED  BY <1>1, <1>2, <2>1, <3>4 DEF ArchiveHolds
  <2>11. RewriteForms'
    BY <2>1 DEF RewriteForms
  <2>12. RestoreIndex'
    BY <1>1, <1>2, <2>1 DEF RestoreIndex, Restoring
  <2>13. RestoredAreArchived'
    BY <1>1, <1>2, <2>5, NothingTaken
  <2>14. NothingIsLost'
    BY <1>1, <1>2, <2>1 DEF NothingIsLost
  <2> QED  BY <2>7, <2>8, <2>9, <2>10, <2>11, <2>12, <2>13, <2>14
<1> QED  BY <1>5, <1>6

\* write_bytes() appends a beginning of the bytes when nothing was lost before, and
\* else nothing.
LEMMA WriteCut ==
  ASSUME NEW of \in Seq(Byte), NEW bytes \in Seq(Byte),
         CutOf(archive, of, whole), whole => ~bad, ~bad => whole, Write(bytes)
  PROVE  /\ CutOf(archive', of \o bytes, whole')
         /\ archive' \in Seq(Byte)
         /\ whole' => ~bad'
         /\ ~bad' => whole'
<1>1. archive \in Seq(Byte) /\ of \o bytes \in Seq(Byte)
  BY CutBytes, ConcatProperties
<1>2. CASE bad
  <2>1. UNCHANGED <<archive, bad>> /\ ~whole'
    BY <1>2 DEF Write
  <2>2. CutOf(archive, of \o bytes, FALSE)
    BY CutOfLonger
  <2>3. CutOf(archive', of \o bytes, whole')
    BY <2>1, <2>2 DEF CutOf
  <2> QED  BY <1>1, <1>2, <2>1, <2>3
<1>3. CASE ~bad
  <2>1. archive = of
    BY <1>3, CutBytes
  <2>2. PICK n \in 0 .. Len(bytes) : archive' = archive \o SubSeq(bytes, 1, n) /\ bad' = (n < Len(bytes))
    BY <1>3 DEF Write
  <2>3. whole' = ~bad'
    BY <1>3 DEF Write
  <2>4. whole' => n = Len(bytes)
    <3>1. n \in 0 .. Len(bytes) /\ Len(bytes) \in Nat
      BY LenProperties
    <3>2. ~(n < Len(bytes)) => n = Len(bytes)
      BY <3>1
    <3> QED  BY <2>2, <2>3, <3>2
  <2>5. CutOf(archive', of \o bytes, n = Len(bytes))
    BY <2>1, <2>2, CutBehind
  <2>6. CutOf(archive', of \o bytes, whole')
    BY <2>4, <2>5 DEF CutOf
  <2>7. archive' \in Seq(Byte)
    BY <1>1, <2>6, CutBytes
  <2> QED  BY <2>3, <2>6, <2>7
<1> QED  BY <1>2, <1>3

LEMMA WriteSizeInv ==
  ASSUME CInv, PlacesOfCalls, WriteSize
  PROVE  CInv'
<1> USE DEF CInv
<1> DEFINE first == First(Len(archived) - 1)
           size == Word(Len(buffer))
<1>1. /\ pc = "write size" /\ pc' = "write entry" /\ Write(size)
      /\ UNCHANGED <<source, restored, files, buffer, index, result, form, archived, taken, cut, call,
                     before>>
  BY DEF WriteSize
<1>2. call = "compression" /\ taken = 0 /\ form = "plain" /\ result = "none"
  BY <1>1 DEF PlacesOfCalls, RestoreIndex, EntryWritten, Writing
<1>3. /\ archived # <<>> /\ buffer = Reverse(Plain(archived[Len(archived)]))
      /\ (whole => ~bad) /\ (~bad => whole)
  BY <1>1 DEF EntryWritten, Writing
<1>4. first \in Seq(Byte) /\ size \in Seq(Byte)
  BY <1>3, EntryInMemory
<1>5. CutOf(archive, first, whole)
  BY <1>1, <1>2 DEF ArchiveHolds, Due
<1>6. /\ CutOf(archive', first \o size, whole')
      /\ archive' \in Seq(Byte) /\ (whole' => ~bad') /\ (~bad' => whole')
  BY <1>1, <1>3, <1>4, <1>5, WriteCut
<1>7. ArchiveType'
  BY <1>1, <1>6 DEF ArchiveType
<1>8. NamesApart'
  BY <1>1 DEF NamesApart, Writing
<1>9. EntryWritten'
  BY <1>1, <1>2, <1>3, <1>6 DEF EntryWritten, Writing
<1>10. ArchiveHolds'
  <2>1. Due' = first \o size
    BY <1>1 DEF Due, First
  <2> QED  BY <1>1, <1>2, <1>6, <2>1 DEF ArchiveHolds
<1>11. RewriteForms'
  BY <1>1 DEF RewriteForms
<1>12. RestoreIndex'
  BY <1>1, <1>2 DEF RestoreIndex, Restoring
<1>13. RestoredAreArchived'
  BY <1>1, <1>2, NothingTaken DEF ArchiveType
<1>14. NothingIsLost'
  BY <1>1, <1>2 DEF NothingIsLost
<1> QED  BY <1>7, <1>8, <1>9, <1>10, <1>11, <1>12, <1>13, <1>14

LEMMA WriteEntryInv ==
  ASSUME CInv, PlacesOfCalls, WriteEntry
  PROVE  CInv'
<1> USE DEF CInv
<1> DEFINE first == First(Len(archived) - 1)
           size == Word(Len(buffer))
<1>1. /\ pc = "write entry" /\ pc' = "read" /\ Write(buffer)
      /\ UNCHANGED <<source, restored, files, buffer, index, result, form, archived, taken, cut, call,
                     before>>
  BY DEF WriteEntry
<1>2. call = "compression" /\ taken = 0 /\ form = "plain" /\ result = "none"
  BY <1>1 DEF PlacesOfCalls, RestoreIndex, EntryWritten, Writing
<1>3. /\ archived # <<>> /\ buffer = Reverse(Plain(archived[Len(archived)]))
      /\ (whole => ~bad) /\ (~bad => whole)
  BY <1>1 DEF EntryWritten, Writing
<1>4. /\ first \o size \in Seq(Byte) /\ buffer \in Seq(Byte)
      /\ Image(archived) = (first \o size) \o buffer
  BY <1>3, EntryInMemory
<1>5. CutOf(archive, first \o size, whole)
  BY <1>1, <1>2 DEF ArchiveHolds, Due
<1>6. /\ CutOf(archive', (first \o size) \o buffer, whole')
      /\ archive' \in Seq(Byte) /\ (whole' => ~bad') /\ (~bad' => whole')
  BY <1>1, <1>3, <1>4, <1>5, WriteCut
<1>7. ArchiveType'
  BY <1>1, <1>6 DEF ArchiveType
<1>8. NamesApart'
  BY <1>1 DEF NamesApart, Writing
<1>9. EntryWritten'
  BY <1>1, <1>2, <1>6 DEF EntryWritten, Writing
<1>10. ArchiveHolds'
  <2>1. Due' = Image(archived)
    BY <1>1 DEF Due
  <2> QED  BY <1>1, <1>2, <1>4, <1>6, <2>1 DEF ArchiveHolds
<1>11. RewriteForms'
  BY <1>1 DEF RewriteForms
<1>12. RestoreIndex'
  BY <1>1, <1>2 DEF RestoreIndex, Restoring
<1>13. RestoredAreArchived'
  BY <1>1, <1>2, NothingTaken DEF ArchiveType
<1>14. NothingIsLost'
  BY <1>1, <1>2 DEF NothingIsLost
<1> QED  BY <1>7, <1>8, <1>9, <1>10, <1>11, <1>12, <1>13, <1>14

\* However a call ends that leaves the archive as it is, it forgets what it was at;
\* and what may be missing from the archive is no longer known to be there.
LEMMA ReturnInv ==
  ASSUME CInv, PlacesOfCalls,
         pc # "idle", pc' = "idle",
         source' = NoFiles, files' = <<>>, buffer' = <<>>, index' = 0, bad' = FALSE,
         UNCHANGED <<archive, restored, form, archived, taken, cut, call>>,
         whole' => whole,
         pc \in {"write size", "write entry", "write unpacked"} => ~whole',
         result' = "TRUE" => NothingIsLost'
  PROVE  CInv'
<1> USE DEF CInv
<1>1. ArchiveType'
  BY EmptyFolder, EmptySeq DEF ArchiveType
<1>2. NamesApart'
  BY DEF NamesApart, Writing
<1>3. EntryWritten'
  BY DEF EntryWritten, Writing
<1>4. ArchiveHolds'
  <2>1. Image(archived) \in Seq(Byte)
    BY FramesType DEF ArchiveType
  <2>2. ASSUME form = "plain"
        PROVE  CutOf(archive, Image(archived), whole')
    <3>1. CASE pc = "write unpacked"
      <4>1. archive = <<>> /\ ~whole'
        BY <3>1 DEF RewriteForms
      <4>2. CutOf(<<>>, Image(archived), FALSE)
        BY <2>1, NothingIsCut
      <4> QED  BY <4>1, <4>2 DEF CutOf
    <3>2. CASE pc # "write unpacked"
      <4>1. /\ CutOf(archive, Image(archived), FALSE)
            /\ pc \notin {"write size", "write entry"} => CutOf(archive, Image(archived), whole)
        BY <2>2, <3>2, ArchiveIsCut
      <4> QED  BY <4>1 DEF CutOf
    <3> QED  BY <3>1, <3>2
  <2>3. Due' = Image(archived)
    BY DEF Due
  <2>4. ASSUME form = "packed"
        PROVE  PackOf(archive, Image(archived), whole')
    <3>1. PackOf(archive, Image(archived), whole)
      BY <2>4 DEF ArchiveHolds
    <3> QED  BY <3>1 DEF PackOf
  <2>5. form' = "plain" => CutOf(archive', Due', whole')
    BY <2>2, <2>3
  <2>6. form' = "packed" => PackOf(archive', Image(archived)', whole')
    BY <2>4
  <2> QED  BY <2>5, <2>6 DEF ArchiveHolds
<1>5. RewriteForms'
  BY DEF RewriteForms
<1>6. RestoreIndex'
  BY DEF RestoreIndex, Restoring
<1>7. RestoredAreArchived'
  BY DEF RestoredAreArchived
<1>8. NothingIsLost'
  BY DEF NothingIsLost
<1> QED  BY <1>1, <1>2, <1>3, <1>4, <1>5, <1>6, <1>7, <1>8

LEMMA EndArchiveInv ==
  ASSUME CInv, PlacesOfCalls, EndArchive
  PROVE  CInv'
<1>1. /\ pc = "read" /\ pc' = "idle"
      /\ source' = NoFiles /\ files' = <<>> /\ buffer' = <<>> /\ index' = 0 /\ bad' = FALSE
      /\ UNCHANGED <<archive, restored, form, whole, archived, taken, cut, call>>
  BY DEF EndArchive, Return, Forget, historyVars
<1>2. call = "compression"
  BY <1>1 DEF PlacesOfCalls
<1>3. NothingIsLost'
  BY <1>1, <1>2 DEF NothingIsLost
<1> QED  BY <1>1, <1>3, ReturnInv

LEMMA OpenFailsInv ==
  ASSUME CInv, PlacesOfCalls, OpenFails
  PROVE  CInv'
<1>1. /\ pc \in {"open", "pack", "unpack", "divide"} /\ pc' = "idle" /\ result' = "FALSE"
      /\ source' = NoFiles /\ files' = <<>> /\ buffer' = <<>> /\ index' = 0 /\ bad' = FALSE
      /\ UNCHANGED <<archive, restored, form, whole, archived, taken, cut, call>>
  BY DEF OpenFails, Return, Forget, historyVars
<1> QED  BY <1>1, ReturnInv

LEMMA CrashInv ==
  ASSUME CInv, PlacesOfCalls, Crash
  PROVE  CInv'
<1>1. /\ pc # "idle" /\ pc' = "idle" /\ result' = "none"
      /\ source' = NoFiles /\ files' = <<>> /\ buffer' = <<>> /\ index' = 0 /\ bad' = FALSE
      /\ UNCHANGED <<archive, restored, form, archived, taken, cut, call>>
      /\ whole' = (whole /\ pc \in {"open", "divide", "write file", "pack", "unpack"})
  BY DEF Crash, Return, Forget
<1>2. /\ whole' => whole
      /\ pc \in {"write size", "write entry", "write unpacked"} => ~whole'
  BY <1>1
<1> QED  BY <1>1, <1>2, ReturnInv

LEMMA EndRestoreInv ==
  ASSUME CInv, PlacesOfCalls, EndRestore
  PROVE  CInv'
<1> USE DEF CInv
<1>1. /\ pc = "divide" /\ Parsed.data = <<>> /\ pc' = "idle" /\ result' = "TRUE"
      /\ source' = NoFiles /\ files' = <<>> /\ buffer' = <<>> /\ index' = 0 /\ bad' = FALSE
      /\ UNCHANGED <<archive, restored, form, whole, archived, taken, cut, call>>
  BY DEF EndRestore, Return, Forget, historyVars
<1>2. /\ form = "plain" /\ buffer = archive /\ taken <= Len(archived)
      /\ Len(First(taken)) <= Len(archive) /\ index = Len(First(taken)) /\ pc \in Restoring
  BY <1>1 DEF RestoreIndex, Restoring
<1>3. taken \in 0 .. Len(archived)
  BY <1>2, LenProperties DEF ArchiveType
<1>4. whole => taken = Len(archived)
  BY <1>1, <1>2, <1>3, EntryParsed
<1>5. NothingIsLost'
  BY <1>1, <1>4 DEF NothingIsLost
<1> QED  BY <1>1, <1>5, ReturnInv

-----------------------------------------------------------------------------
(* In-place compression and decompression.                                 *)

\* What compression() has made is bytes, and decompression() makes of it again what
\* it was made of, or says that it cannot.
LEMMA PackBytes ==
  ASSUME LZ4Lossless, NEW of \in Seq(Byte), NEW all, NEW bytes, PackOf(bytes, of, all)
  PROVE  /\ bytes \in Seq(Byte)
         /\ SubSeq(bytes, 1, Len(bytes)) = bytes
         /\ \A c \in BlockBytes :
              Decompression(bytes, c) # Refused => CutOf(Decompression(bytes, c), of, all)
<1>1. PICK n \in 1 .. Len(of), b \in BlockBytes \ {0} :
        bytes = Compression(SubSeq(of, 1, n), b) /\ (all => n = Len(of))
  BY DEF PackOf
<1>2. Len(of) \in Nat /\ n \in 0 .. Len(of) /\ n # 0
  BY LenProperties
<1>3. SubSeq(of, 1, n) \in Seq(Byte) /\ Len(SubSeq(of, 1, n)) = n
  BY <1>2, FirstElements
<1>4. SubSeq(of, 1, n) # <<>>
  BY <1>2, <1>3, EmptySeq
<1>5. SubSeq(of, 1, n) \in Seq(Byte) \ {<<>>}
  BY <1>3, <1>4
<1>6. bytes \in Seq(Byte)
  BY <1>1, <1>5, DecompressionInvertsCompression
<1>7. ASSUME NEW c \in BlockBytes, Decompression(bytes, c) # Refused
      PROVE  CutOf(Decompression(bytes, c), of, all)
  <2>1. Decompression(bytes, c) = SubSeq(of, 1, n)
    BY <1>1, <1>5, <1>7, DecompressionInvertsCompression
  <2> QED  BY <1>1, <1>2, <2>1 DEF CutOf
<1> QED  BY <1>6, <1>7, SubSeqFull

\* Both calls begin alike: the file is as it was, and so is what it holds.
LEMMA TransformBegins ==
  ASSUME CInv, pc = "idle", NEW name \in {"pack", "unpack"}, NEW data, Transform(name, data),
         data # Refused => IF name = "pack" THEN PackOf(data, Image(archived), whole)
                           ELSE CutOf(data, Image(archived), whole)
  PROVE  CInv'
<1> USE DEF CInv
<1>1. /\ call' = name /\ restored' = NoFiles /\ taken' = 0 /\ cut' = {}
      /\ UNCHANGED <<archive, form, whole, archived>>
  BY DEF Transform, Begin
<1>2. CASE data = Refused
  <2>1. /\ pc' = "idle" /\ result' = "FALSE"
        /\ source' = NoFiles /\ files' = <<>> /\ buffer' = <<>> /\ index' = 0 /\ bad' = FALSE
    BY <1>2 DEF Transform, Return, Forget
  <2>2. ArchiveType'
    BY <1>1, <2>1, EmptyFolder, EmptySeq DEF ArchiveType
  <2>3. NamesApart'
    BY <1>1, <2>1 DEF NamesApart, Writing
  <2>4. EntryWritten'
    BY <2>1 DEF EntryWritten, Writing
  <2>5. ArchiveHolds'
    BY <1>1, <2>1 DEF ArchiveHolds, Due
  <2>6. RewriteForms'
    BY <2>1 DEF RewriteForms
  <2>7. RestoreIndex'
    BY <1>1, <2>1 DEF RestoreIndex, Restoring
  <2>8. RestoredAreArchived'
    BY <1>1, NothingTaken DEF ArchiveType
  <2>9. NothingIsLost'
    BY <1>1, <2>1 DEF NothingIsLost
  <2> QED  BY <2>2, <2>3, <2>4, <2>5, <2>6, <2>7, <2>8, <2>9
<1>3. CASE data # Refused
  <2>1. /\ pc' = name /\ result' = "none" /\ buffer' = data
        /\ UNCHANGED <<source, files, index, bad>>
    BY <1>3 DEF Transform, Goto
  <2>2. ArchiveType'
    BY <1>1, <2>1, EmptyFolder DEF ArchiveType
  <2>3. NamesApart'
    BY <1>1, <2>1 DEF NamesApart, Writing
  <2>4. EntryWritten'
    BY <2>1 DEF EntryWritten, Writing
  <2>5. ArchiveHolds'
    BY <1>1, <1>3, <2>1 DEF ArchiveHolds, Due
  <2>6. RewriteForms'
    BY <2>1 DEF RewriteForms
  <2>7. RestoreIndex'
    BY <1>1, <2>1 DEF RestoreIndex, Restoring
  <2>8. RestoredAreArchived'
    BY <1>1, NothingTaken DEF ArchiveType
  <2>9. NothingIsLost'
    BY <1>1, <2>1 DEF NothingIsLost
  <2> QED  BY <2>2, <2>3, <2>4, <2>5, <2>6, <2>7, <2>8, <2>9
<1> QED  BY <1>2, <1>3

LEMMA CompressInv ==
  ASSUME CInv, PlacesOfCalls, NEW block_bytes \in BlockBytes, Compress(block_bytes)
  PROVE  CInv'
<1> USE DEF CInv
<1> DEFINE data == Compression(archive, block_bytes)
           image == Image(archived)
<1>1. pc = "idle" /\ form = "plain" /\ Transform("pack", data)
  BY DEF Compress, Transform, Begin
<1>2. image \in Seq(Byte)
  BY FramesType DEF ArchiveType
<1>3. CutOf(archive, image, whole)
  BY <1>1 DEF ArchiveHolds, Due
<1>4. ASSUME data # Refused
      PROVE  PackOf(data, image, whole)
  <2>1. archive # <<>> /\ block_bytes # 0
    BY <1>4 DEF Compression
  <2>2. PICK n \in 0 .. Len(image) : archive = SubSeq(image, 1, n) /\ (whole => n = Len(image))
    BY <1>3 DEF CutOf
  <2>3. n # 0
    BY <2>1, <2>2, SubSeqEmpty
  <2>4. n \in 1 .. Len(image)
    <3>1. Len(image) \in Nat
      BY <1>2, LenProperties
    <3> HIDE DEF image
    <3> QED  BY <2>3, <3>1
  <2>5. block_bytes \in BlockBytes \ {0}
    BY <2>1
  <2> QED  BY <2>2, <2>4, <2>5 DEF PackOf
<1> HIDE DEF data, image
<1>5. data # Refused => IF "pack" = "pack" THEN PackOf(data, Image(archived), whole)
                        ELSE CutOf(data, Image(archived), whole)
  BY <1>4 DEF image
<1> QED  BY <1>1, <1>5, TransformBegins

LEMMA DecompressInv ==
  ASSUME LZ4Lossless, CInv, PlacesOfCalls, NEW block_bytes \in BlockBytes, Decompress(block_bytes)
  PROVE  CInv'
<1> USE DEF CInv
<1> DEFINE data == Decompression(archive, block_bytes)
<1>1. pc = "idle" /\ form = "packed" /\ Transform("unpack", data)
  BY DEF Decompress, Transform, Begin
<1>2. Image(archived) \in Seq(Byte)
  BY FramesType DEF ArchiveType
<1>3. PackOf(archive, Image(archived), whole)
  BY <1>1 DEF ArchiveHolds
<1>4. data # Refused => CutOf(data, Image(archived), whole)
  BY <1>2, <1>3, PackBytes
<1> HIDE DEF data
<1>5. data # Refused => IF "unpack" = "pack" THEN PackOf(data, Image(archived), whole)
                        ELSE CutOf(data, Image(archived), whole)
  BY <1>4
<1> QED  BY <1>1, <1>5, TransformBegins

LEMMA TruncateInv ==
  ASSUME CInv, PlacesOfCalls, Truncate
  PROVE  CInv'
<1> USE DEF CInv
<1>1. /\ pc \in {"pack", "unpack"} /\ archive' = <<>>
      /\ pc' = IF pc = "pack" THEN "write packed" ELSE "write unpacked"
      /\ form' = IF pc = "pack" THEN "torn" ELSE "plain"
      /\ UNCHANGED <<source, restored, files, buffer, index, bad, result, whole, archived, taken, cut,
                     call, before>>
  BY DEF Truncate
<1>2. call # "decompression" /\ taken = 0
  BY <1>1 DEF RestoreIndex
<1>3. ArchiveType'
  BY <1>1, EmptySeq DEF ArchiveType
<1>4. NamesApart'
  BY <1>1 DEF NamesApart, Writing
<1>5. EntryWritten'
  BY <1>1 DEF EntryWritten, Writing
<1>6. ArchiveHolds'
  BY <1>1 DEF ArchiveHolds
<1>7. RewriteForms'
  BY <1>1 DEF RewriteForms
<1>8. RestoreIndex'
  BY <1>1, <1>2 DEF RestoreIndex, Restoring
<1>9. RestoredAreArchived'
  BY <1>1, <1>2, NothingTaken DEF ArchiveType
<1>10. NothingIsLost'
  BY <1>1, <1>2 DEF NothingIsLost
<1> QED  BY <1>3, <1>4, <1>5, <1>6, <1>7, <1>8, <1>9, <1>10

LEMMA RewriteInv ==
  ASSUME LZ4Lossless, CInv, PlacesOfCalls, Rewrite
  PROVE  CInv'
<1> USE DEF CInv
<1>1. PICK n \in 0 .. Len(buffer) :
        /\ archive' = SubSeq(buffer, 1, n)
        /\ whole' = (whole /\ n = Len(buffer))
        /\ form' = IF pc = "write packed" /\ n = Len(buffer) THEN "packed" ELSE form
  BY DEF Rewrite
<1>2. /\ pc \in {"write packed", "write unpacked"} /\ pc' = "idle" /\ result' = "TRUE"
      /\ source' = NoFiles /\ files' = <<>> /\ buffer' = <<>> /\ index' = 0 /\ bad' = FALSE
      /\ UNCHANGED <<restored, archived, taken, cut, call, before>>
  BY DEF Rewrite, Return, Forget
<1>3. call # "decompression" /\ taken = 0
  BY <1>2 DEF RestoreIndex
<1>4. Image(archived) \in Seq(Byte)
  BY FramesType DEF ArchiveType
<1>5. ArchiveHolds' /\ archive' \in Seq(Byte)
  <2>1. CASE pc = "write packed"
    <3>1. PackOf(buffer, Image(archived), whole) /\ form = "torn"
      BY <2>1 DEF ArchiveHolds, RewriteForms
    <3>2. buffer \in Seq(Byte) /\ SubSeq(buffer, 1, Len(buffer)) = buffer
      BY <1>4, <3>1, PackBytes
    <3>3. archive' \in Seq(Byte)
      BY <1>1, <3>2, FirstElements
    <3>4. CASE n = Len(buffer)
      <4>1. form' = "packed" /\ archive' = buffer
        BY <1>1, <2>1, <3>2, <3>4
      <4>2. PackOf(archive', Image(archived'), whole')
        BY <1>1, <1>2, <3>1, <3>4, <4>1 DEF PackOf
      <4> QED  BY <1>2, <3>3, <4>1, <4>2 DEF ArchiveHolds
    <3>5. CASE n # Len(buffer)
      <4>1. form' = "torn"
        BY <1>1, <3>1, <3>5
      <4> QED  BY <1>2, <3>3, <4>1 DEF ArchiveHolds
    <3> QED  BY <3>4, <3>5
  <2>2. CASE pc = "write unpacked"
    <3>1. CutOf(buffer, Image(archived), whole) /\ form' = "plain"
      BY <1>1, <2>2 DEF ArchiveHolds, RewriteForms
    <3>2. buffer \in Seq(Byte)
      BY <1>4, <3>1, CutBytes
    <3>3. archive' \in Seq(Byte)
      BY <1>1, <3>2, FirstElements
    <3>4. /\ CutOf(archive', Image(archived), FALSE)
          /\ n = Len(buffer) => CutOf(archive', Image(archived), whole)
      BY <1>1, <1>4, <3>1, CutAgain
    <3>5. CutOf(archive', Image(archived), whole')
      <4>1. CASE n = Len(buffer)
        <5>1. whole' => whole
          BY <1>1
        <5> QED  BY <3>4, <4>1, <5>1 DEF CutOf
      <4>2. CASE n # Len(buffer)
        <5>1. ~whole'
          BY <1>1, <4>2
        <5> QED  BY <3>4, <5>1 DEF CutOf
      <4> QED  BY <4>1, <4>2
    <3> QED  BY <1>2, <3>1, <3>3, <3>5 DEF ArchiveHolds, Due
  <2> QED  BY <1>2, <2>1, <2>2
<1>6. ArchiveType'
  BY <1>2, <1>5, EmptyFolder, EmptySeq DEF ArchiveType
<1>7. NamesApart'
  BY <1>2 DEF NamesApart, Writing
<1>8. EntryWritten'
  BY <1>2 DEF EntryWritten, Writing
<1>9. RewriteForms'
  BY <1>2 DEF RewriteForms
<1>10. RestoreIndex'
  BY <1>2, <1>3 DEF RestoreIndex, Restoring
<1>11. RestoredAreArchived'
  BY <1>2, <1>3, NothingTaken DEF ArchiveType
<1>12. NothingIsLost'
  BY <1>2, <1>3 DEF NothingIsLost
<1> QED  BY <1>5, <1>6, <1>7, <1>8, <1>9, <1>10, <1>11, <1>12

-----------------------------------------------------------------------------
(* Restoring.                                                              *)

LEMMA ReadArchiveInv ==
  ASSUME CInv, PlacesOfCalls, ReadArchive
  PROVE  CInv'
<1> USE DEF CInv
<1>1. /\ pc = "idle" /\ form = "plain" /\ pc' = "divide" /\ call' = "decompression" /\ result' = "none"
      /\ restored' = NoFiles /\ taken' = 0 /\ cut' = {} /\ buffer' = archive
      /\ UNCHANGED <<source, archive, files, index, bad, form, whole, archived>>
  BY DEF ReadArchive, Begin, Goto
<1>2. ArchiveType'
  BY <1>1, EmptyFolder DEF ArchiveType
<1>3. NamesApart'
  BY <1>1 DEF NamesApart, Writing
<1>4. EntryWritten'
  BY <1>1 DEF EntryWritten, Writing
<1>5. ArchiveHolds'
  BY <1>1 DEF ArchiveHolds, Due
<1>6. RewriteForms'
  BY <1>1 DEF RewriteForms
<1>7. RestoreIndex'
  <2>1. index = 0
    BY <1>1 DEF RestoreIndex, Restoring
  <2>2. 0 \in 0 .. Len(archived) /\ Len(archived) \in Nat
    BY LenProperties DEF ArchiveType
  <2>3. First(0) = <<>>
    BY <2>2, FirstFiles
  <2>4. Len(First(0)) = 0
    BY <2>3, EmptySeq
  <2>5. Len(archive) \in Nat
    BY LenProperties DEF ArchiveType
  <2>6. First(taken)' = First(0)
    BY <1>1 DEF First
  <2>7. taken' <= Len(archived') /\ Len(First(taken)') <= Len(archive') /\ index' = Len(First(taken)')
    BY <1>1, <2>1, <2>2, <2>4, <2>5, <2>6
  <2> QED  BY <1>1, <2>7 DEF RestoreIndex, Restoring
<1>8. RestoredAreArchived'
  BY <1>1, NothingTaken DEF ArchiveType
<1>9. NothingIsLost'
  BY <1>1 DEF NothingIsLost
<1> QED  BY <1>2, <1>3, <1>4, <1>5, <1>6, <1>7, <1>8, <1>9

LEMMA OpenFileInv ==
  ASSUME CInv, PlacesOfCalls, OpenFile
  PROVE  CInv'
<1> USE DEF CInv
<1> DEFINE k == taken + 1
           name == ParsedName.data
<1>1. /\ pc = "divide" /\ Parsed.data # <<>> /\ pc' = "write file"
      /\ restored' = [restored EXCEPT ![name] = <<>>]
      /\ taken' = k /\ cut' = cut \cup {name}
      /\ UNCHANGED <<source, archive, files, buffer, index, bad, result, form, whole, archived, call,
                     before>>
  BY DEF OpenFile
<1>2. /\ form = "plain" /\ buffer = archive /\ taken <= Len(archived) /\ result = "none"
      /\ Len(First(taken)) <= Len(archive) /\ index = Len(First(taken)) /\ pc \in Restoring
      /\ call = "decompression"
  BY <1>1 DEF RestoreIndex, Restoring, PlacesOfCalls
<1>3. taken \in Nat /\ Len(archived) \in Nat /\ archived \in Seq(Name \X Content)
      /\ restored \in [Name -> Seq(Byte) \cup {Gone}]
  BY LenProperties DEF ArchiveType
<1>4. taken \in 0 .. Len(archived)
  BY <1>2, <1>3
<1>5. /\ taken < Len(archived) /\ Len(First(k)) <= Len(archive)
      /\ name = archived[k][1]
  BY <1>1, <1>2, <1>4, EntryParsed
<1>6. k \in 1 .. Len(archived) /\ k \in Nat /\ k - 1 = taken /\ k >= 1 /\ k <= Len(archived)
  BY <1>3, <1>5
<1>7. archived[k] \in Name \X Content /\ name \in Name /\ archived[k][2] \in Seq(Byte)
  <2>1. archived[k] \in Name \X Content
    BY <1>3, <1>6, ElementOfSeq
  <2> QED  BY <1>5, <2>1, EntryBytes
<1> HIDE DEF k, name
<1>8. restored'[name] = <<>> /\ \A other \in Name : other # name => restored'[other] = restored[other]
  BY <1>1, <1>3, <1>7
<1>9. ArchiveType'
  <2>1. restored' \in [Name -> Seq(Byte) \cup {Gone}]
    <3>1. <<>> \in Seq(Byte)
      BY EmptySeq
    <3> QED  BY <1>1, <1>3, <3>1
  <2> QED  BY <1>1, <1>6, <2>1 DEF ArchiveType
<1>10. NamesApart'
  BY <1>1 DEF NamesApart, Writing
<1>11. EntryWritten'
  BY <1>1 DEF EntryWritten, Writing
<1>12. ArchiveHolds'
  BY <1>1 DEF ArchiveHolds, Due
<1>13. RewriteForms'
  BY <1>1 DEF RewriteForms
<1>14. RestoreIndex'
  <2>1. First(taken)' = First(k) /\ First(taken - 1)' = First(taken)
    BY <1>1, <1>6 DEF First
  <2>2. taken' <= Len(archived') /\ taken' >= 1
    <3>1. taken' = k /\ archived' = archived
      BY <1>1
    <3> QED  BY <1>6, <3>1
  <2>3. Len(First(taken)') <= Len(archive') /\ index' = Len(First(taken - 1)')
    BY <1>1, <1>2, <1>5, <2>1
  <2>4. archived'[taken'][1] \in cut' /\ restored'[archived'[taken'][1]] = <<>>
    BY <1>1, <1>5, <1>8
  <2> QED  BY <1>1, <1>2, <2>2, <2>3, <2>4 DEF RestoreIndex, Restoring
<1>15. RestoredAreArchived'
  <2>1. taken' <= Len(archived')
    <3>1. taken' = k /\ archived' = archived
      BY <1>1
    <3> QED  BY <1>6, <3>1
  <2>2. ASSUME NEW i \in 1 .. taken'
        PROVE  LET nm == archived[i][1]
               IN  /\ restored'[nm] # Gone
                   /\ IsPrefix(restored'[nm], archived[i][2])
                   /\ nm \notin cut' => restored'[nm] = archived[i][2]
    <3>1. CASE i = k
      <4>1. archived[i][1] = name /\ restored'[name] = <<>> /\ name \in cut'
        BY <1>1, <1>5, <1>8, <3>1
      <4>2. <<>> # Gone
        BY ArchiveAssumption, EmptySeq
      <4>3. IsPrefix(<<>>, archived[i][2])
        <5>1. Len(<<>>) = 0 /\ SubSeq(<<>>, 1, 0) = <<>> /\ SubSeq(archived[i][2], 1, 0) = <<>>
          BY SubSeqEmpty, EmptySeq
        <5>2. 0 <= Len(archived[i][2])
          BY <1>7, <3>1, LenProperties
        <5> QED  BY <5>1, <5>2 DEF IsPrefix
      <4> QED  BY <4>1, <4>2, <4>3
    <3>2. CASE i # k
      <4>1. i \in 1 .. taken /\ i \in 1 .. Len(archived)
        <5>1. i \in 1 .. k
          BY <1>1
        <5>2. i \in 1 .. taken
          BY <1>3, <1>6, <3>2, <5>1
        <5> QED  BY <1>3, <1>4, <5>2
      <4>2. archived[i] \in Name \X Content
        BY <1>3, <4>1, ElementOfSeq
      <4>3. archived[i][1] # name
        BY <1>5, <1>6, <3>2, <4>1 DEF NamesApart
      <4>4. restored'[archived[i][1]] = restored[archived[i][1]]
        BY <1>8, <4>2, <4>3
      <4>5. /\ restored[archived[i][1]] # Gone
            /\ IsPrefix(restored[archived[i][1]], archived[i][2])
            /\ archived[i][1] \notin cut => restored[archived[i][1]] = archived[i][2]
        BY <4>1 DEF RestoredAreArchived
      <4> QED  BY <1>1, <4>4, <4>5
    <3> QED  BY <3>1, <3>2
  <2> QED  BY <1>1, <2>1, <2>2 DEF RestoredAreArchived
<1>16. NothingIsLost'
  BY <1>1, <1>2 DEF NothingIsLost
<1> QED  BY <1>9, <1>10, <1>11, <1>12, <1>13, <1>14, <1>15, <1>16

LEMMA WriteFileInv ==
  ASSUME CInv, PlacesOfCalls, WriteFile
  PROVE  CInv'
<1> USE DEF CInv
<1> DEFINE name == ParsedName.data
           data == ParsedData
<1>1. /\ pc = "write file" /\ pc' = "divide" /\ index' = Parsed.index
      /\ UNCHANGED <<source, archive, files, buffer, bad, result, form, whole, archived, taken, call,
                     before>>
  BY DEF WriteFile
<1>2. PICK n \in 0 .. Len(data) :
        /\ restored' = [restored EXCEPT ![name] = SubSeq(data, 1, n)]
        /\ cut' = IF SubSeq(data, 1, n) = data THEN cut \ {name} ELSE cut
  BY DEF WriteFile
<1>3. /\ form = "plain" /\ buffer = archive /\ taken <= Len(archived) /\ result = "none"
      /\ Len(First(taken)) <= Len(archive) /\ taken >= 1 /\ index = Len(First(taken - 1))
      /\ archived[taken][1] \in cut /\ pc \in Restoring
      /\ call = "decompression"
  BY <1>1 DEF RestoreIndex, Restoring, PlacesOfCalls
<1>4. taken \in Nat /\ Len(archived) \in Nat /\ archived \in Seq(Name \X Content)
      /\ restored \in [Name -> Seq(Byte) \cup {Gone}]
  BY LenProperties DEF ArchiveType
<1> DEFINE k == taken - 1
<1>5. k \in 0 .. Len(archived) /\ k < Len(archived) /\ k + 1 = taken /\ taken \in 1 .. Len(archived)
  <2>1. taken >= 1 /\ taken <= Len(archived) /\ taken \in Nat /\ Len(archived) \in Nat
    BY <1>3, <1>4
  <2> QED  BY <2>1
<1> HIDE DEF k
<1>6. Len(First(k)) <= Len(archive) /\ index = Len(First(k))
  <2>1. Len(First(taken - 1)) <= Len(First(taken)) /\ Len(First(taken)) \in Nat /\ Len(First(taken - 1)) \in Nat
    <3>1. LET at == Len(Image(SubSeq(archived, 1, taken - 1)))
              upto == Len(Image(SubSeq(archived, 1, taken)))
          IN  /\ at \in Nat /\ upto \in Nat
              /\ upto = at + Len(Frame(archived[taken]))
      BY <1>4, <1>5, ImageStep
    <3>2. Len(Frame(archived[taken])) \in Nat
      <4>1. archived[taken] \in Name \X Content
        BY <1>4, <1>5, ElementOfSeq
      <4> QED  BY <4>1, EntryBytes, LenProperties
    <3> DEFINE at == Len(First(taken - 1))
               upto == Len(First(taken))
    <3>3. at \in Nat /\ upto \in Nat /\ upto = at + Len(Frame(archived[taken]))
      BY <3>1 DEF First
    <3> HIDE DEF at, upto
    <3>4. at <= upto
      BY <3>2, <3>3
    <3> QED  BY <3>3, <3>4 DEF at, upto
  <2>2. Len(archive) \in Nat
    BY LenProperties DEF ArchiveType
  <2>3. Len(First(taken - 1)) <= Len(archive)
    BY <1>3, <2>1, <2>2
  <2> QED  BY <1>3, <2>3 DEF k
<1>7. Parsed.index = Len(First(taken)) /\ name = archived[taken][1] /\ data = archived[taken][2]
  <2>1. Len(First(k + 1)) <= Len(archive)
    BY <1>3, <1>5
  <2>2. Parsed.index = Len(First(k + 1)) /\ name = archived[k + 1][1] /\ data = archived[k + 1][2]
    BY <1>3, <1>5, <1>6, <2>1, EntryParsed
  <2> QED  BY <1>5, <2>2
<1> HIDE DEF name, data
<1>8. name \in Name /\ data \in Seq(Byte)
  <2>1. archived[taken] \in Name \X Content
    BY <1>4, <1>5, ElementOfSeq
  <2>2. archived[taken][1] \in Name /\ archived[taken][2] \in Seq(Byte)
    BY <2>1, EntryBytes
  <2> QED  BY <1>7, <2>2
<1> DEFINE content == SubSeq(data, 1, n)
<1>9. content \in Seq(Byte) /\ Len(content) = n
  BY <1>8, FirstElements
<1>10. restored'[name] = content /\ \A other \in Name : other # name => restored'[other] = restored[other]
  BY <1>2, <1>4, <1>8
<1>11. cut \ {name} \subseteq cut' /\ (name \notin cut' => content = data)
  <2>1. name \in cut
    BY <1>3, <1>7
  <2> QED  BY <1>2, <2>1
<1>12. ArchiveType'
  <2>1. restored' \in [Name -> Seq(Byte) \cup {Gone}]
    BY <1>2, <1>4, <1>9
  <2> QED  BY <1>1, <2>1 DEF ArchiveType
<1>13. NamesApart'
  BY <1>1 DEF NamesApart, Writing
<1>14. EntryWritten'
  BY <1>1 DEF EntryWritten, Writing
<1>15. ArchiveHolds'
  BY <1>1 DEF ArchiveHolds, Due
<1>16. RewriteForms'
  BY <1>1 DEF RewriteForms
<1>17. RestoreIndex'
  <2>1. First(taken)' = First(taken)
    BY <1>1 DEF First
  <2>2. index' = Len(First(taken)') /\ Len(First(taken)') <= Len(archive') /\ taken' <= Len(archived')
    BY <1>1, <1>3, <1>7, <2>1
  <2> QED  BY <1>1, <1>3, <2>2 DEF RestoreIndex, Restoring
<1>18. RestoredAreArchived'
  <2>1. taken' <= Len(archived')
    BY <1>1, <1>3
  <2>2. ASSUME NEW i \in 1 .. taken
        PROVE  LET nm == archived[i][1]
               IN  /\ restored'[nm] # Gone
                   /\ IsPrefix(restored'[nm], archived[i][2])
                   /\ nm \notin cut' => restored'[nm] = archived[i][2]
    <3>1. CASE i = taken
      <4>1. archived[i][1] = name /\ archived[i][2] = data /\ restored'[name] = content
        BY <1>7, <1>10, <3>1
      <4>2. content # Gone
        BY <1>9, ArchiveAssumption
      <4>3. IsPrefix(content, data)
        <5>1. Len(data) \in Nat /\ n <= Len(data)
          BY <1>8, LenProperties
        <5>2. SubSeq(content, 1, Len(content)) = content
          BY <1>9, SubSeqFull
        <5>3. Len(content) <= Len(data) /\ SubSeq(content, 1, Len(content)) = SubSeq(data, 1, Len(content))
          BY <1>9, <5>1, <5>2
        <5> QED  BY <5>3 DEF IsPrefix
      <4> HIDE DEF content
      <4> QED  BY <1>11, <4>1, <4>2, <4>3
    <3>2. CASE i # taken
      <4>1. i \in 1 .. Len(archived)
        BY <1>4, <1>5
      <4>2. archived[i] \in Name \X Content
        BY <1>4, <4>1, ElementOfSeq
      <4>3. archived[i][1] # name
        BY <1>5, <1>7, <3>2, <4>1 DEF NamesApart
      <4>4. restored'[archived[i][1]] = restored[archived[i][1]]
        BY <1>10, <4>2, <4>3
      <4>5. /\ restored[archived[i][1]] # Gone
            /\ IsPrefix(restored[archived[i][1]], archived[i][2])
            /\ archived[i][1] \notin cut => restored[archived[i][1]] = archived[i][2]
        BY <2>2 DEF RestoredAreArchived
      <4>6. archived[i][1] \notin cut' => archived[i][1] \notin cut
        BY <1>11, <4>3
      <4> QED  BY <4>4, <4>5, <4>6
    <3> QED  BY <3>1, <3>2
  <2> QED  BY <1>1, <2>1, <2>2 DEF RestoredAreArchived
<1>19. NothingIsLost'
  BY <1>1, <1>3 DEF NothingIsLost
<1> QED  BY <1>12, <1>13, <1>14, <1>15, <1>16, <1>17, <1>18, <1>19

\* Other programs change only the folder that is archived.
LEMMA ChangeInv ==
  ASSUME CInv, PlacesOfCalls, NEW name \in Name, Change(name)
  PROVE  CInv'
<1> USE DEF CInv
<1>1. UNCHANGED <<archive, restored, processVars, historyVars>>
  BY DEF Change
<1>2. source' \in [Name -> Content \cup {Gone}]
  BY DEF Change, ArchiveType
<1>3. ArchiveType' /\ NamesApart' /\ EntryWritten' /\ ArchiveHolds'
  BY <1>1, <1>2 DEF ArchiveType, NamesApart, EntryWritten, ArchiveHolds, Due, First, processVars, historyVars
<1>4. RewriteForms' /\ RestoreIndex' /\ RestoredAreArchived' /\ NothingIsLost'
  BY <1>1 DEF RewriteForms, RestoreIndex, RestoredAreArchived, NothingIsLost, First, processVars, historyVars
<1> QED  BY <1>3, <1>4

LEMMA CInitInv == FAInit => CInv
<1> SUFFICES ASSUME FAInit
             PROVE  CInv
  OBVIOUS
<1> USE DEF FAInit
<1>1. archived \in Seq(Name \X Content) /\ Len(archived) = 0 /\ taken = 0
  BY EmptySeq
<1>2. ArchiveType
  BY <1>1, EmptyFolder, EmptySeq DEF ArchiveType
<1>3. NamesApart /\ EntryWritten /\ ArchiveHolds /\ RewriteForms /\ RestoreIndex
  BY <1>1 DEF NamesApart, EntryWritten, ArchiveHolds, RewriteForms, RestoreIndex, Writing, Restoring
<1>4. RestoredAreArchived /\ NothingIsLost
  <2>1. \A k \in 1 .. taken : FALSE
    BY <1>1
  <2> QED  BY <1>1, <2>1 DEF RestoredAreArchived, NothingIsLost
<1> QED  BY <1>2, <1>3, <1>4 DEF CInv

LEMMA CNextInv ==
  ASSUME LZ4Lossless, CInv, PlacesOfCalls, [FANext]_vars
  PROVE  CInv'
<1>1. CASE ListFiles
  BY <1>1, ListFilesInv
<1>2. CASE OpenArchive
  BY <1>2, OpenArchiveInv
<1>3. CASE ReadFile
  BY <1>3, ReadFileInv
<1>4. CASE WriteSize
  BY <1>4, WriteSizeInv
<1>5. CASE WriteEntry
  BY <1>5, WriteEntryInv
<1>6. CASE EndArchive
  BY <1>6, EndArchiveInv
<1>7. ASSUME NEW block_bytes \in BlockBytes, Compress(block_bytes) \/ Decompress(block_bytes)
      PROVE  CInv'
  BY <1>7, CompressInv, DecompressInv
<1>8. CASE Truncate
  BY <1>8, TruncateInv
<1>9. CASE Rewrite
  BY <1>9, RewriteInv
<1>10. CASE ReadArchive
  BY <1>10, ReadArchiveInv
<1>11. CASE OpenFile
  BY <1>11, OpenFileInv
<1>12. CASE WriteFile
  BY <1>12, WriteFileInv
<1>13. CASE EndRestore
  BY <1>13, EndRestoreInv
<1>14. CASE OpenFails
  BY <1>14, OpenFailsInv
<1>15. ASSUME NEW name \in Name, Change(name)
       PROVE  CInv'
  BY <1>15, ChangeInv
<1>16. CASE Crash
  BY <1>16, CrashInv
<1>17. CASE UNCHANGED vars
  <2>1. ArchiveType' /\ NamesApart' /\ EntryWritten' /\ ArchiveHolds'
    BY <1>17 DEF CInv, ArchiveType, NamesApart, EntryWritten, ArchiveHolds, Due, First, vars, diskVars,
                 processVars, historyVars
  <2>2. RewriteForms' /\ RestoreIndex' /\ RestoredAreArchived' /\ NothingIsLost'
    BY <1>17 DEF CInv, RewriteForms, RestoreIndex, RestoredAreArchived, NothingIsLost, First, vars,
                 diskVars, processVars, historyVars
  <2> QED  BY <2>1, <2>2 DEF CInv
<1> QED  BY <1>1, <1>2, <1>3, <1>4, <1>5, <1>6, <1>7, <1>8, <1>9, <1>10, <1>11, <1>12, <1>13, <1>14,
            <1>15, <1>16, <1>17 DEF FANext

\* The invariant that the two theorems below rest on.
THEOREM ArchiveInvariant ==
  ASSUME LZ4Lossless
  PROVE  FASpec => [](CInv /\ AInv)
<1>1. FAInit => CInv /\ AInv
  BY CInitInv, AInitInv
<1>2. CInv /\ AInv /\ [FANext]_vars => (CInv /\ AInv)'
  BY CNextInv, ANextInv DEF AInv
<1> QED  BY <1>1, <1>2, PTL DEF FASpec

\* What is restored is a beginning of what was archived, each file under its own name
\* with the content it had when it was read, wherever a crash, a full disk or a file
\* that vanished has cut the archive short.
THEOREM RestoresWhatWasArchived ==
  ASSUME LZ4Lossless
  PROVE  FASpec => []RestoredAreArchived
<1>1. CInv => RestoredAreArchived
  BY DEF CInv
<1> QED  BY <1>1, ArchiveInvariant, PTL

\* When nothing was lost on the way, all of it is restored, whatever blocks it was
\* compressed and decompressed with.
THEOREM RestoresAll ==
  ASSUME LZ4Lossless
  PROVE  FASpec => []NothingIsLost
<1>1. CInv => NothingIsLost
  BY DEF CInv
<1> QED  BY <1>1, ArchiveInvariant, PTL
=============================================================================
