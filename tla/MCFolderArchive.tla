-------------------------- MODULE MCFolderArchive --------------------------
(* FolderArchive for TLC: two files, a size_t of two bytes and an int32_t of *)
(* one.  LZ4 is what it is for inputs this short: a token and the literals.  *)
EXTENDS FolderArchive

LittleEndian(n) == <<n % 256, n \div 256>>

FromLittleEndian(w) == w[1] + 256 * w[2]

OneByte(n) == <<n>>

FromOneByte(w) == w[1]

Literals(block) == <<16 * Len(block)>> \o block

FromLiterals(packed) == SubSeq(packed, 2, 1 + packed[1] \div 16)

Bytes == 0 .. 255

Names == {<<1>>, <<2>>}

\* (The hypothesis of the theorems about archives, for some blocks.)
ASSUME Lossless(UNION {[1 .. n -> {0, 1, 255}] : n \in 1 .. 5})

Contents3 == {<<>>, <<3, 4>>}

Blocks3 == {0, 5, 9}
=============================================================================
