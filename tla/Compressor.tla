----------------------------- MODULE Compressor -----------------------------
(***************************************************************************)
(* Utilities::Compressor (src/Utilities/Compressor.cpp): data is cut into  *)
(* blocks, each compressed by LZ4 and put behind its two sizes.  LZ4 is    *)
(* external: one operator for each direction, inverse to each other.       *)
(***************************************************************************)
EXTENDS Naturals, Sequences, FiniteSets, SequencesExt

CONSTANTS
  Refused,    \* std::nullopt
  IntSize,    \* sizeof(int32_t)
  IntWord(_), \* the bytes of an int32_t
  IntOf(_),   \* the int32_t of such bytes
  LZ4(_),     \* LZ4_compress_fast_continue on one block
  UnLZ4(_)    \* LZ4_decompress_safe_continue, when the result fits

\* The blocks of data, none longer than block_bytes.
Blocks(data, block_bytes) ==
  LET count == (Len(data) + block_bytes - 1) \div block_bytes
      Block(k) == SubSeq(data, (k - 1) * block_bytes + 1, Min({k * block_bytes, Len(data)}))
  IN  [k \in 1 .. count |-> Block(k)]

Packed(block) == IntWord(Len(block)) \o IntWord(Len(LZ4(block))) \o LZ4(block)

\* compression(original_data, block_bytes)
Compression(data, block_bytes) ==
  IF data = <<>> \/ block_bytes = 0
  THEN Refused
  ELSE FlattenSeq([k \in DOMAIN Blocks(data, block_bytes) |-> Packed(Blocks(data, block_bytes)[k])])

\* (Faulty variant: a block that does not fit is left out.)
DecompressionSkips(data, block_bytes) ==
  LET IntAt(i) == IntOf(SubSeq(data, i + 1, i + IntSize))
      Start(i) == i + 2 * IntSize
      End(i) == Start(i) + IntAt(i + IntSize)
      BlockAt(i) == UnLZ4(SubSeq(data, Start(i) + 1, End(i)))
      Turn[n \in 0 .. Len(data)] ==
        IF n = 0 THEN [read_index |-> 0, data |-> <<>>]
        ELSE LET turn == Turn[n - 1]
                 i == turn.read_index
             IN  IF i = Len(data) THEN turn
                 ELSE [read_index |-> End(i),
                       data |-> IF Len(BlockAt(i)) > block_bytes THEN turn.data
                                ELSE turn.data \o BlockAt(i)]
  IN  IF Turn[Len(data)].data = <<>> THEN Refused ELSE Turn[Len(data)].data

(***************************************************************************)
(* decompression(compressed_data, block_bytes) of data that compression()  *)
(* made: the blocks as far as they fit into block_bytes.  A block that does *)
(* not ends the loop, as a size of zero does.  Turn[n] is where the loop is *)
(* after n turns: each reads a byte at least, so Len(data) turns are enough. *)
(***************************************************************************)
Decompression(data, block_bytes) ==
  LET IntAt(i) == IntOf(SubSeq(data, i + 1, i + IntSize))
      Start(i) == i + 2 * IntSize
      End(i) == Start(i) + IntAt(i + IntSize)
      BlockAt(i) == UnLZ4(SubSeq(data, Start(i) + 1, End(i)))
      Ends(i) == \/ i = Len(data)
                 \/ IntAt(i) <= 0
                 \/ IntAt(i + IntSize) <= 0
                 \/ Len(BlockAt(i)) > block_bytes
      Turn[n \in 0 .. Len(data)] ==
        IF n = 0 THEN [read_index |-> 0, data |-> <<>>]
        ELSE LET turn == Turn[n - 1]
                 i == turn.read_index
             IN  IF Ends(i) THEN turn
                 ELSE [read_index |-> End(i), data |-> turn.data \o BlockAt(i)]
  IN  IF Turn[Len(data)].data = <<>> THEN Refused ELSE Turn[Len(data)].data
=============================================================================
