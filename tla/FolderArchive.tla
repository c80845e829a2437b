--------------------------- MODULE FolderArchive ---------------------------
(***************************************************************************)
(* A folder put into one file and taken out again:                         *)
(* Utilities::Folder::compression and decompression (Folder.cpp), over     *)
(* Combiner and File, and File::compression and decompression (File.cpp),  *)
(* which compress that file in place with Compressor.                      *)
(*                                                                         *)
(* One process makes the calls, one after the other.  Meanwhile other      *)
(* programs change and remove files of the source folder, the disk may be  *)
(* full at any byte (a stream that has failed writes nothing more, and     *)
(* write_bytes() says TRUE all the same), and the process may be killed    *)
(* between any two steps; what it has written stays.  A name is the path   *)
(* of a file relative to its folder, as bytes.                             *)
(***************************************************************************)
EXTENDS Combiner, Compressor

CONSTANTS
  Name, Content,  \* of the files of the source folder
  Gone,           \* there is no such file
  BlockBytes      \* the values of block_bytes that callers pass

ASSUME ArchiveAssumption ==
  /\ Name \subseteq Seq(Byte) \ {<<>>} /\ IsFiniteSet(Name)
  /\ Content \subseteq Seq(Byte)
  /\ Gone \notin Seq(Byte)
  /\ BlockBytes \subseteq Nat
  /\ \A name \in Name : \A data \in Content :
       Len(name) + Len(data) + 2 * WordSize <= MaxSize

\* LZ4 makes some bytes of each block and gives the block back; memcpy gives back
\* their sizes.
Lossless(blocks) ==
  \A block \in blocks :
    /\ LZ4(block) \in Seq(Byte) \ {<<>>}
    /\ UnLZ4(LZ4(block)) = block
    /\ \A n \in {Len(block), Len(LZ4(block))} :
         /\ IntWord(n) \in Seq(Byte) /\ Len(IntWord(n)) = IntSize
         /\ IntOf(IntWord(n)) = n

\* The hypothesis of the theorems about compressed archives.
LZ4Lossless ==
  Lossless({block \in Seq(Byte) : \E block_bytes \in BlockBytes : Len(block) \in 1 .. block_bytes})

VARIABLES
  source,    \* the folder that is archived, as long as someone reads it
  archive,   \* the bytes of the archive file
  restored,  \* the folder that decompression() writes
  pc,        \* where the call in progress is
  files,     \* the files it has still to read
  buffer,    \* what it has in memory: an entry, or the whole archive
  index,     \* how far decompression() is in it
  bad,       \* the stream that is written has failed
  result,    \* what the last call has returned
  form,      \* (history) what the archive file holds
  whole,     \* (history) nothing of it was lost on the way to the disk
  archived,  \* (history) the names and contents that compression() has read
  taken,     \* (history) the entries that decompression() has begun to write
  cut,       \* (history) the files it has not written to their end
  call,      \* (history) the last call
  before     \* (history) the archive file when it began

diskVars == <<source, archive, restored>>

processVars == <<pc, files, buffer, index, bad, result>>

historyVars == <<form, whole, archived, taken, cut, call, before>>

vars == <<diskVars, processVars, historyVars>>

NoFiles == [n \in Name |-> Gone]

FAInit ==
  /\ source = NoFiles
  /\ archive = <<>>
  /\ restored = NoFiles
  /\ pc = "idle" /\ files = <<>> /\ buffer = <<>> /\ index = 0 /\ bad = FALSE
  /\ result = "none"
  /\ form = "none" /\ whole = FALSE /\ archived = <<>> /\ taken = 0
  /\ cut = {} /\ call = "none" /\ before = <<>>

\* The client makes a call.  decompression() is given a new folder each time,
\* and the model keeps none longer than the call.
Begin(name) ==
  /\ pc = "idle"
  /\ call' = name
  /\ restored' = NoFiles /\ taken' = 0 /\ cut' = {}

Goto(place) == pc' = place /\ result' = "none"

Forget == source' = NoFiles /\ files' = <<>> /\ buffer' = <<>> /\ index' = 0 /\ bad' = FALSE

Return(answer) == pc' = "idle" /\ result' = answer /\ Forget

\* write_bytes(bytes) to the archive: all of them, or as many as the disk takes.
Write(bytes) ==
  /\ IF bad
     THEN UNCHANGED <<archive, bad>>
     ELSE \E n \in 0 .. Len(bytes) :
            /\ archive' = archive \o SubSeq(bytes, 1, n)
            /\ bad' = (n < Len(bytes))
  /\ whole' = (whole /\ ~bad')

-----------------------------------------------------------------------------
(* Folder::compression: the files are listed before the archive is opened. *)

Existing(folder) == {n \in Name : folder[n] # Gone}

ListFiles ==
  /\ Begin("compression")
  /\ Goto("open")
  /\ source' \in [Name -> Content \cup {Gone}]
  /\ files' \in SetToSeqs(Existing(source'))
  /\ before' = <<>>
  /\ UNCHANGED <<archive, buffer, index, bad, form, whole, archived>>

OpenArchive ==
  /\ pc = "open"
  /\ pc' = "read"
  /\ archive' = <<>>
  /\ bad' = FALSE
  /\ form' = "plain" /\ whole' = TRUE /\ archived' = <<>>
  /\ UNCHANGED <<source, restored, files, buffer, index, result, taken, cut, call, before>>

\* (Faulty variant: the content is appended before the name.)
EntryContentFirst(name, data) == Reverse(Framed(data) \o Framed(name))

Entry(name, data) == Reverse(Framed(name) \o Framed(data))

\* A file that is gone ends the call; the archive keeps what it has got.
ReadFile ==
  /\ pc = "read" /\ files # <<>>
  /\ LET name == Head(files)
         data == source[name]
     IN  IF data = Gone
         THEN Return("FALSE") /\ whole' = FALSE /\ UNCHANGED archived
         ELSE /\ buffer' = Entry(name, data)
              /\ archived' = Append(archived, <<name, data>>)
              /\ files' = Tail(files)
              /\ pc' = "write size"
              /\ UNCHANGED <<source, index, bad, result, whole>>
  /\ UNCHANGED <<archive, restored, form, taken, cut, call, before>>

WriteSize ==
  /\ pc = "write size"
  /\ Write(Word(Len(buffer)))
  /\ pc' = "write entry"
  /\ UNCHANGED <<source, restored, files, buffer, index, result, form, archived, taken, cut, call, before>>

WriteEntry ==
  /\ pc = "write entry"
  /\ Write(buffer)
  /\ pc' = "read"
  /\ UNCHANGED <<source, restored, files, buffer, index, result, form, archived, taken, cut, call, before>>

EndArchive ==
  /\ pc = "read" /\ files = <<>>
  /\ Return("TRUE")
  /\ UNCHANGED <<archive, restored, historyVars>>

-----------------------------------------------------------------------------
(* File::compression and File::decompression: the file is read, and opened *)
(* for writing, which empties it, when the new content is complete.  What  *)
(* a compressed file that was cut short is read as is undefined: here      *)
(* nobody reads one.                                                       *)

\* (Faulty variant: the file is opened for writing before its new content is
\* known to be good.)
TransformEmptiesFirst(name, data) ==
  /\ Begin(name)
  /\ before' = archive
  /\ IF data = Refused
     THEN archive' = <<>> /\ Return("FALSE")
     ELSE Goto(name) /\ buffer' = data /\ UNCHANGED <<source, archive, files, index, bad>>
  /\ UNCHANGED <<form, whole, archived>>

Transform(name, data) ==
  /\ Begin(name)
  /\ before' = archive
  /\ IF data = Refused
     THEN Return("FALSE")
     ELSE Goto(name) /\ buffer' = data /\ UNCHANGED <<source, files, index, bad>>
  /\ UNCHANGED <<archive, form, whole, archived>>

Compress(block_bytes) ==
  form = "plain" /\ Transform("pack", Compression(archive, block_bytes))

Decompress(block_bytes) ==
  form = "packed" /\ Transform("unpack", Decompression(archive, block_bytes))

Truncate ==
  /\ pc \in {"pack", "unpack"}
  /\ archive' = <<>>
  /\ pc' = IF pc = "pack" THEN "write packed" ELSE "write unpacked"
  /\ form' = IF pc = "pack" THEN "torn" ELSE "plain"
  /\ UNCHANGED <<source, restored, files, buffer, index, bad, result, whole, archived, taken, cut,
                 call, before>>

Rewrite ==
  /\ pc \in {"write packed", "write unpacked"}
  /\ \E n \in 0 .. Len(buffer) :
       /\ archive' = SubSeq(buffer, 1, n)
       /\ whole' = (whole /\ n = Len(buffer))
       /\ form' = IF pc = "write packed" /\ n = Len(buffer) THEN "packed" ELSE form
  /\ Return("TRUE")
  /\ UNCHANGED <<restored, archived, taken, cut, call, before>>

-----------------------------------------------------------------------------
(* Folder::decompression.                                                  *)

ReadArchive ==
  /\ form = "plain"
  /\ Begin("decompression")
  /\ Goto("divide")
  /\ buffer' = archive
  /\ before' = <<>>
  /\ UNCHANGED <<source, archive, files, index, bad, form, whole, archived>>

Parsed == Divide(buffer, index)

ParsedName == Divide(Parsed.data, 0)

ParsedData == Divide(Parsed.data, ParsedName.index).data

\* Opens, and empties, the file of the next entry.
OpenFile ==
  /\ pc = "divide" /\ Parsed.data # <<>>
  /\ restored' = [restored EXCEPT ![ParsedName.data] = <<>>]
  /\ taken' = taken + 1 /\ cut' = cut \cup {ParsedName.data}
  /\ pc' = "write file"
  /\ UNCHANGED <<source, archive, files, buffer, index, bad, result, form, whole, archived, call,
                 before>>

WriteFile ==
  /\ pc = "write file"
  /\ \E content \in {SubSeq(ParsedData, 1, n) : n \in 0 .. Len(ParsedData)} :
       /\ restored' = [restored EXCEPT ![ParsedName.data] = content]
       /\ cut' = IF content = ParsedData THEN cut \ {ParsedName.data} ELSE cut
  /\ index' = Parsed.index
  /\ pc' = "divide"
  /\ UNCHANGED <<source, archive, files, buffer, bad, result, form, whole, archived, taken, call,
                 before>>

EndRestore ==
  /\ pc = "divide" /\ Parsed.data = <<>>
  /\ Return("TRUE")
  /\ UNCHANGED <<archive, restored, historyVars>>

\* A file that cannot be opened for writing ends its call.
OpenFails ==
  /\ \/ pc \in {"open", "pack", "unpack"}
     \/ pc = "divide" /\ Parsed.data # <<>>
  /\ Return("FALSE")
  /\ UNCHANGED <<archive, restored, historyVars>>

-----------------------------------------------------------------------------
(* The rest of the world.                                                  *)

\* (Only the call that reads the folder can tell when.)
Change(name) ==
  /\ pc \in {"open", "read", "write size", "write entry"}
  /\ \E data \in Content \cup {Gone} : source' = [source EXCEPT ![name] = data]
  /\ UNCHANGED <<archive, restored, processVars, historyVars>>

\* A new process knows nothing of the old one.
Crash ==
  /\ pc # "idle"
  /\ Return("none")
  /\ whole' = (whole /\ pc \in {"open", "divide", "write file", "pack", "unpack"})
  /\ UNCHANGED <<archive, restored, form, archived, taken, cut, call, before>>

FANext ==
  \/ ListFiles \/ OpenArchive \/ ReadFile \/ WriteSize \/ WriteEntry \/ EndArchive
  \/ \E block_bytes \in BlockBytes : Compress(block_bytes) \/ Decompress(block_bytes)
  \/ Truncate \/ Rewrite
  \/ ReadArchive \/ OpenFile \/ WriteFile \/ EndRestore \/ OpenFails
  \/ \E name \in Name : Change(name)
  \/ Crash

FASpec == FAInit /\ [][FANext]_vars

-----------------------------------------------------------------------------
(* Properties.                                                             *)

\* Wherever a crash, a full disk or a file that disappeared has cut the archive
\* short, in place compression or not: what decompression() restores are the
\* first files that were archived, each under its own name with the content it
\* had when it was read, or the beginning of it where that write was cut short.
RestoredAreArchived ==
  /\ taken <= Len(archived)
  /\ \A k \in 1 .. taken :
       LET name == archived[k][1]
       IN  /\ restored[name] # Gone
           /\ IsPrefix(restored[name], archived[k][2])
           /\ name \notin cut => restored[name] = archived[k][2]

\* When nothing went wrong on the way, every archived file is restored, whatever
\* blocks the archive was compressed and decompressed with in between.
NothingIsLost ==
  call = "decompression" /\ result = "TRUE" /\ whole => taken = Len(archived)

\* In place compression that says FALSE, because block_bytes is too small for
\* the blocks of the file or because there is nothing to compress, leaves the
\* file as it was.
RefusedLeavesFile ==
  call \in {"pack", "unpack"} /\ result = "FALSE" => archive = before
=============================================================================
