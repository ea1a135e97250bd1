---------------------------- MODULE ChunkedFile ----------------------------
(***************************************************************************)
(* The data the transfer works on.  A file is the sequence of its chunks   *)
(* (chunkSize bytes each, the last one shorter); the contents of a chunk   *)
(* are a value of Blobs and its SHA-256 is represented by the contents     *)
(* itself, so equal hashes mean equal contents.  Chunk i here is chunk     *)
(* i - 1 of the C++ code.                                                  *)
(***************************************************************************)
EXTENDS Integers, Sequences, FiniteSets

CONSTANTS
  Blobs,      \* possible contents of one chunk
  NoData,     \* nothing: a read past the end of a file, a slot never written
  Files,      \* versions of the file behind the one name that is transferred
  MaxChunks,  \* no file has more chunks than this
  Short       \* the contents that are shorter than a C++ stream buffer

ASSUME ChunkedFileAssumption ==
  /\ MaxChunks \in Nat \ {0}
  /\ Short \subseteq Blobs
  /\ NoData \notin Blobs
  /\ Files \subseteq Seq(Blobs)
  /\ \A f \in Files : Len(f) <= MaxChunks

\* Chunk positions of the longest file.
Slots == 1..MaxChunks

\* Seeded fault: the offset is one chunk too far.
ReadChunkTooFar(f, i) == IF i + 1 \in 1..Len(f) THEN f[i + 1] ELSE NoData

\* FileManager::readChunk: the bytes at a chunk's offset, none past the end.
\* <<>> stands for a file that is empty or cannot be opened.
ReadChunk(f, i) == IF i \in 1..Len(f) THEN f[i] ELSE NoData

-----------------------------------------------------------------------------
(* The loop both ends run: for i in 1..n, skipping the chunks of have.     *)

\* j is the next chunk the loop stops at when it continues from i.
IsNext(j, i, have, n) ==
  /\ j \in i..n
  /\ j \notin have
  /\ \A k \in i..(j - 1) : k \in have

\* Seeded fault: the loop stops one chunk early.
NoneLeftOneShort(i, have, n) == \A k \in i..(n - 1) : k \in have

\* Nothing is left: the loop runs to its end.
NoneLeft(i, have, n) == \A k \in i..n : k \in have
=============================================================================
