-------------------------- MODULE ChunkArithmetic --------------------------
(***************************************************************************)
(* Where chunk i of a file begins and how long it is: the manifest         *)
(* computes in size_t, the two loops of a transfer in uint32_t.  Chunks    *)
(* and offsets count from 0, as in the code.                               *)
(***************************************************************************)
EXTENDS Integers

CONSTANT Word  \* uint32_t holds 0 .. Word - 1

ASSUME WordAssumption == Word \in Nat \ {0}

U32(x) == x % Word

AtMost(m, n) == IF m <= n THEN m ELSE n

-----------------------------------------------------------------------------
\* ChunkManager::generateManifest: exact.
ManifestChunks(size, cs) == (size + cs - 1) \div cs
ManifestOffset(cs, i) == i * cs

\* Seeded fault: the manifest is computed in uint32_t as well.
ManifestLength32(size, cs, i) == AtMost(cs, U32(size - U32(i * cs)))

ManifestLength(size, cs, i) == AtMost(cs, size - i * cs)

-----------------------------------------------------------------------------
\* sendFile and recvFile: totalChunks, offset and size are truncated.
TotalChunks(size, cs) == U32(ManifestChunks(size, cs))

SendOffset(cs, i) == U32(i * cs)

SendLength(size, cs, i) == AtMost(cs, U32(size - SendOffset(cs, i)))

\* Seeded fault: the offset is taken from the chunks received so far.
WriteOffsetNext(cs, i) == U32(i * cs + cs)

\* out.seekp(i*cSize)
WriteOffset(cs, i) == U32(i * cs)
=============================================================================
