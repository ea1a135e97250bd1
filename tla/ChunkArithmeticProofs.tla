----------------------- MODULE ChunkArithmeticProofs -----------------------
(***************************************************************************)
(* The two loops cut a file as the manifest does when its size fits        *)
(* uint32_t, and never when it does not, for every size, every chunk size  *)
(* and every width of the word.                                            *)
(***************************************************************************)
EXTENDS ChunkArithmetic, TLAPS

-----------------------------------------------------------------------------
(* Products and quotients, one inequality at a time.                       *)

LEMMA Division ==
  ASSUME NEW x \in Nat, NEW d \in Nat \ {0}
  PROVE  /\ x \div d \in Nat
         /\ x % d \in 0..(d - 1)
         /\ x = (x \div d) * d + (x % d)
<1>1. x \div d \in Nat
  OBVIOUS
<1>2. x % d \in 0..(d - 1)
  OBVIOUS
<1>3. x = d * (x \div d) + (x % d)
  OBVIOUS
<1>4. d * (x \div d) = (x \div d) * d
  BY <1>1
<1> QED
  BY <1>1, <1>2, <1>3, <1>4

LEMMA Monotone ==
  ASSUME NEW x \in Nat, NEW y \in Nat, NEW d \in Nat, x <= y
  PROVE  x * d <= y * d
OBVIOUS

\* Reducing modulo Word leaves what fits.
LEMMA FitsWord ==
  ASSUME NEW x \in 0..(Word - 1)
  PROVE  U32(x) = x
BY WordAssumption DEF U32

\* The chunks of the manifest are those that begin inside the file.
LEMMA ChunkBegins ==
  ASSUME NEW size \in Nat, NEW cs \in Nat \ {0}, NEW i \in Nat
  PROVE  i < ManifestChunks(size, cs) <=> i * cs < size
<1> DEFINE n == ManifestChunks(size, cs)
           r == (size + cs - 1) % cs
<1>1. n \in Nat /\ r \in 0..(cs - 1) /\ size + cs - 1 = n * cs + r
  BY Division, size + cs - 1 \in Nat DEF ManifestChunks
<1> HIDE DEF n, r
<1>2. CASE i < n
  <2>1. (i + 1) * cs <= n * cs
    BY <1>1, <1>2, Monotone
  <2>2. (i + 1) * cs = i * cs + cs /\ i * cs \in Nat /\ n * cs \in Nat
    BY <1>1
  <2>3. i * cs < size
    BY <1>1, <2>1, <2>2
  <2> QED
    BY <1>2, <2>3 DEF n
<1>3. CASE ~(i < n)
  <2>1. n * cs <= i * cs
    BY <1>1, <1>3, Monotone
  <2>2. i * cs \in Nat /\ n * cs \in Nat
    BY <1>1
  <2>3. ~(i * cs < size)
    BY <1>1, <2>1, <2>2
  <2> QED
    BY <1>3, <2>3 DEF n
<1> QED
  BY <1>2, <1>3

-----------------------------------------------------------------------------
\* A file below 2^32 bytes: sender and receiver place every chunk where the
\* manifest has it and with its length, none is empty, and none reaches
\* behind the end of the file (sendFile lines 161 and 162, recvFile line 296).
THEOREM SmallFilesExact ==
  ASSUME NEW size \in 0..(Word - 1), NEW cs \in Nat \ {0},
         NEW i \in Nat, i < ManifestChunks(size, cs)
  PROVE  /\ SendOffset(cs, i) = ManifestOffset(cs, i)
         /\ WriteOffset(cs, i) = ManifestOffset(cs, i)
         /\ SendLength(size, cs, i) = ManifestLength(size, cs, i)
         /\ SendLength(size, cs, i) > 0
         /\ SendOffset(cs, i) + SendLength(size, cs, i) <= size
<1>1. i * cs \in Nat /\ i * cs < size
  BY ChunkBegins
<1>2. U32(i * cs) = i * cs /\ U32(size - i * cs) = size - i * cs
  BY <1>1, WordAssumption, FitsWord
<1> QED
  BY <1>1, <1>2
     DEF SendOffset, WriteOffset, ManifestOffset, SendLength, ManifestLength, AtMost

\* Every byte of such a file is in exactly one of the chunks that are sent.
THEOREM EveryByteSentOnce ==
  ASSUME NEW size \in 0..(Word - 1), NEW cs \in Nat \ {0}, NEW k \in 0..(size - 1)
  PROVE  \A i \in 0..(ManifestChunks(size, cs) - 1) :
           k \in SendOffset(cs, i)..(SendOffset(cs, i) + SendLength(size, cs, i) - 1)
             <=> i = k \div cs
<1> DEFINE q == k \div cs
           r == k % cs
<1>1. q \in Nat /\ r \in 0..(cs - 1) /\ k = q * cs + r
  <2>1. k \in Nat
    BY WordAssumption
  <2> QED
    BY <2>1, Division
<1> HIDE DEF q, r
<1> SUFFICES ASSUME NEW i \in 0..(ManifestChunks(size, cs) - 1)
             PROVE  k \in SendOffset(cs, i)..(SendOffset(cs, i) + SendLength(size, cs, i) - 1)
                      <=> i = q
  BY DEF q
<1>2. ManifestChunks(size, cs) \in Nat
  BY Division, size + cs - 1 \in Nat DEF ManifestChunks
<1>3. i \in Nat /\ i < ManifestChunks(size, cs)
  BY <1>2
<1>4. SendOffset(cs, i) = i * cs
  BY <1>3, SmallFilesExact DEF ManifestOffset
<1>5. SendLength(size, cs, i) = AtMost(cs, size - i * cs)
  BY <1>3, SmallFilesExact DEF ManifestLength
<1>6. i * cs \in Nat /\ q * cs \in Nat
  BY <1>1, <1>3
<1>7. CASE i = q
  BY <1>1, <1>4, <1>5, <1>6, <1>7 DEF AtMost
<1>8. CASE i < q
  <2>1. (i + 1) * cs <= q * cs
    BY <1>1, <1>3, <1>8, Monotone
  <2>2. (i + 1) * cs = i * cs + cs
    BY <1>3
  <2>3. i * cs + AtMost(cs, size - i * cs) <= k
    BY <1>1, <1>6, <2>1, <2>2 DEF AtMost
  <2>4. AtMost(cs, size - i * cs) \in Int
    BY <1>6 DEF AtMost
  <2> QED
    BY <1>4, <1>5, <1>6, <1>8, <2>3, <2>4
<1>9. CASE i > q
  <2>1. (q + 1) * cs <= i * cs
    BY <1>1, <1>3, <1>9, Monotone
  <2>2. (q + 1) * cs = q * cs + cs
    BY <1>1
  <2>3. k < i * cs
    BY <1>1, <1>6, <2>1, <2>2
  <2>4. AtMost(cs, size - i * cs) \in Int
    BY <1>6 DEF AtMost
  <2> QED
    BY <1>4, <1>5, <1>6, <1>9, <2>3, <2>4
<1> QED
  BY <1>1, <1>3, <1>7, <1>8, <1>9

\* A file of 2^32 bytes or more: some chunk is sent shorter than the manifest
\* hashes it: compared with its own hash (line 290) it is refused.
THEOREM LargeFilesCut ==
  ASSUME NEW size \in Nat, size >= Word, NEW cs \in 1..Word
  PROVE  \E i \in Nat :
           /\ i < ManifestChunks(size, cs)
           /\ SendLength(size, cs, i) < ManifestLength(size, cs, i)
<1> DEFINE r == size % Word
           i == r \div cs
           x == r % cs
<1>1. r \in 0..(Word - 1) /\ size \div Word \in Nat
      /\ size = (size \div Word) * Word + r
  BY Division, WordAssumption
<1>2. i \in Nat /\ x \in 0..(cs - 1) /\ r = i * cs + x
  <2>1. r \in Nat /\ cs \in Nat \ {0}
    BY <1>1, WordAssumption
  <2> HIDE DEF r
  <2> QED
    BY <2>1, Division
<1> HIDE DEF i, x, r
<1>3. i * cs \in Nat
  BY <1>2
<1>4. i * cs \in 0..(Word - 1)
  BY <1>1, <1>2, <1>3, WordAssumption
<1>5. U32(i * cs) = i * cs
  BY <1>4, FitsWord
<1>6. U32(size - i * cs) = x
  <2>1. size - i * cs = (size \div Word) * Word + x
    BY <1>1, <1>2, <1>3, WordAssumption
  <2>2. x \in 0..(Word - 1)
    BY <1>1, <1>2, <1>3, WordAssumption
  <2>3. (size \div Word) * Word + x \in Nat
    BY <1>1, <2>2, WordAssumption
  <2> DEFINE z == (size \div Word) * Word + x
  <2>4. z \div Word \in Nat /\ z % Word \in 0..(Word - 1)
        /\ z = (z \div Word) * Word + (z % Word)
    BY <2>3, Division, WordAssumption
  <2> QED
    <3>1. \A a, b, c, d, w \in Nat :
            c < w /\ d < w /\ a * w + c = b * w + d => c = d
      <4> SUFFICES ASSUME NEW a \in Nat, NEW b \in Nat, NEW c \in Nat,
                          NEW d \in Nat, NEW w \in Nat,
                          c < w, d < w, a * w + c = b * w + d
                   PROVE  c = d
        OBVIOUS
      <4>1. a * w \in Nat /\ b * w \in Nat
        OBVIOUS
      <4>2. CASE a = b
        BY <4>1, <4>2
      <4>3. CASE a < b
        <5>1. (a + 1) * w <= b * w
          BY <4>3, Monotone
        <5>2. (a + 1) * w = a * w + w
          OBVIOUS
        <5> QED
          BY <4>1, <5>1, <5>2
      <4>4. CASE b < a
        <5>1. (b + 1) * w <= a * w
          BY <4>4, Monotone
        <5>2. (b + 1) * w = b * w + w
          OBVIOUS
        <5> QED
          BY <4>1, <5>1, <5>2
      <4> QED
        BY <4>2, <4>3, <4>4
    <3>2. x = z % Word
      BY <1>1, <2>2, <2>4, <3>1, WordAssumption
    <3> QED
      BY <2>1, <3>2 DEF U32
<1>7. SendLength(size, cs, i) = x
  BY <1>2, <1>5, <1>6 DEF SendLength, SendOffset, AtMost
<1>8. size - i * cs >= Word + x
  <2>1. size \div Word >= 1
    BY <1>1, WordAssumption
  <2>2. 1 * Word <= (size \div Word) * Word
    BY <1>1, <2>1, Monotone, WordAssumption
  <2> QED
    BY <1>1, <1>2, <1>3, <2>2, WordAssumption
<1>9. ManifestLength(size, cs, i) = cs
  BY <1>2, <1>3, <1>8, WordAssumption DEF ManifestLength, AtMost
<1>10. i < ManifestChunks(size, cs)
  BY <1>2, <1>3, <1>8, ChunkBegins, WordAssumption
<1> QED
  BY <1>2, <1>7, <1>9, <1>10
=============================================================================
