------------------------- MODULE ByteTransferProofs -------------------------
(***************************************************************************)
(* Theorems about ByteTransfer, for files, chunks and messages of every    *)
(* size, reads of every length and every width of the word.                *)
(***************************************************************************)
EXTENDS ByteInvariants, ChunkArithmeticProofs, FiniteSetTheorems, WellFoundedInduction, SequenceTheorems

-----------------------------------------------------------------------------
(* Sequences of bytes.                                                     *)

LEMMA Element ==
  ASSUME NEW S, NEW s \in Seq(S), NEW k \in 1..Len(s)
  PROVE  s[k] \in S
OBVIOUS

LEMMA Joined ==
  ASSUME NEW S, NEW s \in Seq(S), NEW t \in Seq(S)
  PROVE  /\ s \o t \in Seq(S) /\ Len(s \o t) = Len(s) + Len(t)
         /\ \A k \in 1..Len(s) : (s \o t)[k] = s[k]
         /\ \A k \in 1..Len(t) : (s \o t)[Len(s) + k] = t[k]
OBVIOUS

LEMMA Glued ==
  ASSUME NEW S, NEW s \in Seq(S), NEW q \in Seq(S), NEW t \in Seq(S),
         NEW u \in Seq(S), NEW y \in Seq(S)
  PROVE  q = t \o u /\ y = s \o t => s \o q = y \o u
<1>1. (s \o t) \o u = s \o (t \o u)
  BY ConcatAssociative, SMTT(30)
<1> QED
  BY <1>1, Zenon

LEMMA FirstOf ==
  ASSUME NEW S, NEW s \in Seq(S), NEW t \in Seq(S), NEW all, all = s \o t, Len(s) > 0
  PROVE  all[1] = s[1]
OBVIOUS

First(q, n) == SubSeq(q, 1, n)

\* The first n elements, and what is behind them.
LEMMA Behind ==
  ASSUME NEW S, NEW s \in Seq(S), NEW n \in 0..Len(s)
  PROVE  /\ After(s, n) \in Seq(S) /\ Len(After(s, n)) = Len(s) - n
         /\ \A k \in 1..(Len(s) - n) : After(s, n)[k] = s[n + k]
         /\ First(s, n) \in Seq(S) /\ Len(First(s, n)) = n
         /\ First(s, n) \o After(s, n) = s
<1>1. /\ SubSeq(s, n + 1, Len(s)) \in Seq(S)
      /\ Len(SubSeq(s, n + 1, Len(s))) = Len(s) - n
      /\ \A k \in 1..(Len(s) - n) : SubSeq(s, n + 1, Len(s))[k] = s[n + k]
  OBVIOUS
<1>2. SubSeq(s, 1, n) \in Seq(S) /\ Len(SubSeq(s, 1, n)) = n
  <2>1. \A i \in 1..n : s[i] \in S
    OBVIOUS
  <2> QED
    BY <2>1, SubSeqProperties
<1>3. SubSeq(s, 1, n) \o SubSeq(s, n + 1, Len(s)) = s
  <2>1. /\ 1 \in 1..(Len(s) + 1) /\ n \in (1 - 1)..Len(s)
        /\ Len(s) \in n..Len(s)
    OBVIOUS
  <2>2. SubSeq(s, 1, n) \o SubSeq(s, n + 1, Len(s)) = SubSeq(s, 1, Len(s))
    BY <2>1, ConcatAdjacentSubSeq
  <2> QED
    BY <2>2, SubSeqFull
<1>4. After(s, n) = SubSeq(s, n + 1, Len(s)) /\ First(s, n) = SubSeq(s, 1, n)
  BY DEF After, First
<1> QED
  BY <1>1, <1>2, <1>3, <1>4

\* What a sequence is put behind does not show in it.
LEMMA BehindPrefix ==
  ASSUME NEW S, NEW x \in Seq(S), NEW p \in Seq(S)
  PROVE  p = After(x \o p, Len(x))
<1>1. Len(x \o p) = Len(x) + Len(p) /\ Len(x) \in Nat /\ Len(p) \in Nat
  BY Joined
<1>2. CASE Len(p) = 0
  <2>1. p = <<>>
    BY <1>2
  <2>2. Len(x \o p) < Len(x) + 1 /\ Len(x \o p) \in Int /\ Len(x) + 1 \in Int
    BY <1>1, <1>2
  <2> QED
    BY <2>1, <2>2, SubSeqEmpty DEF After
<1>3. CASE Len(p) # 0
  <2>1. /\ Len(x) + 1 \in (Len(x) + 1)..(Len(x) + Len(p))
        /\ Len(x) + Len(p) \in (Len(x) + 1)..(Len(x) + Len(p))
    BY <1>1, <1>3
  <2>2. SubSeq(x \o p, Len(x) + 1, Len(x) + Len(p))
          = SubSeq(p, Len(x) + 1 - Len(x), Len(x) + Len(p) - Len(x))
    BY <2>1, SubSeqOfConcat2
  <2>3. Len(x) + 1 - Len(x) = 1 /\ Len(x) + Len(p) - Len(x) = Len(p)
    BY <1>1
  <2> QED
    BY <1>1, <2>2, <2>3, SubSeqFull DEF After
<1> QED
  BY <1>2, <1>3

\* What can be left of q is what q ends with.
LEMMA RestIs ==
  ASSUME NEW S, NEW q \in Seq(S), NEW p \in RestOf(q)
  PROVE  p \in Seq(S) /\ \E x \in Seq(S) : q = x \o p
<1>1. PICK k \in 0..Len(q) : p = After(q, k)
  BY DEF RestOf
<1> QED
  BY <1>1, Behind

LEMMA RestTyped ==
  ASSUME NEW S, NEW q \in Seq(S), NEW p \in RestOf(q)
  PROVE  p \in Seq(S)
BY RestIs

LEMMA IsRest ==
  ASSUME NEW S, NEW x \in Seq(S), NEW p \in Seq(S), NEW q, q = x \o p
  PROVE  p \in RestOf(q)
<1>1. Len(x) \in 0..Len(q)
  BY Joined
<1>2. p = After(q, Len(x))
  BY BehindPrefix
<1> QED
  BY <1>1, <1>2 DEF RestOf

LEMMA RestTrivial ==
  ASSUME NEW S, NEW q \in Seq(S)
  PROVE  /\ q \in RestOf(q) /\ <<>> \in RestOf(q)
         /\ RestOf(<<>>) = {<<>>}
<1>1. <<>> \in Seq(S) /\ q = <<>> \o q /\ q = q \o <<>>
  BY ConcatEmptySeq
<1>2. q \in RestOf(q) /\ <<>> \in RestOf(q)
  BY <1>1, IsRest
<1>3. RestOf(<<>>) = {<<>>}
  <2>1. Len(<<>>) = 0 /\ 0..0 = {0} /\ SubSeq(<<>>, 0 + 1, 0) = <<>>
    BY SubSeqEmpty
  <2> QED
    BY <2>1 DEF RestOf, After
<1> QED
  BY <1>2, <1>3

\* What is left of what is left.
LEMMA RestOfRest ==
  ASSUME NEW S, NEW q \in Seq(S), NEW p \in RestOf(q), NEW r \in RestOf(p)
  PROVE  r \in RestOf(q)
<1>1. PICK x \in Seq(S) : q = x \o p
  BY RestIs, ZenonT(60)
<1>2. p \in Seq(S)
  BY RestTyped
<1>3. PICK y \in Seq(S) : p = y \o r
  BY <1>2, RestIs, ZenonT(60)
<1>4. r \in Seq(S)
  BY <1>2, RestTyped
<1>5. q = (x \o y) \o r /\ x \o y \in Seq(S)
  <2>1. (x \o y) \o r = x \o (y \o r)
    BY <1>4, ConcatAssociative, SMTT(30)
  <2>2. x \o y \in Seq(S)
    BY Joined, Zenon
  <2> QED
    BY <1>1, <1>3, <2>1, <2>2, Zenon
<1> QED
  BY <1>4, <1>5, IsRest

\* Bytes put behind it.
LEMMA RestAppended ==
  ASSUME NEW S, NEW q \in Seq(S), NEW e \in Seq(S), NEW p \in RestOf(q)
  PROVE  p \o e \in RestOf(q \o e)
<1>1. PICK x \in Seq(S) : q = x \o p
  BY RestIs, ZenonT(60)
<1>2. p \in Seq(S)
  BY RestIs, ZenonT(60)
<1>3. q \o e = x \o (p \o e) /\ p \o e \in Seq(S) /\ q \o e \in Seq(S)
  BY <1>1, <1>2, ConcatAssociative, Joined
<1> QED
  BY <1>3, IsRest

\* A read moves bytes from the wire to the buffer.
LEMMA ReadMoves ==
  ASSUME NEW S, NEW b \in Seq(S), NEW x \in Seq(S), NEW v \in Seq(S), x # <<>>
  PROVE  /\ b \o x \in Seq(S)
         /\ b \o (x \o v) = (b \o x) \o v
         /\ v = After(b \o (x \o v), Len(b \o x))
         /\ Len(b \o x) \in 1..Len(b \o (x \o v)) /\ Len(b) <= Len(b \o x)
         /\ (b \o x)[1] = (b \o (x \o v))[1]
         /\ Len(b) > 0 => b[1] = (b \o (x \o v))[1]
<1>1. b \o (x \o v) = (b \o x) \o v
  BY ConcatAssociative
<1>2. /\ b \o x \in Seq(S) /\ Len(b \o x) = Len(b) + Len(x)
      /\ Len(b) \in Nat /\ Len(x) \in Nat \ {0} /\ Len(v) \in Nat
      /\ \A k \in 1..Len(b) : (b \o x)[k] = b[k]
  BY Joined
<1>3. PICK c \in Seq(S) : c = b \o x
  BY <1>2
<1>4. v = After(c \o v, Len(c))
  BY BehindPrefix
<1>5. /\ Len(c \o v) = Len(c) + Len(v)
      /\ \A k \in 1..Len(c) : (c \o v)[k] = c[k]
  BY Joined
<1>6. Len(c) \in 1..Len(c \o v) /\ Len(b) <= Len(c)
  BY <1>2, <1>3, <1>5
<1>7. c[1] = (c \o v)[1]
  BY <1>5, <1>6
<1>8. Len(b) > 0 => b[1] = c[1]
  BY <1>2, <1>3
<1> QED
  BY <1>1, <1>2, <1>3, <1>4, <1>6, <1>7, <1>8

\* The bytes a read takes, and those it leaves.
LEMMA ReadTakes ==
  ASSUME NEW S, NEW w \in Seq(S), NEW n \in 1..Len(w)
  PROVE  \E x \in Seq(S), v \in Seq(S) :
           /\ x = First(w, n) /\ v = After(w, n)
           /\ x # <<>> /\ w = x \o v
<1>1. n \in 0..Len(w) /\ n # 0
  OBVIOUS
<1>2. /\ After(w, n) \in Seq(S)
      /\ First(w, n) \in Seq(S) /\ Len(First(w, n)) = n
      /\ First(w, n) \o After(w, n) = w
  BY <1>1, Behind
<1> QED
  BY <1>1, <1>2
-----------------------------------------------------------------------------
(* Numbers of chunks.                                                      *)

LEMMA LeastNat ==
  ASSUME NEW T \in SUBSET Nat, T # {}
  PROVE  \E x \in T : \A y \in T : x <= y
<1>1. PICK x \in T : \A y \in T : <<y, x>> \notin OpToRel(<, Nat)
  BY NatLessThanWellFounded, WFMin, Zenon
<1>2. \A y \in T : ~(y < x)
  BY <1>1 DEF OpToRel
<1> QED
  BY <1>2

LEMMA SetupFacts ==
  ASSUME ByteTypeOK
  PROVE  /\ size \in Nat \ {0} /\ cs \in Nat \ {0} /\ cs < Word
         /\ Word \in Nat \ {0} /\ MaxMessage \in Nat /\ MaxMessage < Word
         /\ HeaderSize \in Nat \ {0} /\ Overhead \in Nat /\ OfferSize \in Nat
         /\ ManifestChunks(size, cs) \in Nat
         /\ Total \in Nat /\ Total <= ManifestChunks(size, cs)
         /\ ManifestChunks(size, cs) < Word => Total = ManifestChunks(size, cs)
<1>1. /\ size \in Nat \ {0} /\ cs \in Nat \ {0} /\ cs < Word
      /\ Word \in Nat \ {0} /\ MaxMessage \in Nat /\ MaxMessage < Word
      /\ HeaderSize \in Nat \ {0} /\ Overhead \in Nat /\ OfferSize \in Nat
  BY WordAssumption, ByteAssumption DEF ByteTypeOK
<1>2. ManifestChunks(size, cs) \in Nat
  <2>1. size + cs - 1 \in Nat
    BY <1>1
  <2> QED
    BY <1>1, <2>1, Division DEF ManifestChunks
<1>3. ASSUME NEW n \in Nat PROVE U32(n) \in Nat /\ U32(n) <= n /\ (n < Word => U32(n) = n)
  <2>1. /\ n \div Word \in Nat /\ n % Word \in 0..(Word - 1)
        /\ n = (n \div Word) * Word + (n % Word)
    BY <1>1, Division
  <2>2. (n \div Word) * Word \in Nat
    BY <1>1, <2>1
  <2>3. n < Word => n % Word = n
    BY <1>1, FitsWord DEF U32
  <2> QED
    BY <1>1, <2>1, <2>2, <2>3 DEF U32
<1> QED
  BY <1>1, <1>2, <1>3 DEF Total, TotalChunks

\* The first chunk from i on that is not among have.
LEMMA SkipFinds ==
  ASSUME ByteTypeOK, NEW i \in Nat, NEW have
  PROVE  /\ Skip(i, have) \in Nat /\ Skip(i, have) >= i
         /\ Skip(i, have) >= Total \/ Skip(i, have) \notin have
         /\ \A k \in Nat : i <= k /\ k < Skip(i, have) => k \in have
<1> DEFINE T == {j \in i..(Total + i) : j >= Total \/ j \notin have}
<1>1. Total \in Nat
  BY SetupFacts
<1>2. T \in SUBSET Nat /\ Total + i \in T
  BY <1>1
<1>3. PICK x \in T : \A y \in T : x <= y
  BY <1>2, LeastNat
<1>4. \A k \in i..(x - 1) : k \in have
  BY <1>1, <1>3
<1>5. \E j \in i..(Total + i) :
        (j >= Total \/ j \notin have) /\ \A k \in i..(j - 1) : k \in have
  BY <1>3, <1>4
<1>6. /\ Skip(i, have) \in i..(Total + i)
      /\ Skip(i, have) >= Total \/ Skip(i, have) \notin have
      /\ \A k \in i..(Skip(i, have) - 1) : k \in have
  BY <1>5, Zenon DEF Skip
<1> QED
  BY <1>1, <1>6

\* Two sets that agree from i on skip the same.
LEMMA SkipAgrees ==
  ASSUME ByteTypeOK, NEW i \in Nat,
         NEW a \in SUBSET (0..(Total - 1)), NEW b \in SUBSET (0..(Total - 1)),
         \A k \in 0..(Total - 1) : k >= i => (k \in a <=> k \in b)
  PROVE  Skip(i, a) = Skip(i, b)
<1>0. Total \in Nat
  BY SetupFacts
<1>1. PICK x \in Nat : /\ x = Skip(i, a) /\ x >= i /\ (x >= Total \/ x \notin a)
                       /\ \A k \in Nat : i <= k /\ k < x => k \in a
  BY SkipFinds
<1>2. PICK y \in Nat : /\ y = Skip(i, b) /\ y >= i /\ (y >= Total \/ y \notin b)
                       /\ \A k \in Nat : i <= k /\ k < y => k \in b
  BY SkipFinds
<1>3. ~(x < y)
  <2> SUFFICES ASSUME x < y PROVE FALSE
    OBVIOUS
  <2>1. x \in b /\ x \in 0..(Total - 1)
    BY <1>1, <1>2
  <2> QED
    BY <1>0, <1>1, <2>1
<1>4. ~(y < x)
  <2> SUFFICES ASSUME y < x PROVE FALSE
    OBVIOUS
  <2>1. y \in a /\ y \in 0..(Total - 1)
    BY <1>1, <1>2
  <2> QED
    BY <1>0, <1>2, <2>1
<1> QED
  BY <1>1, <1>2, <1>3, <1>4

-----------------------------------------------------------------------------
(* Messages.                                                               *)

LEMMA WordRange ==
  ASSUME NEW x \in Int
  PROVE  U32(x) \in Nat /\ U32(x) < Word
BY WordAssumption DEF U32

\* What is read of a file, also behind its end.
LEMMA ReadBytesIs ==
  ASSUME ByteTypeOK, NEW offset \in Nat, NEW n \in Nat
  PROVE  /\ ReadBytes(offset, n) \in Seq(Int)
         /\ Len(ReadBytes(offset, n)) =
              IF offset <= size THEN AtMost(n, size - offset) ELSE 0
         /\ Len(ReadBytes(offset, n)) \in Nat /\ Len(ReadBytes(offset, n)) <= n
         /\ \A k \in 1..Len(ReadBytes(offset, n)) :
              ReadBytes(offset, n)[k] = Byte(offset + k - 1)
<1> DEFINE a == AtMost(n, size - offset)
<1>1. size \in Nat /\ a \in Int /\ a <= n /\ (offset <= size <=> a >= 0)
  BY SetupFacts DEF AtMost
<1>2. \A k \in 1..a : Byte(offset + k - 1) \in Int
  BY <1>1 DEF Byte
<1>3. ReadBytes(offset, n) = [k \in 1..a |-> Byte(offset + k - 1)]
  BY DEF ReadBytes
<1>4. CASE a >= 0
  <2> HIDE DEF a
  <2>1. a \in Nat
    BY <1>1, <1>4
  <2>2. [k \in 1..a |-> Byte(offset + k - 1)] \in Seq(Int)
        /\ Len([k \in 1..a |-> Byte(offset + k - 1)]) = a
    BY <1>2, <2>1
  <2> QED
    BY <1>1, <1>3, <2>1, <2>2 DEF a
<1>5. CASE a < 0
  <2> HIDE DEF a
  <2>1. 1..a = {}
    BY <1>1, <1>5
  <2>2. ReadBytes(offset, n) = <<>>
    BY <1>3, <2>1
  <2> QED
    BY <1>1, <1>5, <2>2
<1> QED
  BY <1>1, <1>4, <1>5

LEMMA MessagesAre ==
  ASSUME ByteTypeOK
  PROVE  /\ Offer \in Messages /\ Offer.type = "FILE_OFFER"
         /\ Offer.len = OfferSize + ManifestChunks(size, cs) + Overhead
         /\ Accept \in Messages /\ Accept.type = "FILE_ACCEPT" /\ Accept.len = Overhead
         /\ Ack \in Messages /\ Ack.type = "CHUNK_ACK" /\ Ack.len = Overhead
         /\ \A bits : /\ Bitmap(bits) \in Messages
                      /\ Bitmap(bits).type = "RESUME_BITMAP"
                      /\ Bitmap(bits).len = Total + Overhead
         /\ \A i \in Nat :
              /\ Sent(i) \in Messages /\ Sent(i).type = "CHUNK_DATA"
              /\ Sent(i).body = ReadBytes(SendOffset(cs, i), SendLength(size, cs, i))
<1> DEFINE Body(bits) == [k \in 1..Total |-> IF k - 1 \in bits THEN 1 ELSE 0]
<1>1. /\ OfferSize \in Nat /\ ManifestChunks(size, cs) \in Nat /\ Overhead \in Nat
      /\ Total \in Nat /\ cs \in Nat /\ size \in Nat
  BY SetupFacts
<1>2. <<>> \in Seq(Int)
  OBVIOUS
<1>3. ASSUME NEW i \in Nat
      PROVE  /\ ReadBytes(SendOffset(cs, i), SendLength(size, cs, i)) \in Seq(Int)
             /\ Len(ReadBytes(SendOffset(cs, i), SendLength(size, cs, i))) \in Nat
  <2>1. SendOffset(cs, i) \in Nat
    BY <1>1, WordRange DEF SendOffset
  <2>2. size - SendOffset(cs, i) \in Int
    BY <1>1, <2>1
  <2>3. SendLength(size, cs, i) \in Nat
    BY <1>1, <2>2, WordRange DEF SendLength, AtMost
  <2> QED
    BY <2>1, <2>3, ReadBytesIs
<1>4. ASSUME NEW bits PROVE Body(bits) \in Seq(Int)
  <2>1. Total \in Nat /\ \A k \in 1..Total : (IF k - 1 \in bits THEN 1 ELSE 0) \in Int
    BY <1>1
  <2> QED
    BY <2>1
<1>5. ASSUME NEW bits
      PROVE  Bitmap(bits) = [type |-> "RESUME_BITMAP", len |-> Total + Overhead,
                             body |-> Body(bits)]
  BY DEF Bitmap, Message
<1> HIDE DEF Body
<1>6. Offer = [type |-> "FILE_OFFER",
               len |-> OfferSize + ManifestChunks(size, cs) + Overhead, body |-> <<>>]
  BY DEF Offer, Message
<1>7. Accept = [type |-> "FILE_ACCEPT", len |-> Overhead, body |-> <<>>]
      /\ Ack = [type |-> "CHUNK_ACK", len |-> Overhead, body |-> <<>>]
  BY <1>1 DEF Accept, Ack, Message
<1>8. ASSUME NEW i \in Nat
      PROVE  Sent(i) = [type |-> "CHUNK_DATA",
                        len |-> Len(ReadBytes(SendOffset(cs, i), SendLength(size, cs, i)))
                                  + Overhead,
                        body |-> ReadBytes(SendOffset(cs, i), SendLength(size, cs, i))]
  BY DEF Sent, Chunk, Message
<1>9. ASSUME NEW i \in Nat
      PROVE  /\ Sent(i) \in Messages /\ Sent(i).type = "CHUNK_DATA"
             /\ Sent(i).body = ReadBytes(SendOffset(cs, i), SendLength(size, cs, i))
  <2> DEFINE body == ReadBytes(SendOffset(cs, i), SendLength(size, cs, i))
  <2>1. body \in Seq(Int) /\ Len(body) + Overhead \in Nat
    <3>1. body \in Seq(Int) /\ Len(body) \in Nat
      BY <1>3
    <3> HIDE DEF body
    <3> QED
      BY <1>1, <3>1
  <2>2. Sent(i) = [type |-> "CHUNK_DATA", len |-> Len(body) + Overhead, body |-> body]
    BY <1>8
  <2> HIDE DEF body
  <2>3. Sent(i) \in Messages /\ Sent(i).type = "CHUNK_DATA" /\ Sent(i).body = body
    BY <2>1, <2>2 DEF Messages
  <2> QED
    BY <2>3 DEF body
<1>10. \A bits : /\ Bitmap(bits) \in Messages
                 /\ Bitmap(bits).type = "RESUME_BITMAP"
                 /\ Bitmap(bits).len = Total + Overhead
  BY <1>1, <1>4, <1>5 DEF Messages
<1>11. /\ Offer \in Messages /\ Offer.type = "FILE_OFFER"
       /\ Offer.len = OfferSize + ManifestChunks(size, cs) + Overhead
  BY <1>1, <1>2, <1>6 DEF Messages
<1>12. /\ Accept \in Messages /\ Accept.type = "FILE_ACCEPT" /\ Accept.len = Overhead
       /\ Ack \in Messages /\ Ack.type = "CHUNK_ACK" /\ Ack.len = Overhead
  BY <1>1, <1>2, <1>7 DEF Messages
<1> QED
  BY <1>9, <1>10, <1>11, <1>12

\* The bytes of a message: none when it is longer than allowed.
LEMMA EncodeIs ==
  ASSUME NEW m \in Messages
  PROVE  /\ Encode(m) \in Seq(Octets)
         /\ m.len > MaxMessage => Encode(m) = <<>>
         /\ m.len <= MaxMessage =>
              /\ Len(Encode(m)) = HeaderSize + m.len
              /\ \A k \in 1..(HeaderSize + m.len) : Encode(m)[k] = [msg |-> m, at |-> k]
<1>1. m.len \in Nat /\ MaxMessage \in Nat /\ HeaderSize \in Nat
  BY ByteAssumption, WordAssumption DEF Messages
<1>2. CASE m.len > MaxMessage
  BY <1>1, <1>2 DEF Encode
<1>3. CASE m.len <= MaxMessage
  <2>1. Encode(m) = [k \in 1..(HeaderSize + m.len) |-> [msg |-> m, at |-> k]]
    BY <1>1, <1>3 DEF Encode
  <2>2. \A k \in 1..(HeaderSize + m.len) : [msg |-> m, at |-> k] \in Octets
    BY <1>1, <1>3 DEF Octets, TooLong
  <2>3. HeaderSize + m.len \in Nat
    BY <1>1
  <2> HIDE DEF Octets
  <2> QED
    BY <1>1, <1>3, <2>1, <2>2, <2>3
<1> QED
  BY <1>1, <1>2, <1>3

-----------------------------------------------------------------------------
(* Sending and receiving.                                                  *)

LEMMA HeaderKinds ==
  ASSUME NEW h \in Messages \cup Garbles
  PROVE  /\ h # NoHeader /\ h.len \in Nat
         /\ h \in Garbles <=> h.type = "GARBLED"
BY DEF Messages, Garbles, NoHeader

LEMMA StreamIs ==
  ASSUME ByteTypeOK, NEW end \in Ends
  PROVE  /\ stream[end] \in Directions
         /\ stream[end].wire \in Seq(Octets) /\ stream[end].buffer \in Seq(Octets)
         /\ stream[end].header \in Messages \cup Garbles \cup {NoHeader}
         /\ Bytes(end) \in Seq(Octets)
         /\ Len(Bytes(end)) = Len(stream[end].buffer) + Len(stream[end].wire)
         /\ \A k \in 1..Len(Bytes(end)) :
              /\ Bytes(end)[k].msg \in Messages
              /\ Bytes(end)[k].msg.len \in Nat /\ Bytes(end)[k].msg.len <= MaxMessage
<1>1. stream[end] \in Directions
  BY DEF ByteTypeOK
<1>2. /\ stream[end].wire \in Seq(Octets) /\ stream[end].buffer \in Seq(Octets)
      /\ stream[end].header \in Messages \cup Garbles \cup {NoHeader}
  BY <1>1 DEF Directions
<1>3. /\ Bytes(end) \in Seq(Octets)
      /\ Len(Bytes(end)) = Len(stream[end].buffer) + Len(stream[end].wire)
  BY <1>2, Joined DEF Bytes
<1>4. ASSUME NEW k \in 1..Len(Bytes(end))
      PROVE  /\ Bytes(end)[k].msg \in Messages
             /\ Bytes(end)[k].msg.len \in Nat /\ Bytes(end)[k].msg.len <= MaxMessage
  <2>1. Bytes(end)[k] \in Octets
    BY <1>3, Element
  <2>2. MaxMessage \in Nat
    BY ByteAssumption, WordAssumption
  <2> QED
    BY <2>1, <2>2 DEF Octets, Messages, TooLong
<1> QED
  BY <1>1, <1>2, <1>3, <1>4

\* The bytes of a direction after a read.
LEMMA CutIs ==
  ASSUME ByteTypeOK, NEW end \in Ends, NEW s \in Cuts(stream[end])
  PROVE  /\ s \in Directions /\ s.header = stream[end].header
         /\ s.wire \in Seq(Octets) /\ s.buffer \in Seq(Octets)
         /\ s.buffer \o s.wire = Bytes(end)
         /\ Len(s.buffer) \in 1..Len(Bytes(end))
         /\ s.wire = After(Bytes(end), Len(s.buffer))
         /\ s.buffer[1] = Bytes(end)[1]
         /\ Len(stream[end].buffer) > 0 => stream[end].buffer[1] = Bytes(end)[1]
         /\ Len(stream[end].buffer) <= Len(s.buffer)
<1>1. PICK b \in Seq(Octets), w \in Seq(Octets) :
        b = stream[end].buffer /\ w = stream[end].wire
  BY StreamIs
<1>2. stream[end] \in Directions
  BY StreamIs
<1>3. PICK n \in 1..AtMost(RecvMax, Len(w)) :
        s = [stream[end] EXCEPT !.wire = SubSeq(@, n + 1, Len(@)),
                                !.buffer = @ \o SubSeq(w, 1, n)]
  BY <1>1 DEF Cuts
<1>4. n \in 1..Len(w) /\ w \in Seq(Octets) /\ b \in Seq(Octets)
  BY <1>1, ByteAssumption DEF AtMost
<1>5. PICK x \in Seq(Octets), v \in Seq(Octets) :
        /\ x = First(w, n) /\ v = After(w, n)
        /\ x # <<>> /\ w = x \o v
  BY <1>4, ReadTakes
<1>6. s.wire = v /\ s.buffer = b \o x /\ s.header = stream[end].header
  BY <1>1, <1>2, <1>3, <1>5 DEF Directions, After, First
<1>7. /\ s.buffer \in Seq(Octets) /\ s.wire \in Seq(Octets)
      /\ Bytes(end) = s.buffer \o s.wire
      /\ s.wire = After(Bytes(end), Len(s.buffer))
      /\ Len(s.buffer) \in 1..Len(Bytes(end)) /\ Len(b) <= Len(s.buffer)
      /\ s.buffer[1] = Bytes(end)[1] /\ (Len(b) > 0 => b[1] = Bytes(end)[1])
  <2>1. Bytes(end) = b \o (x \o v)
    BY <1>1, <1>5 DEF Bytes
  <2>2. /\ b \o x \in Seq(Octets)
        /\ b \o (x \o v) = (b \o x) \o v
        /\ v = After(b \o (x \o v), Len(b \o x))
        /\ Len(b \o x) \in 1..Len(b \o (x \o v)) /\ Len(b) <= Len(b \o x)
        /\ (b \o x)[1] = (b \o (x \o v))[1]
        /\ Len(b) > 0 => b[1] = (b \o (x \o v))[1]
    <3>1. b \in Seq(Octets) /\ x \in Seq(Octets) /\ v \in Seq(Octets) /\ x # <<>>
      BY <1>4, <1>5
    <3>2. b \o x \in Seq(Octets) /\ b \o (x \o v) = (b \o x) \o v
      <4>1. b \o x \in Seq(Octets)
        BY <3>1, Joined, Zenon
      <4>2. (b \o x) \o v = b \o (x \o v)
        BY <3>1, ConcatAssociative, SMTT(30)
      <4> QED
        BY <4>1, <4>2, Zenon
    <3>3. /\ v = After(b \o (x \o v), Len(b \o x))
          /\ Len(b \o x) \in 1..Len(b \o (x \o v)) /\ Len(b) <= Len(b \o x)
      BY <3>1, ReadMoves
    <3>4. /\ (b \o x)[1] = (b \o (x \o v))[1]
          /\ Len(b) > 0 => b[1] = (b \o (x \o v))[1]
      BY <3>1, ReadMoves
    <3> QED
      BY <3>1, <3>2, <3>3, <3>4
  <2> QED
    BY <1>5, <1>6, <2>1, <2>2, Zenon
<1>8. s \in Directions
  <2>1. s = [wire |-> s.wire, buffer |-> s.buffer, header |-> s.header]
    BY <1>2, <1>3 DEF Directions
  <2> QED
    BY <1>2, <1>6, <1>7, <2>1 DEF Directions
<1> QED
  BY <1>1, <1>6, <1>7, <1>8

\* The header of what has been read: that of the frame which begins there.
LEMMA HeaderIs ==
  ASSUME ByteTypeOK, BufferInv, NEW end \in Ends,
         NEW s \in Cuts(stream[end]), NEW h \in Headers(s)
  PROVE  /\ Len(s.buffer) >= HeaderSize
         /\ IF Bytes(end)[1].at = 1 THEN h = Bytes(end)[1].msg ELSE h \in Garbles
         /\ h \in Messages \cup Garbles
<1>1. /\ s.header = stream[end].header /\ s.buffer[1] = Bytes(end)[1]
      /\ s.buffer \in Seq(Octets) /\ Len(s.buffer) \in 1..Len(Bytes(end))
      /\ Len(stream[end].buffer) > 0 => stream[end].buffer[1] = Bytes(end)[1]
  BY CutIs
<1>2. HeaderSize \in Nat \ {0} /\ MaxMessage \in Nat
  BY SetupFacts
<1>3. Len(s.buffer) >= HeaderSize
  BY <1>1, <1>2 DEF Headers
<1>4. IF Bytes(end)[1].at = 1 THEN h = Bytes(end)[1].msg ELSE h \in Garbles
  <2>1. CASE s.header # NoHeader
    <3>1. h = stream[end].header
      BY <1>1, <1>3, <1>2, <2>1 DEF Headers
    <3>2. Collected(stream[end])
      BY DEF BufferInv
    <3>3. stream[end].buffer \in Seq(Octets)
      BY StreamIs
    <3>4. /\ ~(Len(stream[end].buffer) < HeaderSize)
          /\ IF stream[end].buffer[1].at = 1 THEN stream[end].header = stream[end].buffer[1].msg
             ELSE stream[end].header \in Garbles
      BY <1>1, <2>1, <3>2 DEF Collected
    <3> QED
      BY <1>1, <1>2, <3>1, <3>3, <3>4
  <2>2. CASE s.header = NoHeader /\ Bytes(end)[1].at = 1
    BY <1>1, <1>2, <1>3, <2>2 DEF Headers
  <2>3. CASE s.header = NoHeader /\ Bytes(end)[1].at # 1
    <3>1. h \in [type : {"GARBLED"}, len : 0..(MaxMessage + 1), body : {<<>>}]
      BY <1>1, <1>2, <1>3, <2>3 DEF Headers
    <3> QED
      BY <1>2, <2>3, <3>1 DEF Garbles
  <2> QED
    BY <2>1, <2>2, <2>3
<1>5. Bytes(end)[1].msg \in Messages
  <2>1. 1 \in 1..Len(Bytes(end))
    BY <1>1
  <2> QED
    BY <2>1, StreamIs
<1> QED
  BY <1>3, <1>4, <1>5

LEMMA EmptyIs ==
  ASSUME NEW w \in Seq(Octets)
  PROVE  /\ Empty(w) \in Directions /\ Collected(Empty(w))
         /\ Empty(w).wire = w /\ Empty(w).buffer = <<>>
         /\ Empty(w).buffer \o Empty(w).wire = w
<1>1. <<>> \in Seq(Octets) /\ Len(<<>>) = 0 /\ <<>> \o w = w
  BY ConcatEmptySeq
<1>2. HeaderSize > 0
  BY ByteAssumption
<1> QED
  BY <1>1, <1>2 DEF Empty, Directions, Collected

-----------------------------------------------------------------------------
(* What a step does to the bytes of the two directions.                    *)

\* One direction becomes t.
LEMMA StreamSet ==
  ASSUME ByteTypeOK, BufferInv, NEW end \in Ends, NEW t \in Directions, Collected(t),
         stream' = [stream EXCEPT ![end] = t]
  PROVE  /\ stream' \in [Ends -> Directions] /\ BufferInv'
         /\ Bytes(end)' = t.buffer \o t.wire
         /\ \A e \in Ends \ {end} : Bytes(e)' = Bytes(e)
<1>1. stream \in [Ends -> Directions]
  BY DEF ByteTypeOK
<1>2. stream' \in [Ends -> Directions]
  BY <1>1
<1>3. stream'[end] = t /\ \A e \in Ends \ {end} : stream'[e] = stream[e]
  BY <1>1
<1>4. BufferInv'
  BY <1>3 DEF BufferInv, Collected, TooLong, Complete
<1>5. Bytes(end)' = t.buffer \o t.wire
  BY <1>3 DEF Bytes
<1>6. \A e \in Ends \ {end} : Bytes(e)' = Bytes(e)
  BY <1>3 DEF Bytes
<1> QED
  BY <1>2, <1>4, <1>5, <1>6

\* Nothing is decoded: the bytes stay, unless their beginning was lost.
LEMMA ReadMore ==
  ASSUME ByteTypeOK, BufferInv, NEW end \in Ends, RecvMore(end)
  PROVE  /\ stream' \in [Ends -> Directions] /\ BufferInv' /\ Bytes(end) # <<>>
         /\ \A e \in Ends \ {end} : Bytes(e)' = Bytes(e)
         /\ \/ Bytes(end)' = Bytes(end)
            \/ Bytes(end)[1].at # 1 /\ Bytes(end)' \in RestOf(Bytes(end))
<1>1. PICK s \in Cuts(stream[end]) :
        \/ /\ Len(s.buffer) < HeaderSize
           /\ stream' = [stream EXCEPT ![end] = s]
        \/ \E h \in Headers(s) :
             \/ /\ ~TooLong(h) /\ ~Complete(s, h)
                /\ stream' = [stream EXCEPT ![end] = [s EXCEPT !.header = h]]
             \/ /\ TooLong(h)
                /\ stream' = [stream EXCEPT ![end] = Empty(s.wire)]
  BY DEF RecvMore
<1>2. /\ s \in Directions /\ s.header = stream[end].header
      /\ s.wire \in Seq(Octets) /\ s.buffer \in Seq(Octets)
      /\ s.buffer \o s.wire = Bytes(end)
      /\ Len(s.buffer) \in 1..Len(Bytes(end))
      /\ s.wire = After(Bytes(end), Len(s.buffer))
      /\ s.buffer[1] = Bytes(end)[1]
      /\ Len(stream[end].buffer) <= Len(s.buffer)
  BY CutIs
<1>3. Bytes(end) # <<>>
  BY <1>2
<1>4. HeaderSize \in Nat \ {0} /\ MaxMessage \in Nat
  BY SetupFacts
<1>5. CASE Len(s.buffer) < HeaderSize /\ stream' = [stream EXCEPT ![end] = s]
  <2>1. Collected(stream[end]) /\ stream[end].buffer \in Seq(Octets)
    BY StreamIs DEF BufferInv
  <2>2. Collected(s)
    BY <1>2, <1>4, <1>5, <2>1 DEF Collected
  <2>3. /\ stream' \in [Ends -> Directions] /\ BufferInv'
        /\ Bytes(end)' = s.buffer \o s.wire
        /\ \A e \in Ends \ {end} : Bytes(e)' = Bytes(e)
    BY <1>2, <1>5, <2>2, StreamSet
  <2>4. Bytes(end)' = Bytes(end)
    BY <1>2, <2>3, Zenon
  <2> QED
    BY <1>3, <2>3, <2>4, Zenon
<1>6. ASSUME NEW h \in Headers(s), ~TooLong(h), ~Complete(s, h),
             stream' = [stream EXCEPT ![end] = [s EXCEPT !.header = h]]
      PROVE  /\ stream' \in [Ends -> Directions] /\ BufferInv'
             /\ \A e \in Ends \ {end} : Bytes(e)' = Bytes(e)
             /\ Bytes(end)' = Bytes(end)
  <2>1. /\ Len(s.buffer) >= HeaderSize
        /\ IF Bytes(end)[1].at = 1 THEN h = Bytes(end)[1].msg ELSE h \in Garbles
        /\ h \in Messages \cup Garbles
    BY <1>6, HeaderIs
  <2>2. h # NoHeader
    BY <2>1, HeaderKinds
  <2> DEFINE t == [s EXCEPT !.header = h]
  <2>3. t = [wire |-> s.wire, buffer |-> s.buffer, header |-> h]
    BY <1>2 DEF Directions
  <2>4. t \in Directions /\ t.wire = s.wire /\ t.buffer = s.buffer /\ t.header = h
    BY <1>2, <2>1, <2>3 DEF Directions
  <2> HIDE DEF t
  <2>5. Collected(t)
    <3>1. ~(Len(t.buffer) < HeaderSize) /\ t.buffer[1] = Bytes(end)[1]
      <4>1. t.buffer = s.buffer
        BY <2>4
      <4>2. Len(s.buffer) \in Nat /\ s.buffer[1] = Bytes(end)[1]
        BY <1>2
      <4> QED
        BY <1>4, <2>1, <4>1, <4>2
    <3>2. ~TooLong(t.header) /\ ~Complete(t, t.header)
      BY <1>6, <2>4 DEF Complete
    <3> QED
      BY <2>1, <2>2, <2>4, <3>1, <3>2 DEF Collected
  <2>6. stream' = [stream EXCEPT ![end] = t]
    BY <1>6 DEF t
  <2>7. /\ stream' \in [Ends -> Directions] /\ BufferInv'
        /\ Bytes(end)' = t.buffer \o t.wire
        /\ \A e \in Ends \ {end} : Bytes(e)' = Bytes(e)
    BY <2>4, <2>5, <2>6, StreamSet
  <2> QED
    BY <1>2, <2>4, <2>7
<1>7. ASSUME NEW h \in Headers(s), TooLong(h),
             stream' = [stream EXCEPT ![end] = Empty(s.wire)]
      PROVE  /\ stream' \in [Ends -> Directions] /\ BufferInv'
             /\ \A e \in Ends \ {end} : Bytes(e)' = Bytes(e)
             /\ Bytes(end)[1].at # 1 /\ Bytes(end)' \in RestOf(Bytes(end))
  <2>1. IF Bytes(end)[1].at = 1 THEN h = Bytes(end)[1].msg ELSE h \in Garbles
    BY <1>7, HeaderIs
  <2>2. Bytes(end)[1].msg.len \in Nat /\ Bytes(end)[1].msg.len <= MaxMessage
    <3>1. 1 \in 1..Len(Bytes(end))
      BY <1>2
    <3> QED
      BY <3>1, StreamIs
  <2>3. Bytes(end)[1].at # 1
    BY <1>4, <1>7, <2>1, <2>2 DEF TooLong
  <2>4. /\ Empty(s.wire) \in Directions /\ Collected(Empty(s.wire))
        /\ Empty(s.wire).buffer \o Empty(s.wire).wire = s.wire
    BY <1>2, EmptyIs
  <2>5. /\ stream' \in [Ends -> Directions] /\ BufferInv'
        /\ Bytes(end)' = s.wire
        /\ \A e \in Ends \ {end} : Bytes(e)' = Bytes(e)
    BY <1>7, <2>4, StreamSet
  <2>6. s.wire \in RestOf(Bytes(end))
    BY <1>2 DEF RestOf
  <2> QED
    BY <2>3, <2>5, <2>6
<1> QED
  BY <1>1, <1>3, <1>5, <1>6, <1>7, Zenon

\* A message h is decoded from the first bytes, and n are gone.
Decodes(end, h, n) ==
  /\ IF Bytes(end)[1].at = 1 THEN h = Bytes(end)[1].msg ELSE h \in Garbles
  /\ n >= HeaderSize + h.len
  /\ Bytes(end)' = After(Bytes(end), n)
  /\ last' = [last EXCEPT ![end] = h]
  /\ dropped' = (dropped \/ n > HeaderSize + h.len)

LEMMA ReadMessage ==
  ASSUME ByteTypeOK, BufferInv, NEW end \in Ends, RecvMessage(end)
  PROVE  /\ stream' \in [Ends -> Directions] /\ BufferInv'
         /\ \A e \in Ends \ {end} : Bytes(e)' = Bytes(e)
         /\ \E h \in Messages \cup Garbles, n \in 1..Len(Bytes(end)) : Decodes(end, h, n)
<1>0. PICK s \in Cuts(stream[end]) : \E h \in Headers(s) :
        /\ Complete(s, h)
        /\ stream' = [stream EXCEPT ![end] = Empty(s.wire)]
        /\ last' = [last EXCEPT ![end] = h]
        /\ dropped' = (dropped \/ Len(s.buffer) > HeaderSize + h.len)
  BY DEF RecvMessage
<1>1. PICK h \in Headers(s) :
        /\ Complete(s, h)
        /\ stream' = [stream EXCEPT ![end] = Empty(s.wire)]
        /\ last' = [last EXCEPT ![end] = h]
        /\ dropped' = (dropped \/ Len(s.buffer) > HeaderSize + h.len)
  BY <1>0
<1>2. /\ s.wire \in Seq(Octets) /\ s.buffer \in Seq(Octets)
      /\ Len(s.buffer) \in 1..Len(Bytes(end))
      /\ s.wire = After(Bytes(end), Len(s.buffer))
  BY CutIs
<1>3. /\ IF Bytes(end)[1].at = 1 THEN h = Bytes(end)[1].msg ELSE h \in Garbles
      /\ h \in Messages \cup Garbles
  BY HeaderIs
<1>4. Len(s.buffer) >= HeaderSize + h.len
  BY <1>1 DEF Complete
<1>5. /\ Empty(s.wire) \in Directions /\ Collected(Empty(s.wire))
      /\ Empty(s.wire).buffer \o Empty(s.wire).wire = s.wire
  BY <1>2, EmptyIs
<1>6. /\ stream' \in [Ends -> Directions] /\ BufferInv'
      /\ Bytes(end)' = s.wire
      /\ \A e \in Ends \ {end} : Bytes(e)' = Bytes(e)
  BY <1>1, <1>5, StreamSet
<1>7. Decodes(end, h, Len(s.buffer))
  BY <1>1, <1>2, <1>3, <1>4, <1>6 DEF Decodes
<1> QED
  BY <1>2, <1>3, <1>6, <1>7

LEMMA SendIs ==
  ASSUME ByteTypeOK, BufferInv, NEW end \in Ends, NEW m \in Messages, Send(end, m)
  PROVE  /\ stream' \in [Ends -> Directions] /\ BufferInv'
         /\ Bytes(end)' = Bytes(end) \o Encode(m)
         /\ \A e \in Ends \ {end} : Bytes(e)' = Bytes(e)
<1>1. PICK b \in Seq(Octets), w \in Seq(Octets) :
        b = stream[end].buffer /\ w = stream[end].wire
  BY StreamIs
<1>2. stream[end] \in Directions /\ stream \in [Ends -> Directions]
  BY StreamIs DEF ByteTypeOK
<1>3. PICK f \in Seq(Octets) : f = Encode(m)
  BY EncodeIs
<1>31. PICK x \in Seq(Octets) : x = w \o f
  BY <1>1, <1>3, Joined
<1> DEFINE t == [stream[end] EXCEPT !.wire = x]
<1>4. stream' = [stream EXCEPT ![end] = t]
  BY <1>1, <1>2, <1>3, <1>31 DEF Send
<1>5. t = [wire |-> x, buffer |-> b, header |-> stream[end].header]
  <2>1. PICK d \in Directions : d = stream[end]
    BY <1>2
  <2>2. t = [d EXCEPT !.wire = x] /\ d.buffer = b
    BY <1>1, <2>1
  <2>3. t = [wire |-> x, buffer |-> d.buffer, header |-> d.header]
    <3>1. d = [wire |-> d.wire, buffer |-> d.buffer, header |-> d.header]
      BY <2>1 DEF Directions
    <3> QED
      BY <2>2, <3>1
  <2> QED
    BY <2>1, <2>2, <2>3
<1>7. /\ t \in Directions /\ t.wire = x /\ t.buffer = b
      /\ t.header = stream[end].header
  BY <1>1, <1>2, <1>31, <1>5 DEF Directions
<1> HIDE DEF t
<1>8. Collected(t)
  BY <1>1, <1>7 DEF BufferInv, Collected, Complete
<1>9. /\ stream' \in [Ends -> Directions] /\ BufferInv'
      /\ Bytes(end)' = t.buffer \o t.wire
      /\ \A e \in Ends \ {end} : Bytes(e)' = Bytes(e)
  BY <1>4, <1>7, <1>8, StreamSet
<1>10. b \o (w \o f) = (b \o w) \o f
  <2>1. b \in Seq(Octets) /\ w \in Seq(Octets)
    BY <1>1
  <2> QED
    BY <1>3, <2>1, ConcatAssociative, SMTT(30)
<1>11. Bytes(end) = b \o w
  BY <1>1 DEF Bytes
<1> QED
  BY <1>3, <1>31, <1>7, <1>9, <1>10, <1>11

LEMMA GoneIs ==
  ASSUME ByteTypeOK, BufferInv, NEW end \in Ends, PeerGone(end)
  PROVE  /\ stream' \in [Ends -> Directions] /\ BufferInv'
         /\ Bytes(end)' = <<>>
         /\ \A e \in Ends \ {end} : Bytes(e)' = Bytes(e)
         /\ UNCHANGED <<last, dropped>>
<1>1. stream' = [stream EXCEPT ![end] = Empty(<<>>)] /\ UNCHANGED <<last, dropped>>
  BY DEF PeerGone
<1>2. <<>> \in Seq(Octets)
  OBVIOUS
<1>3. /\ Empty(<<>>) \in Directions /\ Collected(Empty(<<>>))
      /\ Empty(<<>>).buffer \o Empty(<<>>).wire = <<>>
  BY <1>2, EmptyIs
<1> QED
  BY <1>1, <1>3, StreamSet

\* No byte moves.
LEMMA StreamStays ==
  ASSUME ByteTypeOK, BufferInv, UNCHANGED stream
  PROVE  /\ stream' \in [Ends -> Directions] /\ BufferInv'
         /\ \A e \in Ends : Bytes(e)' = Bytes(e)
BY DEF ByteTypeOK, BufferInv, Collected, Complete, TooLong, Bytes

-----------------------------------------------------------------------------
(* Reading a frame, and what follows from where it begins.                 *)

\* Behind more than the first of two sequences there is an end of the second.
LEMMA AfterFirst ==
  ASSUME NEW S, NEW f \in Seq(S), NEW q \in Seq(S), NEW k \in 0..Len(q)
  PROVE  /\ After(f \o q, Len(f) + k) \in RestOf(q)
         /\ After(f \o q, Len(f)) = q
<1>1. /\ After(q, k) \in Seq(S) /\ First(q, k) \in Seq(S)
      /\ Len(First(q, k)) = k /\ First(q, k) \o After(q, k) = q
  BY Behind
<1>2. PICK x \in Seq(S), v \in Seq(S) : v = After(q, k) /\ Len(x) = k /\ q = x \o v
  BY <1>1
<1>3. PICK y \in Seq(S) : y = f \o x /\ Len(y) = Len(f) + k
  <2>1. Len(f \o x) = Len(f) + Len(x) /\ f \o x \in Seq(S)
    BY <1>2, Joined
  <2> QED
    BY <1>2, <2>1
<1>4. f \o q = y \o v
  <2>1. x \in Seq(S) /\ v \in Seq(S) /\ q = x \o v /\ y = f \o x
    BY <1>2, <1>3
  <2> QED
    BY <1>3, <2>1, Glued, SMTT(30)
<1>5. v = After(y \o v, Len(y))
  BY <1>2, <1>3, BehindPrefix
<1>6. v \in RestOf(q)
  BY <1>2 DEF RestOf
<1>7. After(f \o q, Len(f)) = q
  BY BehindPrefix
<1> QED
  BY <1>3, <1>4, <1>5, <1>6, <1>7

\* The first byte of a frame.
LEMMA HeadIs ==
  ASSUME NEW m \in Messages, NEW q \in Seq(Octets), Encode(m) # <<>>
  PROVE  /\ m.len \in Nat /\ m.len <= MaxMessage
         /\ Len(Encode(m)) = HeaderSize + m.len /\ Len(Encode(m)) > 0
         /\ (Encode(m) \o q)[1].at = 1 /\ (Encode(m) \o q)[1].msg = m
<1>1. m.len \in Nat /\ MaxMessage \in Nat /\ HeaderSize \in Nat \ {0}
  BY ByteAssumption, WordAssumption DEF Messages
<1>2. m.len <= MaxMessage
  BY <1>1, EncodeIs
<1>3. PICK f \in Seq(Octets) :
        /\ f = Encode(m) /\ Len(f) = HeaderSize + m.len
        /\ \A k \in 1..(HeaderSize + m.len) : f[k] = [msg |-> m, at |-> k]
  BY <1>2, EncodeIs
<1>4. Len(f) > 0 /\ 1 \in 1..Len(f) /\ f[1] = [msg |-> m, at |-> 1]
  BY <1>1, <1>3
<1>5. (f \o q)[1] = f[1]
  BY <1>4, Joined
<1> QED
  BY <1>1, <1>2, <1>3, <1>4, <1>5

\* A message that does not fit sends nothing, any other something.
LEMMA EncodeEmpty ==
  ASSUME NEW m \in Messages
  PROVE  Encode(m) = <<>> <=> m.len > MaxMessage
<1>1. m.len \in Nat /\ MaxMessage \in Nat
  BY ByteAssumption, WordAssumption DEF Messages
<1>2. m.len > MaxMessage => Encode(m) = <<>>
  BY EncodeIs
<1>4. m.len <= MaxMessage => Len(Encode(m)) = HeaderSize + m.len
  BY EncodeIs
<1>5. HeaderSize \in Nat \ {0} /\ Len(<<>>) = 0
  BY ByteAssumption
<1> QED
  BY <1>1, <1>2, <1>4, <1>5

\* Nothing of a frame that can be sent is thrown away.
LEMMA FrameStays ==
  ASSUME ByteTypeOK, BufferInv, NEW end \in Ends, RecvMore(end),
         NEW m \in Messages, NEW q \in Seq(Octets),
         Bytes(end) = Encode(m) \o q, Encode(m) # <<>>
  PROVE  Bytes(end)' = Bytes(end)
<1>1. Bytes(end)[1].at = 1
  BY HeadIs
<1> QED
  BY <1>1, ReadMore

\* The frame in front is the message that is decoded; what is behind it stays
\* or some of it is dropped.
LEMMA FrameRead ==
  ASSUME ByteTypeOK, BufferInv, NEW end \in Ends, RecvMessage(end),
         NEW m \in Messages, NEW q \in Seq(Octets),
         Bytes(end) = Encode(m) \o q, Encode(m) # <<>>
  PROVE  /\ last' = [last EXCEPT ![end] = m]
         /\ Bytes(end)' \in RestOf(q)
         /\ ~dropped' => Bytes(end)' = q /\ ~dropped
         /\ dropped' \in BOOLEAN
<1>1. PICK h \in Messages \cup Garbles : \E n \in 1..Len(Bytes(end)) : Decodes(end, h, n)
  BY ReadMessage
<1>2. PICK n \in 1..Len(Bytes(end)) : Decodes(end, h, n)
  BY <1>1
<1>3. /\ m.len \in Nat /\ Len(Encode(m)) = HeaderSize + m.len
      /\ Bytes(end)[1].at = 1 /\ Bytes(end)[1].msg = m
  BY HeadIs
<1>4. h = m
  BY <1>2, <1>3 DEF Decodes
<1>5. /\ n >= HeaderSize + m.len
      /\ Bytes(end)' = After(Bytes(end), n)
      /\ last' = [last EXCEPT ![end] = m]
      /\ dropped' = (dropped \/ n > HeaderSize + m.len)
  BY <1>2, <1>4 DEF Decodes
<1>6. PICK f \in Seq(Octets) : f = Encode(m)
  BY EncodeIs
<1>7. /\ Len(Bytes(end)) = Len(f) + Len(q) /\ Len(f) = HeaderSize + m.len
      /\ HeaderSize \in Nat
  BY <1>3, <1>6, SetupFacts, Joined
<1>8. PICK k \in 0..Len(q) : n = Len(f) + k
  <2>1. n \in 1..Len(Bytes(end)) /\ n >= HeaderSize + m.len
    BY <1>5
  <2>2. Len(q) \in Nat /\ Len(f) \in Nat
    BY <1>6
  <2>3. n >= Len(f) /\ n \in 1..(Len(f) + Len(q))
    BY <1>7, <2>1, Zenon
  <2>4. n - Len(f) \in 0..Len(q) /\ n = Len(f) + (n - Len(f))
    BY <2>2, <2>3
  <2> QED
    BY <2>4
<1>9. Bytes(end)' \in RestOf(q)
  BY <1>5, <1>6, <1>8, AfterFirst
<1>10. ASSUME ~dropped' PROVE Bytes(end)' = q /\ ~dropped
  <2>1. n = Len(f) /\ ~dropped
    <3>1. n >= HeaderSize + m.len /\ ~(n > HeaderSize + m.len) /\ ~dropped
      BY <1>5, <1>10
    <3>2. n \in Int /\ HeaderSize + m.len \in Int
      BY <1>3, <1>7
    <3> QED
      BY <1>7, <3>1, <3>2
  <2>2. After(f \o q, Len(f)) = q
    BY <1>6, <1>8, AfterFirst
  <2> QED
    BY <1>5, <1>6, <2>1, <2>2
<1> QED
  BY <1>5, <1>9, <1>10 DEF ByteTypeOK

\* Reading what is left of some bytes leaves less of them.
LEMMA RestRead ==
  ASSUME ByteTypeOK, BufferInv, NEW end \in Ends, RecvMessage(end),
         NEW q \in Seq(Octets), Bytes(end) \in RestOf(q)
  PROVE  /\ last' \in [Ends -> Messages \cup Garbles \cup {NoHeader}]
         /\ Bytes(end) # <<>> /\ Bytes(end)' \in RestOf(q)
         /\ ~dropped' => ~dropped
         /\ dropped' \in BOOLEAN
<1>1. PICK h \in Messages \cup Garbles : \E n \in 1..Len(Bytes(end)) : Decodes(end, h, n)
  BY ReadMessage
<1>2. PICK n \in 1..Len(Bytes(end)) : Decodes(end, h, n)
  BY <1>1
<1>3. /\ Bytes(end)' = After(Bytes(end), n)
      /\ last' = [last EXCEPT ![end] = h]
      /\ dropped' = (dropped \/ n > HeaderSize + h.len)
  BY <1>2 DEF Decodes
<1>4. Bytes(end) \in Seq(Octets)
  BY StreamIs
<1>5. n \in 0..Len(Bytes(end)) /\ Len(Bytes(end)) > 0
  BY <1>4
<1>6. Bytes(end)' \in RestOf(Bytes(end)) /\ Bytes(end) # <<>>
  BY <1>3, <1>5 DEF RestOf
<1>7. Bytes(end)' \in RestOf(q)
  BY <1>6, RestOfRest
<1> QED
  BY <1>3, <1>6, <1>7 DEF ByteTypeOK

LEMMA RestMore ==
  ASSUME ByteTypeOK, BufferInv, NEW end \in Ends, RecvMore(end),
         NEW q \in Seq(Octets), Bytes(end) \in RestOf(q)
  PROVE  Bytes(end)' \in RestOf(q)
BY ReadMore, RestOfRest

\* While the file is what it is, so are the messages about it.
LEMMA Kept ==
  ASSUME UNCHANGED setup
  PROVE  /\ size' = size /\ cs' = cs /\ alike' = alike
         /\ Total' = Total /\ Offer' = Offer
         /\ \A b : Bitmap(b)' = Bitmap(b)
         /\ \A i : Sent(i)' = Sent(i)
         /\ \A i, b : Skip(i, b)' = Skip(i, b)
         /\ \A k, b : Initially(k, b)' = Initially(k, b)
<1> USE DEF setup
<1>1. Total' = Total /\ Offer' = Offer
  BY DEF Total, Offer
<1>2. \A b : Bitmap(b)' = Bitmap(b)
  BY <1>1 DEF Bitmap
<1>3. \A n, k : ReadBytes(n, k)' = ReadBytes(n, k)
  BY DEF ReadBytes, Byte
<1>4. \A i : Sent(i)' = Sent(i)
  BY <1>3 DEF Sent
<1>5. \A i, b : Skip(i, b)' = Skip(i, b)
  BY <1>1 DEF Skip
<1>6. \A k, b : Initially(k, b)' = Initially(k, b)
  BY DEF Initially, Byte
<1> QED
  BY <1>1, <1>2, <1>4, <1>5, <1>6

-----------------------------------------------------------------------------
(* What the end of a frame begins with.                                    *)

\* What is left of a frame, and where it begins.
LEMMA TailIs ==
  ASSUME NEW m \in Messages, NEW p \in RestOf(Encode(m)), p # <<>>
  PROVE  /\ p \in Seq(Octets) /\ Encode(m) # <<>>
         /\ p[1].msg = m
         /\ p[1].at = 1 => p = Encode(m)
<1>1. PICK f \in Seq(Octets) :
        /\ f = Encode(m)
        /\ m.len > MaxMessage => f = <<>>
        /\ m.len <= MaxMessage =>
             /\ Len(f) = HeaderSize + m.len
             /\ \A k \in 1..(HeaderSize + m.len) : f[k] = [msg |-> m, at |-> k]
  BY EncodeIs
<1>2. PICK k \in 0..Len(f) : p = After(f, k)
  BY <1>1 DEF RestOf
<1>3. /\ p \in Seq(Octets) /\ Len(p) = Len(f) - k
      /\ \A i \in 1..(Len(f) - k) : p[i] = f[k + i]
  BY <1>2, Behind
<1>4. m.len \in Nat /\ MaxMessage \in Nat /\ HeaderSize \in Nat
  BY ByteAssumption, WordAssumption DEF Messages
<1>5. Len(p) \in Nat \ {0}
  BY <1>3
<1>6. Len(f) \in Nat /\ k + 1 \in 1..Len(f) /\ 1 \in 1..(Len(f) - k)
  BY <1>3, <1>5
<1>7. m.len <= MaxMessage
  BY <1>1, <1>4, <1>6
<1>8. p[1] = [msg |-> m, at |-> k + 1]
  BY <1>1, <1>3, <1>6, <1>7
<1>9. p[1].msg = m /\ (p[1].at = 1 => k = 0)
  BY <1>8
<1>10. k = 0 => p = f
  <2>1. k = 0 => Len(p) = Len(f) /\ \A i \in 1..Len(f) : p[i] = f[i]
    BY <1>3, <1>6
  <2> QED
    BY <1>3, <2>1, SeqEqual
<1>11. Encode(m) # <<>>
  BY <1>1, <1>6
<1> QED
  BY <1>1, <1>3, <1>9, <1>10, <1>11

\* What is left of two sequences.
LEMMA RestOfJoined ==
  ASSUME NEW S, NEW f \in Seq(S), NEW g \in Seq(S), NEW p \in RestOf(f \o g)
  PROVE  p \in RestOf(g) \/ \E r \in RestOf(f) : r # <<>> /\ p = r \o g
<1>1. /\ f \o g \in Seq(S) /\ Len(f \o g) = Len(f) + Len(g)
      /\ Len(f) \in Nat /\ Len(g) \in Nat
  BY Joined
<1>2. PICK k \in 0..Len(f \o g) : p = After(f \o g, k)
  BY DEF RestOf
<1>3. CASE k >= Len(f)
  <2>1. PICK j \in 0..Len(g) : k = Len(f) + j
    <3>1. k - Len(f) \in 0..Len(g) /\ k = Len(f) + (k - Len(f))
      BY <1>1, <1>2, <1>3
    <3> QED
      BY <3>1
  <2> QED
    BY <1>2, <2>1, AfterFirst
<1>4. CASE k < Len(f)
  <2>1. k \in 0..Len(f)
    BY <1>1, <1>4
  <2>2. /\ After(f, k) \in Seq(S) /\ Len(After(f, k)) = Len(f) - k
        /\ First(f, k) \in Seq(S) /\ Len(First(f, k)) = k
        /\ First(f, k) \o After(f, k) = f
    BY <2>1, Behind
  <2>3. PICK x \in Seq(S), r \in Seq(S) :
          r = After(f, k) /\ Len(x) = k /\ f = x \o r /\ Len(r) = Len(f) - k
    BY <2>2
  <2>4. r \in RestOf(f) /\ r # <<>>
    BY <1>1, <1>4, <2>1, <2>3 DEF RestOf
  <2>5. PICK y \in Seq(S) : y = r \o g
    BY <2>3, Joined
  <2>6. x \o y = f \o g
    BY <2>3, <2>5, Glued, SMTT(30)
  <2>7. y = After(x \o y, Len(x))
    BY <2>3, <2>5, BehindPrefix
  <2> QED
    BY <1>2, <2>3, <2>4, <2>5, <2>6, <2>7
<1>5. k >= Len(f) \/ k < Len(f)
  BY <1>1, <1>2
<1> QED
  BY <1>3, <1>4, <1>5, Zenon

\* The message that is decoded from what is left of two frames is garbled or
\* one of the two, and when it is the second nothing is in front of it.
LEMMA TwoRead ==
  ASSUME ByteTypeOK, BufferInv, NEW end \in Ends, RecvMessage(end),
         NEW m \in Messages, NEW w \in Messages, m # w,
         Bytes(end) \in RestOf(Encode(m) \o Encode(w)), last'[end] = w
  PROVE  Bytes(end) = Encode(w) /\ Encode(w) # <<>>
<1>1. PICK h \in Messages \cup Garbles : \E n \in 1..Len(Bytes(end)) : Decodes(end, h, n)
  BY ReadMessage
<1>2. IF Bytes(end)[1].at = 1 THEN h = Bytes(end)[1].msg ELSE h \in Garbles
  BY <1>1 DEF Decodes
<1>3. h = w
  BY <1>1 DEF Decodes, ByteTypeOK
<1>4. w \notin Garbles
  BY DEF Messages, Garbles
<1>5. Bytes(end)[1].at = 1 /\ Bytes(end)[1].msg = w
  BY <1>2, <1>3, <1>4
<1>6. Bytes(end) # <<>>
  <2>1. Len(Bytes(end)) > 0
    BY <1>1, StreamIs
  <2> QED
    BY <2>1
<1>7. PICK f \in Seq(Octets), g \in Seq(Octets) : f = Encode(m) /\ g = Encode(w)
  BY EncodeIs
<1>8. Bytes(end) \in RestOf(g) \/ \E r \in RestOf(f) : r # <<>> /\ Bytes(end) = r \o g
  <2>1. f \in Seq(Octets) /\ g \in Seq(Octets) /\ Bytes(end) \in RestOf(f \o g)
    BY <1>7
  <2> QED
    BY <2>1, RestOfJoined
<1>9. ASSUME NEW r \in RestOf(f), r # <<>>, Bytes(end) = r \o g PROVE FALSE
  <2>1. r \in Seq(Octets) /\ r[1].msg = m
    BY <1>7, <1>9, TailIs
  <2>2. (r \o g)[1] = r[1]
    <3>1. 1 \in 1..Len(r)
      BY <1>9, <2>1
    <3> QED
      BY <1>7, <2>1, <3>1, Joined
  <2> QED
    BY <1>5, <1>9, <2>1, <2>2
<1> QED
  BY <1>5, <1>6, <1>7, <1>8, <1>9, TailIs

-----------------------------------------------------------------------------
(* The steps of the sender.                                                *)

Held == LoopInv /\ OfferInv /\ DiskInv /\ HeldWhole

\* What is held does not change with the sender.
LEMMA HeldStays ==
  ASSUME UNCHANGED setup, UNCHANGED receiver, ~dropped' => ~dropped, Held
  PROVE  Held'
<1> USE Kept DEF receiver
<1>1. LoopInv'
  BY DEF Held, LoopInv
<1>2. OfferInv'
  BY DEF Held, OfferInv
<1>3. DiskInv'
  BY DEF Held, DiskInv, Positions
<1>4. HeldWhole'
  BY DEF Held, HeldWhole
<1> QED
  BY <1>1, <1>2, <1>3, <1>4 DEF Held

LEMMA EndsAre == Ends = {"sender", "receiver"}
BY DEF Ends

\* The bytes and the message of one end leave those of the other.
LEMMA FramesAre ==
  ASSUME ByteTypeOK
  PROVE  /\ Offer \in Messages /\ Accept \in Messages /\ Ack \in Messages
         /\ Bitmap(bitmap) \in Messages /\ Sent(si) \in Messages
         /\ Encode(Offer) \in Seq(Octets) /\ Encode(Accept) \in Seq(Octets)
         /\ Encode(Ack) \in Seq(Octets) /\ Encode(Bitmap(bitmap)) \in Seq(Octets)
         /\ Encode(Sent(si)) \in Seq(Octets)
         /\ <<>> \in Seq(Octets)
         /\ \A p \in Seq(Octets) : p \o <<>> = p /\ <<>> \o p = p
<1>1. /\ Offer \in Messages /\ Accept \in Messages /\ Ack \in Messages
      /\ Bitmap(bitmap) \in Messages /\ Sent(si) \in Messages
  BY MessagesAre DEF ByteTypeOK
<1>2. <<>> \in Seq(Octets)
  OBVIOUS
<1>3. \A p \in Seq(Octets) : p \o <<>> = p /\ <<>> \o p = p
  BY ConcatEmptySeq
<1> QED
  BY <1>1, <1>2, <1>3, EncodeIs

LEMMA SendOfferKeeps ==
  ASSUME ByteInv, SendOffer
  PROVE  ByteInv'
<1>1. ByteTypeOK /\ BufferInv /\ SetupStreams /\ LoopStreams /\ Held
  BY DEF ByteInv, Held
<1>2. /\ spc = "offer" /\ spc' = "response" /\ Send("receiver", Offer)
      /\ UNCHANGED setup /\ UNCHANGED receiver
      /\ UNCHANGED <<last, dropped, si, remoteBitmap>>
  BY DEF SendOffer
<1>3. rpc = "offer" /\ Bytes("sender") = <<>> /\ Bytes("receiver") = <<>>
  BY <1>1, <1>2 DEF SetupStreams
<1>4. /\ stream' \in [Ends -> Directions] /\ BufferInv'
      /\ Bytes("receiver")' = Bytes("receiver") \o Encode(Offer)
      /\ Bytes("sender")' = Bytes("sender")
  BY <1>1, <1>2, FramesAre, EndsAre, SendIs
<1>5. Bytes("receiver")' = Encode(Offer)
  BY <1>1, <1>3, <1>4, FramesAre
<1>6. ByteTypeOK'
  BY <1>1, <1>2, <1>4, Kept DEF ByteTypeOK, receiver, setup
<1>7. SetupStreams'
  BY <1>2, <1>3, <1>4, <1>5, Kept DEF SetupStreams, receiver
<1>8. LoopStreams'
  BY <1>2 DEF LoopStreams
<1>9. Held'
  BY <1>1, <1>2, HeldStays
<1> QED
  BY <1>4, <1>6, <1>7, <1>8, <1>9 DEF ByteInv, Held

LEMMA RecvResponseKeeps ==
  ASSUME ByteInv, RecvResponse
  PROVE  ByteInv'
<1>1. ByteTypeOK /\ BufferInv /\ SetupStreams /\ LoopStreams /\ Held
  BY DEF ByteInv, Held
<1>2. /\ spc = "response" /\ spc' = "bitmap" /\ RecvMessage("sender")
      /\ UNCHANGED setup /\ UNCHANGED receiver /\ UNCHANGED <<si, remoteBitmap>>
  BY DEF RecvResponse
<1>3. /\ stream' \in [Ends -> Directions] /\ BufferInv'
      /\ Bytes("receiver")' = Bytes("receiver")
  BY <1>1, <1>2, EndsAre, ReadMessage
<1>4. /\ last' \in [Ends -> Messages \cup Garbles \cup {NoHeader}]
      /\ Bytes("sender") # <<>>
      /\ ~dropped' => ~dropped
      /\ dropped' \in BOOLEAN
  <2>1. Bytes("sender") \in Seq(Octets) /\ Bytes("sender") \in RestOf(Bytes("sender"))
    BY <1>1, EndsAre, StreamIs, RestTrivial
  <2> QED
    BY <1>1, <1>2, <2>1, EndsAre, RestRead
<1>5. ByteTypeOK'
  BY <1>1, <1>2, <1>3, <1>4, Kept DEF ByteTypeOK, receiver, setup
<1>6. Held'
  BY <1>1, <1>2, <1>4, HeldStays
<1>7. LoopStreams'
  BY <1>2 DEF LoopStreams
<1>8. \/ rpc = "bitmap" /\ Bytes("sender") = Encode(Accept)
      \/ /\ rpc \in {"loop", "done"}
         /\ Bytes("sender") = Encode(Accept) \o Encode(Bitmap(bitmap))
  BY <1>1, <1>2, <1>4 DEF SetupStreams
<1>9. Bytes("receiver")' = <<>> /\ (rpc = "loop" => ri = Skip(0, bitmap))
  BY <1>1, <1>2, <1>3, <1>8 DEF SetupStreams
<1>10. CASE rpc = "bitmap" /\ Bytes("sender") = Encode(Accept)
  <2>1. Bytes("sender") = Encode(Accept) \o <<>>
    BY <1>1, <1>10, FramesAre
  <2>2. Bytes("sender")' \in RestOf(<<>>)
    BY <1>1, <1>2, <1>4, <1>10, <2>1, FramesAre, EndsAre, FrameRead
  <2>3. Bytes("sender")' = <<>>
    BY <1>1, <2>2, FramesAre, RestTrivial
  <2>4. SetupStreams'
    BY <1>2, <1>9, <1>10, <2>3 DEF SetupStreams, receiver
  <2> QED
    BY <1>3, <1>5, <1>6, <1>7, <2>4 DEF ByteInv, Held
<1>11. CASE /\ rpc \in {"loop", "done"}
            /\ Bytes("sender") = Encode(Accept) \o Encode(Bitmap(bitmap))
  <2>1. Encode(Accept) # <<>>
    <3> SUFFICES ASSUME Encode(Accept) = <<>> PROVE FALSE
      OBVIOUS
    <3>1. Accept.len > MaxMessage
      BY <1>1, FramesAre, EncodeEmpty
    <3>2. Bitmap(bitmap).len > MaxMessage
      BY <1>1, <3>1, MessagesAre, SetupFacts
    <3>3. Encode(Bitmap(bitmap)) = <<>>
      BY <1>1, <3>2, FramesAre, EncodeEmpty
    <3>4. Bytes("sender") = <<>>
      BY <1>1, <1>11, <3>3, FramesAre
    <3> QED
      BY <1>4, <3>4
  <2>2. /\ Bytes("sender")' \in RestOf(Encode(Bitmap(bitmap)))
        /\ ~dropped' => Bytes("sender")' = Encode(Bitmap(bitmap))
    BY <1>1, <1>2, <1>11, <2>1, FramesAre, EndsAre, FrameRead
  <2>3. SetupStreams'
    BY <1>2, <1>9, <1>11, <2>2, Kept DEF SetupStreams, receiver
  <2> QED
    BY <1>3, <1>5, <1>6, <1>7, <2>3 DEF ByteInv, Held
<1> QED
  BY <1>8, <1>10, <1>11

\* What the sender collects.
LEMMA SenderMoreKeeps ==
  ASSUME ByteInv, spc \in {"response", "bitmap", "ack"}, RecvMore("sender")
  PROVE  ByteInv'
<1>1. ByteTypeOK /\ BufferInv /\ SetupStreams /\ LoopStreams /\ Held
  BY DEF ByteInv, Held
<1>2. UNCHANGED setup /\ UNCHANGED receiver /\ UNCHANGED <<last, dropped, spc, si, remoteBitmap>>
  BY DEF RecvMore, sender
<1>3. /\ stream' \in [Ends -> Directions] /\ BufferInv'
      /\ Bytes("receiver")' = Bytes("receiver") /\ Bytes("sender") # <<>>
  BY <1>1, EndsAre, ReadMore
<1>4. ByteTypeOK'
  BY <1>1, <1>2, <1>3, Kept DEF ByteTypeOK, receiver, setup
<1>5. Held'
  BY <1>1, <1>2, HeldStays
<1>6. ASSUME NEW m \in Messages, Bytes("sender") = Encode(m)
      PROVE  Bytes("sender")' = Bytes("sender")
  <2>1. Encode(m) # <<>>
    BY <1>3, <1>6
  <2>2. Encode(m) \in Seq(Octets) /\ Bytes("sender") = Encode(m) \o <<>>
    BY <1>1, <1>6, EncodeIs, FramesAre
  <2> QED
    BY <1>1, <2>1, <2>2, EndsAre, FramesAre, FrameStays
<1>7. ASSUME Bytes("sender")' = Bytes("sender")
      PROVE  SetupStreams' /\ LoopStreams'
  <2>1. SetupStreams'
    BY <1>1, <1>2, <1>3, <1>7, Kept DEF SetupStreams, receiver
  <2>2. OnlyTail => OnlyTail'
    BY <1>2, <1>7, Kept DEF OnlyTail
  <2>3. TailAndAck => TailAndAck'
    BY <1>2, <1>7, Kept DEF TailAndAck
  <2>4. LoopStreams'
    BY <1>1, <1>2, <1>3, <2>2, <2>3, Kept DEF LoopStreams, AgreeFrom, receiver
  <2> QED
    BY <2>1, <2>4
<1>8. CASE spc = "response"
  <2>1. \/ rpc = "bitmap" /\ Bytes("sender") = Encode(Accept)
        \/ Bytes("sender") = Encode(Accept) \o Encode(Bitmap(bitmap))
    BY <1>1, <1>3, <1>8 DEF SetupStreams
  <2>2. Bytes("sender")' = Bytes("sender")
    <3>1. CASE Bytes("sender") = Encode(Accept)
      BY <1>1, <1>6, <3>1, FramesAre
    <3>2. CASE Encode(Accept) # <<>>
                 /\ Bytes("sender") = Encode(Accept) \o Encode(Bitmap(bitmap))
      BY <1>1, <3>2, EndsAre, FramesAre, FrameStays
    <3>3. CASE Encode(Accept) = <<>>
                 /\ Bytes("sender") = Encode(Accept) \o Encode(Bitmap(bitmap))
      <4>1. Bytes("sender") = Encode(Bitmap(bitmap))
        BY <1>1, <3>3, FramesAre
      <4> QED
        BY <1>1, <1>6, <4>1, FramesAre
    <3> QED
      BY <2>1, <3>1, <3>2, <3>3
  <2> QED
    BY <1>3, <1>4, <1>5, <1>7, <2>2 DEF ByteInv, Held
<1>9. CASE spc = "bitmap"
  <2>1. /\ Bytes("receiver") = <<>> /\ rpc \in {"loop", "done"}
        /\ Bytes("sender") \in RestOf(Encode(Bitmap(bitmap)))
        /\ ~dropped => Bytes("sender") = Encode(Bitmap(bitmap))
    BY <1>1, <1>3, <1>9 DEF SetupStreams
  <2>2. ~dropped => Bytes("sender")' = Bytes("sender")
    BY <1>1, <1>6, <2>1, FramesAre
  <2>3. Bytes("sender")' \in RestOf(Encode(Bitmap(bitmap)))
    BY <1>1, <2>1, EndsAre, FramesAre, RestMore
  <2>4. SetupStreams'
    BY <1>1, <1>2, <1>3, <1>9, <2>1, <2>2, <2>3, Kept DEF SetupStreams, receiver
  <2>5. LoopStreams'
    BY <1>2, <1>9 DEF LoopStreams
  <2> QED
    BY <1>3, <1>4, <1>5, <2>4, <2>5 DEF ByteInv, Held
<1>10. CASE spc = "ack"
  <2>1. SetupStreams'
    BY <1>2, <1>10 DEF SetupStreams
  <2>2. ASSUME OnlyTail PROVE OnlyTail' /\ dropped
    <3>1. PICK bits \in SUBSET (0..(Total - 1)) : Bytes("sender") \in RestOf(Encode(Bitmap(bits)))
      BY <2>2 DEF OnlyTail
    <3>2. Encode(Bitmap(bits)) \in Seq(Octets)
      BY <1>1, MessagesAre, EncodeIs
    <3>3. Bytes("sender")' \in RestOf(Encode(Bitmap(bits)))
      BY <1>1, <3>1, <3>2, EndsAre, RestMore
    <3>4. dropped
      BY <1>3, <2>2 DEF OnlyTail
    <3> QED
      BY <1>2, <3>3, <3>4, Kept DEF OnlyTail
  <2>3. ASSUME TailAndAck PROVE TailAndAck'
    <3>1. PICK bits \in SUBSET (0..(Total - 1)) :
            Bytes("sender") \in RestOf(Encode(Bitmap(bits)) \o Encode(Ack))
      BY <2>3 DEF TailAndAck
    <3>2. Encode(Bitmap(bits)) \o Encode(Ack) \in Seq(Octets)
      BY <1>1, MessagesAre, EncodeIs, Joined
    <3>3. Bytes("sender")' \in RestOf(Encode(Bitmap(bits)) \o Encode(Ack))
      BY <1>1, <3>1, <3>2, EndsAre, RestMore
    <3>4. ~dropped => Bytes("sender")' = Encode(Ack)
      BY <1>1, <1>3, <1>6, <2>3, FramesAre DEF TailAndAck
    <3> QED
      BY <1>2, <3>3, <3>4, Kept DEF TailAndAck
  <2>4. LoopStreams'
    BY <1>1, <1>2, <1>3, <1>10, <2>2, <2>3, Kept DEF LoopStreams, AgreeFrom, receiver
  <2> QED
    BY <1>3, <1>4, <1>5, <2>1, <2>4 DEF ByteInv, Held
<1> QED
  BY <1>8, <1>9, <1>10

LEMMA RecvBitmapKeeps ==
  ASSUME ByteInv, RecvBitmap
  PROVE  ByteInv'
<1>1. ByteTypeOK /\ BufferInv /\ SetupStreams /\ LoopStreams /\ Held
  BY DEF ByteInv, Held
<1>2. /\ spc = "bitmap" /\ spc' = "loop" /\ si' = Skip(0, remoteBitmap')
      /\ UNCHANGED setup /\ UNCHANGED receiver
  BY DEF RecvBitmap
<1>3. /\ Bytes("receiver") = <<>>
      /\ \/ rpc = "bitmap" /\ Bytes("sender") = <<>>
         \/ /\ rpc \in {"loop", "done"}
            /\ Bytes("sender") \in RestOf(Encode(Bitmap(bitmap)))
            /\ ~dropped => Bytes("sender") = Encode(Bitmap(bitmap))
      /\ rpc = "loop" => ri = Skip(0, bitmap)
  BY <1>1, <1>2 DEF SetupStreams
<1>4. bitmap \in SUBSET (0..(Total - 1)) /\ bitmap' = bitmap
  BY <1>1, <1>2 DEF ByteTypeOK, receiver
<1>5. SetupStreams'
  BY <1>2 DEF SetupStreams
<1>6. ASSUME remoteBitmap' \subseteq 0..(Total - 1), dropped' \in BOOLEAN,
             stream' \in [Ends -> Directions],
             last' \in [Ends -> Messages \cup Garbles \cup {NoHeader}]
      PROVE  ByteTypeOK'
  <2>1. si' \in Nat
    BY <1>1, <1>2, SkipFinds
  <2> QED
    BY <1>1, <1>2, <1>6, <2>1, Kept DEF ByteTypeOK, receiver, setup
<1>7. CASE RecvMessage("sender") /\ remoteBitmap' = BitsOf(last'["sender"])
  <2>1. /\ stream' \in [Ends -> Directions] /\ BufferInv'
        /\ Bytes("receiver")' = Bytes("receiver")
    BY <1>1, <1>7, EndsAre, ReadMessage
  <2>2. Bytes("sender") # <<>>
    BY <1>1, <1>7, EndsAre, StreamIs, RestTrivial, RestRead
  <2>3. /\ rpc \in {"loop", "done"}
        /\ Bytes("sender") \in RestOf(Encode(Bitmap(bitmap)))
        /\ ~dropped => Bytes("sender") = Encode(Bitmap(bitmap))
    BY <1>3, <2>2
  <2>4. /\ last' \in [Ends -> Messages \cup Garbles \cup {NoHeader}]
        /\ Bytes("sender")' \in RestOf(Encode(Bitmap(bitmap)))
        /\ ~dropped' => ~dropped
        /\ dropped' \in BOOLEAN
    BY <1>1, <1>7, <2>3, EndsAre, FramesAre, RestRead
  <2>5. ByteTypeOK'
    <3>1. remoteBitmap' \subseteq 0..(Total - 1)
      BY <1>7 DEF BitsOf
    <3> QED
      BY <1>6, <2>1, <2>4, <3>1
  <2>6. Held'
    BY <1>1, <1>2, <2>4, HeldStays
  <2>7. ASSUME ~dropped' PROVE Bytes("sender")' = <<>> /\ remoteBitmap' = bitmap
    <3>1. Bytes("sender") = Encode(Bitmap(bitmap)) \o <<>> /\ Encode(Bitmap(bitmap)) # <<>>
      BY <1>1, <2>2, <2>3, <2>4, <2>7, FramesAre
    <3>2. last' = [last EXCEPT !["sender"] = Bitmap(bitmap)] /\ Bytes("sender")' = <<>>
      BY <1>1, <1>7, <2>7, <3>1, EndsAre, FramesAre, FrameRead
    <3>3. last'["sender"] = Bitmap(bitmap)
      BY <1>1, <3>2, EndsAre DEF ByteTypeOK
    <3>4. BitsOf(Bitmap(bitmap)) = bitmap
      <4>1. Total \in Nat
        BY <1>1, SetupFacts
      <4>2. /\ Bitmap(bitmap).type = "RESUME_BITMAP"
            /\ Bitmap(bitmap).body = [k \in 1..Total |-> IF k - 1 \in bitmap THEN 1 ELSE 0]
        BY DEF Bitmap, Message
      <4>3. Len(Bitmap(bitmap).body) = Total
        BY <4>1, <4>2
      <4>4. ASSUME NEW i \in 0..(Total - 1)
            PROVE  i < Len(Bitmap(bitmap).body)
                     /\ (Bitmap(bitmap).body[i + 1] = 1 <=> i \in bitmap)
        <5>1. PICK j \in 1..Total : j = i + 1 /\ j - 1 = i /\ i < Total
          BY <4>1
        <5>2. Bitmap(bitmap).body[j] = IF j - 1 \in bitmap THEN 1 ELSE 0
          BY <4>2
        <5>3. Bitmap(bitmap).body[j] = 1 <=> i \in bitmap
          BY <5>1, <5>2
        <5> QED
          BY <4>3, <5>1, <5>3
      <4>5. BitsOf(Bitmap(bitmap))
              = {i \in 0..(Total - 1) : i < Len(Bitmap(bitmap).body)
                                          /\ Bitmap(bitmap).body[i + 1] = 1}
        BY <4>2 DEF BitsOf
      <4>6. BitsOf(Bitmap(bitmap)) = {i \in 0..(Total - 1) : i \in bitmap}
        BY <4>4, <4>5
      <4> QED
        BY <1>4, <4>6
    <3> QED
      BY <1>7, <3>2, <3>3, <3>4
  <2>8. OnlyTail'
    BY <1>2, <1>4, <2>4, <2>7, Kept DEF OnlyTail
  <2>9. ~dropped' /\ rpc' = "loop" => si' = ri' /\ AgreeFrom(ri)'
    BY <1>2, <1>3, <2>7, <1>4 DEF receiver, AgreeFrom
  <2>10. LoopStreams'
    BY <1>2, <1>3, <2>1, <2>3, <2>8, <2>9 DEF LoopStreams, receiver
  <2> QED
    BY <1>5, <2>1, <2>5, <2>6, <2>10 DEF ByteInv, Held
<1>8. CASE PeerGone("sender") /\ remoteBitmap' = {}
  <2>1. /\ stream' \in [Ends -> Directions] /\ BufferInv'
        /\ Bytes("sender")' = <<>>
        /\ Bytes("receiver")' = Bytes("receiver")
        /\ UNCHANGED <<last, dropped>>
    BY <1>1, <1>8, EndsAre, GoneIs
  <2>2. rpc = "done"
    BY <1>3, <1>8 DEF PeerGone
  <2>3. ByteTypeOK'
    BY <1>1, <1>6, <1>8, <2>1 DEF ByteTypeOK
  <2>4. Held'
    BY <1>1, <1>2, <2>1, HeldStays
  <2>5. <<>> \in RestOf(Encode(Bitmap(bitmap)))
    BY <1>1, FramesAre, RestTrivial
  <2>6. OnlyTail'
    BY <1>2, <1>4, <2>1, <2>5, Kept DEF OnlyTail
  <2>7. LoopStreams'
    BY <1>2, <1>3, <2>1, <2>2, <2>6 DEF LoopStreams, receiver
  <2> QED
    BY <1>5, <2>1, <2>3, <2>4, <2>7 DEF ByteInv, Held
<1> QED
  BY <1>7, <1>8 DEF RecvBitmap

LEMMA SendChunkKeeps ==
  ASSUME ByteInv, SendChunk
  PROVE  ByteInv'
<1>1. ByteTypeOK /\ BufferInv /\ SetupStreams /\ LoopStreams /\ Held
  BY DEF ByteInv, Held
<1>2. /\ spc = "loop" /\ spc' = "ack" /\ Send("receiver", Sent(si))
      /\ UNCHANGED setup /\ UNCHANGED receiver
      /\ UNCHANGED <<last, dropped, si, remoteBitmap>>
  BY DEF SendChunk, Sent
<1>3. /\ Bytes("receiver") = <<>> /\ OnlyTail
      /\ rpc \in {"loop", "done", "failed"}
      /\ ~dropped /\ rpc = "loop" => si = ri /\ AgreeFrom(ri)
  BY <1>1, <1>2 DEF LoopStreams
<1>4. /\ stream' \in [Ends -> Directions] /\ BufferInv'
      /\ Bytes("receiver")' = Bytes("receiver") \o Encode(Sent(si))
      /\ Bytes("sender")' = Bytes("sender")
  BY <1>1, <1>2, FramesAre, EndsAre, SendIs
<1>5. Bytes("receiver")' = Encode(Sent(si))
  BY <1>1, <1>3, <1>4, FramesAre
<1>6. ByteTypeOK'
  BY <1>1, <1>2, <1>4, Kept DEF ByteTypeOK, receiver, setup
<1>7. SetupStreams'
  BY <1>2 DEF SetupStreams
<1>8. OnlyTail'
  BY <1>2, <1>3, <1>4, Kept DEF OnlyTail
<1>9. LoopStreams'
  BY <1>2, <1>3, <1>5, <1>8, Kept DEF LoopStreams, AgreeFrom, receiver
<1>10. Held'
  BY <1>1, <1>2, HeldStays
<1> QED
  BY <1>4, <1>6, <1>7, <1>9, <1>10 DEF ByteInv, Held

LEMMA SendDoneKeeps ==
  ASSUME ByteInv, SendDone
  PROVE  ByteInv'
<1>1. ByteTypeOK /\ BufferInv /\ SetupStreams /\ LoopStreams /\ Held
  BY DEF ByteInv, Held
<1>2. /\ spc = "loop" /\ spc' = "sent"
      /\ UNCHANGED setup /\ UNCHANGED receiver
      /\ UNCHANGED <<stream, last, dropped, si, remoteBitmap>>
  BY DEF SendDone
<1>3. /\ Bytes("receiver") = <<>> /\ OnlyTail
      /\ rpc \in {"loop", "done", "failed"}
  BY <1>1, <1>2 DEF LoopStreams
<1>4. /\ stream' \in [Ends -> Directions] /\ BufferInv'
      /\ Bytes("receiver")' = Bytes("receiver")
      /\ Bytes("sender")' = Bytes("sender")
  BY <1>1, <1>2, EndsAre, StreamStays
<1>5. ByteTypeOK'
  BY <1>1, <1>2, <1>4, Kept DEF ByteTypeOK, receiver, setup
<1>6. SetupStreams'
  BY <1>2 DEF SetupStreams
<1>7. OnlyTail'
  BY <1>2, <1>3, <1>4, Kept DEF OnlyTail
<1>8. LoopStreams'
  BY <1>2, <1>3, <1>4, <1>7 DEF LoopStreams, receiver
<1>9. Held'
  BY <1>1, <1>2, HeldStays
<1> QED
  BY <1>4, <1>5, <1>6, <1>8, <1>9 DEF ByteInv, Held

\* The acknowledgement, or what is taken for one and is none.
LEMMA RecvAckKeeps ==
  ASSUME ByteInv, RecvAck
  PROVE  ByteInv'
<1>1. ByteTypeOK /\ BufferInv /\ SetupStreams /\ LoopStreams /\ Held
  BY DEF ByteInv, Held
<1>2. /\ spc = "ack" /\ spc' \in {"loop", "failed"}
      /\ UNCHANGED setup /\ UNCHANGED receiver /\ UNCHANGED remoteBitmap
  BY DEF RecvAck
<1>3. \/ /\ Bytes("receiver") \in {<<>>, Encode(Sent(si))} /\ OnlyTail
         /\ rpc \in {"loop", "done", "failed"}
      \/ Bytes("receiver") = <<>> /\ OnlyTail /\ rpc = "ack"
      \/ /\ Bytes("receiver") = <<>> /\ TailAndAck
         /\ rpc \in {"loop", "done", "failed"}
         /\ ~dropped /\ rpc = "loop" => ri = Skip(si + 1, bitmap) /\ AgreeFrom(si + 1)
  BY <1>1, <1>2 DEF LoopStreams
<1>4. SetupStreams'
  BY <1>2 DEF SetupStreams
<1>5. ASSUME UNCHANGED si \/ si' = Skip(si + 1, remoteBitmap), dropped' \in BOOLEAN,
             stream' \in [Ends -> Directions],
             last' \in [Ends -> Messages \cup Garbles \cup {NoHeader}]
      PROVE  ByteTypeOK'
  <2>1. si' \in Nat
    <3>1. si + 1 \in Nat
      BY <1>1 DEF ByteTypeOK
    <3> QED
      BY <1>1, <1>5, <3>1, SkipFinds DEF ByteTypeOK
  <2> QED
    BY <1>1, <1>2, <1>5, <2>1, Kept DEF ByteTypeOK, receiver, setup
<1>6. CASE /\ RecvMessage("sender")
           /\ spc' = IF last'["sender"] = Ack THEN "loop" ELSE "failed"
           /\ si' = IF last'["sender"] = Ack THEN Skip(si + 1, remoteBitmap) ELSE si
  <2>1. /\ stream' \in [Ends -> Directions] /\ BufferInv'
        /\ Bytes("receiver")' = Bytes("receiver")
    BY <1>1, <1>6, EndsAre, ReadMessage
  <2>2. /\ last' \in [Ends -> Messages \cup Garbles \cup {NoHeader}]
        /\ Bytes("sender") # <<>>
        /\ ~dropped' => ~dropped
        /\ dropped' \in BOOLEAN
    BY <1>1, <1>6, EndsAre, StreamIs, RestTrivial, RestRead
  <2>3. ByteTypeOK'
    BY <1>5, <1>6, <2>1, <2>2
  <2>4. Held'
    BY <1>1, <1>2, <2>2, HeldStays
  <2>5. ASSUME NEW bits \in SUBSET (0..(Total - 1)),
               Bytes("sender") \in RestOf(Encode(Bitmap(bits)) \o Encode(Ack))
        PROVE  /\ Bytes("sender")' \in RestOf(Encode(Bitmap(bits)) \o Encode(Ack))
               /\ last'["sender"] = Ack => Bytes("sender") = Encode(Ack)
    <3>1. Encode(Bitmap(bits)) \o Encode(Ack) \in Seq(Octets)
      BY <1>1, MessagesAre, EncodeIs, Joined
    <3>2. Bytes("sender")' \in RestOf(Encode(Bitmap(bits)) \o Encode(Ack))
      BY <1>1, <1>6, <2>5, <3>1, EndsAre, RestRead
    <3>3. Bitmap(bits) # Ack /\ Bitmap(bits) \in Messages /\ Ack \in Messages
      BY <1>1, MessagesAre
    <3>4. last'["sender"] = Ack => Bytes("sender") = Encode(Ack)
      BY <1>1, <1>6, <2>5, <3>3, EndsAre, TwoRead
    <3> QED
      BY <3>2, <3>4
  <2>6. ASSUME OnlyTail PROVE dropped /\ OnlyTail' /\ last'["sender"] # Ack
    <3>1. PICK bits \in SUBSET (0..(Total - 1)) : Bytes("sender") \in RestOf(Encode(Bitmap(bits)))
      BY <2>6 DEF OnlyTail
    <3>2. Bitmap(bits) \in Messages /\ Bitmap(bits) # Ack /\ Ack \notin Garbles
      BY <1>1, MessagesAre DEF Garbles
    <3>3. Bytes("sender")' \in RestOf(Encode(Bitmap(bits)))
      BY <1>1, <1>6, <3>1, <3>2, EndsAre, EncodeIs, RestRead
    <3>4. dropped /\ dropped'
      BY <2>2, <2>6 DEF OnlyTail
    <3>5. Bytes("sender")[1].msg = Bitmap(bits)
      BY <2>2, <3>1, <3>2, TailIs
    <3>6. last'["sender"] # Ack
      <4>1. PICK h \in Messages \cup Garbles :
              \E n \in 1..Len(Bytes("sender")) : Decodes("sender", h, n)
        BY <1>1, <1>6, EndsAre, ReadMessage
      <4>2. last'["sender"] = h /\ (h = Bitmap(bits) \/ h \in Garbles)
        BY <1>1, <3>5, <4>1, EndsAre DEF Decodes, ByteTypeOK
      <4> QED
        BY <3>2, <4>2
    <3> QED
      BY <1>2, <3>3, <3>4, <3>6, Kept DEF OnlyTail
  <2>7. CASE OnlyTail
    <3>1. /\ dropped' /\ OnlyTail' /\ spc' = "failed" /\ si' = si
      BY <1>6, <2>2, <2>6, <2>7
    <3>2. \/ /\ Bytes("receiver") \in {<<>>, Encode(Sent(si))}
             /\ rpc \in {"loop", "done", "failed"}
          \/ Bytes("receiver") = <<>> /\ rpc = "ack"
      BY <1>3
    <3>3. LoopStreams'
      BY <1>2, <2>1, <3>1, <3>2, Kept DEF LoopStreams, receiver
    <3> QED
      BY <1>4, <2>1, <2>3, <2>4, <3>3 DEF ByteInv, Held
  <2>8. CASE ~OnlyTail
    <3>1. /\ Bytes("receiver") = <<>> /\ TailAndAck
          /\ rpc \in {"loop", "done", "failed"}
          /\ ~dropped /\ rpc = "loop" => ri = Skip(si + 1, bitmap) /\ AgreeFrom(si + 1)
      BY <1>3, <2>8
    <3>2. PICK bits \in SUBSET (0..(Total - 1)) :
            Bytes("sender") \in RestOf(Encode(Bitmap(bits)) \o Encode(Ack))
      BY <3>1 DEF TailAndAck
    <3>3. /\ Bytes("sender")' \in RestOf(Encode(Bitmap(bits)) \o Encode(Ack))
          /\ last'["sender"] = Ack => Bytes("sender") = Encode(Ack)
      BY <2>5, <3>2
    <3>4. ASSUME Bytes("sender") = Encode(Ack)
          PROVE  last'["sender"] = Ack /\ Bytes("sender")' = <<>>
      <4>1. Bytes("sender") = Encode(Ack) \o <<>> /\ Encode(Ack) # <<>>
        BY <1>1, <2>2, <3>4, FramesAre
      <4>2. last' = [last EXCEPT !["sender"] = Ack] /\ Bytes("sender")' \in RestOf(<<>>)
        BY <1>1, <1>6, <4>1, EndsAre, FramesAre, FrameRead
      <4>3. Bytes("sender")' = <<>>
        BY <1>1, <4>2, FramesAre, RestTrivial
      <4> QED
        BY <1>1, <4>2, <4>3, EndsAre DEF ByteTypeOK
    <3>5. ~dropped' => Bytes("sender") = Encode(Ack)
      BY <2>2, <3>1 DEF TailAndAck
    <3>6. CASE last'["sender"] = Ack
      <4>1. /\ Bytes("sender")' = <<>> /\ spc' = "loop"
            /\ si' = Skip(si + 1, remoteBitmap)
        BY <1>6, <3>3, <3>4, <3>6
      <4>2. OnlyTail'
        <5>1. <<>> \in RestOf(Encode(Bitmap(bits)))
          BY <1>1, MessagesAre, EncodeIs, RestTrivial
        <5> QED
          BY <1>2, <4>1, <5>1, Kept DEF OnlyTail
      <4>3. ASSUME ~dropped', rpc = "loop" PROVE si' = ri /\ AgreeFrom(ri)
        <5>1. ri = Skip(si + 1, bitmap) /\ AgreeFrom(si + 1) /\ si + 1 \in Nat
          BY <1>1, <2>2, <3>1, <4>3 DEF ByteTypeOK
        <5>2. Skip(si + 1, remoteBitmap) = Skip(si + 1, bitmap)
          BY <1>1, <5>1, SkipAgrees DEF AgreeFrom, ByteTypeOK
        <5>3. ri >= si + 1 /\ ri \in Nat /\ Total \in Nat
          BY <1>1, <5>1, SkipFinds, SetupFacts
        <5>4. AgreeFrom(ri)
          BY <5>1, <5>3 DEF AgreeFrom
        <5> QED
          BY <4>1, <5>1, <5>2, <5>4
      <4>4. LoopStreams'
        BY <1>2, <2>1, <3>1, <4>1, <4>2, <4>3, Kept DEF LoopStreams, AgreeFrom, receiver
      <4> QED
        BY <1>4, <2>1, <2>3, <2>4, <4>4 DEF ByteInv, Held
    <3>7. CASE last'["sender"] # Ack
      <4>1. dropped' /\ spc' = "failed" /\ si' = si
        BY <1>6, <3>4, <3>5, <3>7
      <4>2. TailAndAck'
        BY <1>2, <3>3, <4>1, Kept DEF TailAndAck
      <4>3. LoopStreams'
        BY <1>2, <2>1, <3>1, <4>1, <4>2 DEF LoopStreams, receiver
      <4> QED
        BY <1>4, <2>1, <2>3, <2>4, <4>3 DEF ByteInv, Held
    <3> QED
      BY <3>6, <3>7
  <2> QED
    BY <2>7, <2>8
<1>7. CASE PeerGone("sender") /\ spc' = "failed" /\ UNCHANGED si
  <2>1. /\ stream' \in [Ends -> Directions] /\ BufferInv'
        /\ Bytes("sender")' = <<>>
        /\ Bytes("receiver")' = Bytes("receiver")
        /\ UNCHANGED <<last, dropped>>
    BY <1>1, <1>7, EndsAre, GoneIs
  <2>2. rpc \in {"done", "failed"}
    BY <1>7 DEF PeerGone
  <2>3. ByteTypeOK'
    BY <1>1, <1>5, <1>7, <2>1 DEF ByteTypeOK
  <2>4. Held'
    BY <1>1, <1>2, <2>1, HeldStays
  <2>5. bitmap \in SUBSET (0..(Total - 1)) /\ <<>> \in RestOf(Encode(Bitmap(bitmap)))
    BY <1>1, FramesAre, RestTrivial DEF ByteTypeOK
  <2>6. OnlyTail'
    BY <1>2, <2>1, <2>5, Kept DEF OnlyTail
  <2>7. LoopStreams'
    BY <1>2, <1>3, <1>7, <2>1, <2>2, <2>6, Kept DEF LoopStreams, receiver
  <2> QED
    BY <1>4, <2>1, <2>3, <2>4, <2>7 DEF ByteInv, Held
<1> QED
  BY <1>6, <1>7 DEF RecvAck

-----------------------------------------------------------------------------
(* The steps of the receiver.                                              *)

LEMMA RecvOfferKeeps ==
  ASSUME ByteInv, RecvOffer
  PROVE  ByteInv'
<1>1. ByteTypeOK /\ BufferInv /\ SetupStreams /\ LoopStreams /\ Held
  BY DEF ByteInv, Held
<1>2. /\ rpc = "offer" /\ rpc' = "accept" /\ RecvMessage("receiver")
      /\ UNCHANGED setup /\ UNCHANGED sender /\ UNCHANGED <<ri, bitmap, disk>>
  BY DEF RecvOffer
<1>3. /\ stream' \in [Ends -> Directions] /\ BufferInv'
      /\ Bytes("sender")' = Bytes("sender")
  BY <1>1, <1>2, EndsAre, ReadMessage
<1>4. Bytes("receiver") # <<>>
  BY <1>1, <1>2, EndsAre, StreamIs, RestTrivial, RestRead
<1>5. spc = "response" /\ Bytes("sender") = <<>> /\ Bytes("receiver") = Encode(Offer)
  BY <1>1, <1>2, <1>4 DEF SetupStreams, LoopStreams, ByteTypeOK
<1>6. /\ last' = [last EXCEPT !["receiver"] = Offer]
      /\ Bytes("receiver")' \in RestOf(<<>>)
      /\ ~dropped' => ~dropped
      /\ dropped' \in BOOLEAN
  <2>1. Bytes("receiver") = Encode(Offer) \o <<>> /\ Encode(Offer) # <<>>
    BY <1>1, <1>4, <1>5, FramesAre
  <2> QED
    BY <1>1, <1>2, <2>1, EndsAre, FramesAre, FrameRead
<1>7. Bytes("receiver")' = <<>>
  BY <1>1, <1>6, FramesAre, RestTrivial
<1>8. ByteTypeOK'
  <2>1. last' \in [Ends -> Messages \cup Garbles \cup {NoHeader}]
    BY <1>1, <1>6, FramesAre DEF ByteTypeOK
  <2> QED
    BY <1>1, <1>2, <1>3, <1>6, <2>1, Kept DEF ByteTypeOK, sender, setup
<1>9. SetupStreams'
  BY <1>2, <1>3, <1>5, <1>7 DEF SetupStreams, sender
<1>10. LoopStreams'
  BY <1>2, <1>5 DEF LoopStreams, sender
<1>11. ManifestChunks(size, cs) < Word
  <2>1. Offer.len <= MaxMessage
    <3>1. Offer.len \in Nat /\ MaxMessage \in Nat
      BY <1>1, FramesAre, SetupFacts DEF Messages
    <3> QED
      BY <1>1, <1>4, <1>5, <3>1, FramesAre, EncodeEmpty
  <2> QED
    BY <1>1, <2>1, MessagesAre, SetupFacts
<1>12. Held'
  <2>1. LoopInv'
    BY <1>2 DEF LoopInv
  <2>2. OfferInv'
    BY <1>2, <1>11, Kept DEF OfferInv
  <2>3. DiskInv'
    BY <1>1, <1>2, Kept DEF Held, DiskInv, Positions
  <2>4. HeldWhole'
    BY <1>1, <1>2, <1>6, Kept DEF Held, HeldWhole
  <2> QED
    BY <2>1, <2>2, <2>3, <2>4 DEF Held
<1> QED
  BY <1>3, <1>8, <1>9, <1>10, <1>12 DEF ByteInv, Held

LEMMA SendAcceptKeeps ==
  ASSUME ByteInv, SendAccept
  PROVE  ByteInv'
<1>1. ByteTypeOK /\ BufferInv /\ SetupStreams /\ LoopStreams /\ Held
  BY DEF ByteInv, Held
<1>2. /\ rpc = "accept" /\ rpc' = "bitmap" /\ Send("sender", Accept)
      /\ UNCHANGED setup /\ UNCHANGED sender
      /\ UNCHANGED <<last, dropped, ri, bitmap, disk>>
  BY DEF SendAccept
<1>3. spc = "response" /\ Bytes("sender") = <<>> /\ Bytes("receiver") = <<>>
  BY <1>1, <1>2 DEF SetupStreams, LoopStreams, ByteTypeOK
<1>4. /\ stream' \in [Ends -> Directions] /\ BufferInv'
      /\ Bytes("sender")' = Bytes("sender") \o Encode(Accept)
      /\ Bytes("receiver")' = Bytes("receiver")
  BY <1>1, <1>2, FramesAre, EndsAre, SendIs
<1>5. Bytes("sender")' = Encode(Accept)
  BY <1>1, <1>3, <1>4, FramesAre
<1>6. ByteTypeOK'
  BY <1>1, <1>2, <1>4, Kept DEF ByteTypeOK, sender, setup
<1>7. SetupStreams'
  BY <1>2, <1>3, <1>4, <1>5 DEF SetupStreams, sender
<1>8. LoopStreams'
  BY <1>2, <1>3 DEF LoopStreams, sender
<1>9. Held'
  BY <1>1, <1>2, Kept DEF Held, LoopInv, OfferInv, DiskInv, Positions, HeldWhole
<1> QED
  BY <1>4, <1>6, <1>7, <1>8, <1>9 DEF ByteInv, Held

LEMMA SendBitmapKeeps ==
  ASSUME ByteInv, SendBitmap
  PROVE  ByteInv'
<1>1. ByteTypeOK /\ BufferInv /\ SetupStreams /\ LoopStreams /\ Held
  BY DEF ByteInv, Held
<1>2. /\ rpc = "bitmap" /\ rpc' = "loop" /\ Send("sender", Bitmap(bitmap))
      /\ ri' = Skip(0, bitmap)
      /\ UNCHANGED setup /\ UNCHANGED sender
      /\ UNCHANGED <<last, dropped, bitmap, disk>>
  BY DEF SendBitmap
<1>3. /\ Bytes("receiver") = <<>>
      /\ \/ spc = "response" /\ Bytes("sender") = Encode(Accept)
         \/ spc = "bitmap" /\ Bytes("sender") = <<>>
  BY <1>1, <1>2 DEF SetupStreams, LoopStreams, ByteTypeOK
<1>4. /\ stream' \in [Ends -> Directions] /\ BufferInv'
      /\ Bytes("sender")' = Bytes("sender") \o Encode(Bitmap(bitmap))
      /\ Bytes("receiver")' = Bytes("receiver")
  BY <1>1, <1>2, FramesAre, EndsAre, SendIs
<1>5. /\ ri' \in Nat
      /\ \A k \in Nat : k < ri' => k \in bitmap
  BY <1>1, <1>2, SkipFinds
<1>6. ByteTypeOK'
  BY <1>1, <1>2, <1>4, <1>5, Kept DEF ByteTypeOK, sender, setup
<1>7. SetupStreams'
  <2>1. CASE spc = "response" /\ Bytes("sender") = Encode(Accept)
    BY <1>2, <1>3, <1>4, <2>1, Kept DEF SetupStreams, sender
  <2>2. CASE spc = "bitmap" /\ Bytes("sender") = <<>>
    <3>1. /\ Bytes("sender")' = Encode(Bitmap(bitmap))
          /\ Encode(Bitmap(bitmap)) \in RestOf(Encode(Bitmap(bitmap)))
      BY <1>1, <1>4, <2>2, FramesAre, RestTrivial
    <3> QED
      BY <1>2, <1>3, <1>4, <2>2, <3>1, Kept DEF SetupStreams, sender
  <2> QED
    BY <1>3, <2>1, <2>2
<1>8. LoopStreams'
  BY <1>2, <1>3 DEF LoopStreams, sender
<1>9. Held'
  <2>1. LoopInv'
    <3>1. Total \in Nat
      BY <1>1, SetupFacts
    <3> QED
      BY <1>2, <1>5, <3>1, Kept DEF LoopInv
  <2>2. OfferInv' /\ DiskInv' /\ HeldWhole'
    BY <1>1, <1>2, Kept DEF Held, OfferInv, DiskInv, Positions, HeldWhole
  <2> QED
    BY <2>1, <2>2 DEF Held
<1> QED
  BY <1>4, <1>6, <1>7, <1>8, <1>9 DEF ByteInv, Held

\* What the receiver collects is whole.
LEMMA ReceiverMoreKeeps ==
  ASSUME ByteInv, rpc \in {"offer", "loop"}, RecvMore("receiver")
  PROVE  ByteInv'
<1>1. ByteTypeOK /\ BufferInv /\ SetupStreams /\ LoopStreams /\ Held
  BY DEF ByteInv, Held
<1>2. UNCHANGED setup /\ UNCHANGED receiver /\ UNCHANGED <<last, dropped, spc, si, remoteBitmap>>
  BY DEF RecvMore, sender
<1>3. /\ stream' \in [Ends -> Directions] /\ BufferInv'
      /\ Bytes("sender")' = Bytes("sender") /\ Bytes("receiver") # <<>>
  BY <1>1, EndsAre, ReadMore
<1>4. ByteTypeOK'
  BY <1>1, <1>2, <1>3, Kept DEF ByteTypeOK, receiver, setup
<1>5. Held'
  BY <1>1, <1>2, HeldStays
<1>6. Bytes("receiver") \in {Encode(Offer), Encode(Sent(si))}
  BY <1>1, <1>3 DEF SetupStreams, LoopStreams, ByteTypeOK
<1>7. Bytes("receiver")' = Bytes("receiver")
  <2>1. PICK m \in {Offer, Sent(si)} : Bytes("receiver") = Encode(m)
    BY <1>6
  <2>2. m \in Messages /\ Encode(m) # <<>>
    BY <1>1, <1>3, <2>1, FramesAre
  <2>3. Bytes("receiver") = Encode(m) \o <<>>
    BY <1>1, <2>1, <2>2, EncodeIs, FramesAre
  <2> QED
    BY <1>1, <2>2, <2>3, EndsAre, FramesAre, FrameStays
<1>8. SetupStreams'
  BY <1>1, <1>2, <1>3, <1>7, Kept DEF SetupStreams, receiver
<1>9. OnlyTail => OnlyTail'
  BY <1>2, <1>3, Kept DEF OnlyTail
<1>10. TailAndAck => TailAndAck'
  BY <1>2, <1>3, Kept DEF TailAndAck
<1>11. LoopStreams'
  BY <1>1, <1>2, <1>7, <1>9, <1>10, Kept DEF LoopStreams, AgreeFrom, receiver
<1> QED
  BY <1>3, <1>4, <1>5, <1>8, <1>11 DEF ByteInv, Held

LEMMA RecvDoneKeeps ==
  ASSUME ByteInv, RecvDone
  PROVE  ByteInv'
<1>1. ByteTypeOK /\ BufferInv /\ SetupStreams /\ LoopStreams /\ Held
  BY DEF ByteInv, Held
<1>2. /\ rpc = "loop" /\ rpc' = "done" /\ ri >= Total
      /\ UNCHANGED setup /\ UNCHANGED sender
      /\ UNCHANGED <<stream, last, dropped, ri, bitmap, disk>>
  BY DEF RecvDone
<1>3. /\ stream' \in [Ends -> Directions] /\ BufferInv'
      /\ Bytes("receiver")' = Bytes("receiver")
      /\ Bytes("sender")' = Bytes("sender")
  BY <1>1, <1>2, EndsAre, StreamStays
<1>4. ByteTypeOK'
  BY <1>1, <1>2, <1>3, Kept DEF ByteTypeOK, sender, setup
<1>5. SetupStreams'
  BY <1>1, <1>2, <1>3, Kept DEF SetupStreams, sender
<1>6. OnlyTail => OnlyTail'
  BY <1>2, <1>3, Kept DEF OnlyTail
<1>7. TailAndAck => TailAndAck'
  BY <1>2, <1>3, Kept DEF TailAndAck
<1>8. LoopStreams'
  BY <1>1, <1>2, <1>3, <1>6, <1>7, Kept DEF LoopStreams, sender
<1>9. Held'
  BY <1>1, <1>2, Kept DEF Held, LoopInv, OfferInv, DiskInv, Positions, HeldWhole
<1> QED
  BY <1>3, <1>4, <1>5, <1>8, <1>9 DEF ByteInv, Held

LEMMA SendAckKeeps ==
  ASSUME ByteInv, SendAck
  PROVE  ByteInv'
<1>1. ByteTypeOK /\ BufferInv /\ SetupStreams /\ LoopStreams /\ Held
  BY DEF ByteInv, Held
<1>2. /\ rpc = "ack" /\ rpc' = "loop" /\ Send("sender", Ack)
      /\ ri' = Skip(ri + 1, bitmap)
      /\ UNCHANGED setup /\ UNCHANGED sender
      /\ UNCHANGED <<last, dropped, bitmap, disk>>
  BY DEF SendAck
<1>3. /\ spc \in {"ack", "failed"}
      /\ Bytes("receiver") = <<>> /\ OnlyTail
      /\ ~dropped => si = ri /\ AgreeFrom(ri + 1) /\ spc = "ack"
  BY <1>1, <1>2 DEF SetupStreams, LoopStreams, ByteTypeOK
<1>4. /\ stream' \in [Ends -> Directions] /\ BufferInv'
      /\ Bytes("sender")' = Bytes("sender") \o Encode(Ack)
      /\ Bytes("receiver")' = Bytes("receiver")
  BY <1>1, <1>2, FramesAre, EndsAre, SendIs
<1>5. /\ ri' \in Nat /\ ri \in Nat
      /\ \A k \in Nat : ri + 1 <= k /\ k < ri' => k \in bitmap
  <2>1. ri + 1 \in Nat
    BY <1>1 DEF ByteTypeOK
  <2> QED
    BY <1>1, <1>2, <2>1, SkipFinds DEF ByteTypeOK
<1>6. ByteTypeOK'
  BY <1>1, <1>2, <1>4, <1>5, Kept DEF ByteTypeOK, sender, setup
<1>7. SetupStreams'
  BY <1>2, <1>3 DEF SetupStreams, sender
<1>8. TailAndAck'
  <2>1. PICK bits \in SUBSET (0..(Total - 1)) : Bytes("sender") \in RestOf(Encode(Bitmap(bits)))
    BY <1>3 DEF OnlyTail
  <2>2. Encode(Bitmap(bits)) \in Seq(Octets)
    BY <1>1, MessagesAre, EncodeIs
  <2>3. Bytes("sender")' \in RestOf(Encode(Bitmap(bits)) \o Encode(Ack))
    <3>1. Encode(Ack) \in Seq(Octets)
      BY <1>1, FramesAre
    <3>2. Bytes("sender") \o Encode(Ack) \in RestOf(Encode(Bitmap(bits)) \o Encode(Ack))
      BY <2>1, <2>2, <3>1, RestAppended
    <3> QED
      BY <1>4, <3>2
  <2>4. ~dropped => Bytes("sender")' = Encode(Ack)
    BY <1>1, <1>3, <1>4, FramesAre DEF OnlyTail
  <2> QED
    BY <1>2, <2>3, <2>4, Kept DEF TailAndAck
<1>9. LoopStreams'
  BY <1>2, <1>3, <1>4, <1>8, Kept DEF LoopStreams, AgreeFrom, sender
<1>10. Held'
  <2>1. LoopInv'
    <3>1. /\ \A k \in 0..(Total - 1) : k < ri => k \in bitmap
          /\ ri \in bitmap /\ Total \in Nat
      BY <1>1, <1>2, SetupFacts DEF Held, LoopInv
    <3>2. ASSUME NEW k \in 0..(Total - 1), k < ri' PROVE k \in bitmap
      BY <1>5, <3>1, <3>2
    <3> QED
      BY <1>2, <3>2, Kept DEF LoopInv
  <2>2. OfferInv' /\ DiskInv' /\ HeldWhole'
    BY <1>1, <1>2, Kept DEF Held, OfferInv, DiskInv, Positions, HeldWhole
  <2> QED
    BY <2>1, <2>2 DEF Held
<1> QED
  BY <1>4, <1>6, <1>7, <1>9, <1>10 DEF ByteInv, Held

\* The chunk that begins at its place in the manifest, when the offer has
\* come through.
LEMMA HashIs ==
  ASSUME ByteTypeOK, OfferInv, rpc # "offer", NEW i \in Nat, i < Total
  PROVE  /\ i < ManifestChunks(size, cs) /\ i * cs \in Nat /\ i * cs < size
         /\ ManifestLength(size, cs, i) \in Nat \ {0}
         /\ i * cs + ManifestLength(size, cs, i) <= size
         /\ Hash(i) \in Seq(Int) /\ Len(Hash(i)) = ManifestLength(size, cs, i)
         /\ \A k \in 1..ManifestLength(size, cs, i) : Hash(i)[k] = Byte(i * cs + k - 1)
<1>1. size \in Nat \ {0} /\ cs \in Nat \ {0} /\ i < ManifestChunks(size, cs)
  BY SetupFacts
<1>2. i * cs \in Nat /\ i * cs < size
  BY <1>1, ChunkBegins
<1> DEFINE o == i * cs
           n == ManifestLength(size, cs, i)
<1>3. /\ n \in Nat \ {0} /\ o + n <= size /\ AtMost(n, size - o) = n
  BY <1>1, <1>2 DEF ManifestLength, AtMost
<1>4. Hash(i) = ReadBytes(o, n)
  BY DEF Hash, ManifestOffset
<1> HIDE DEF o, n
<1>5. o \in Nat /\ o < size
  BY <1>2 DEF o
<1>6. /\ ReadBytes(o, n) \in Seq(Int) /\ Len(ReadBytes(o, n)) = n
      /\ \A k \in 1..Len(ReadBytes(o, n)) : ReadBytes(o, n)[k] = Byte(o + k - 1)
  <2>1. n \in Nat /\ o \in Nat
    BY <1>3, <1>5
  <2>2. /\ ReadBytes(o, n) \in Seq(Int)
        /\ Len(ReadBytes(o, n)) = IF o <= size THEN AtMost(n, size - o) ELSE 0
        /\ \A k \in 1..Len(ReadBytes(o, n)) : ReadBytes(o, n)[k] = Byte(o + k - 1)
    BY <2>1, ReadBytesIs
  <2>3. o <= size
    BY <1>1, <1>5
  <2> QED
    BY <1>3, <2>2, <2>3
<1> QED
  BY <1>1, <1>2, <1>3, <1>4, <1>6 DEF o, n

LEMMA ChunkOnDisk ==
  ASSUME ByteTypeOK, OfferInv, DiskInv, rpc # "offer", ri < Total, UNCHANGED setup,
         disk' = Written(WriteOffset(cs, ri), Hash(ri)), bitmap' = bitmap \cup {ri}
  PROVE  DiskInv'
<1> SUFFICES ASSUME size < Word
             PROVE  disk' = [k \in Positions |-> Initially(k, bitmap \cup {ri})]
  <2>1. size' = size /\ \A k, b : Initially(k, b)' = Initially(k, b)
    BY Kept, Zenon
  <2> QED
    BY <2>1 DEF DiskInv, Positions
<1>1. size \in Nat \ {0} /\ cs \in Nat \ {0} /\ ri \in Nat /\ MaxSize \in Nat
  BY SetupFacts, ByteAssumption DEF ByteTypeOK
<1>2. PICK o \in Nat, n \in Nat \ {0} :
        /\ o = ri * cs /\ n = ManifestLength(size, cs, ri)
        /\ ri < ManifestChunks(size, cs) /\ o < size /\ o + n <= size
        /\ Len(Hash(ri)) = n
        /\ \A k \in 1..n : Hash(ri)[k] = Byte(o + k - 1)
  BY <1>1, HashIs
<1>3. size \in 0..(Word - 1)
  BY <1>1, SetupFacts
<1>4. WriteOffset(cs, ri) = o /\ SendOffset(cs, ri) = o /\ SendLength(size, cs, ri) = n
  BY <1>1, <1>2, <1>3, SmallFilesExact DEF ManifestOffset
<1>5. disk = [k \in Positions |-> Initially(k, bitmap)]
  BY DEF DiskInv
<1>6. disk' = [k \in Positions |->
                 IF k - o \in 0..(n - 1) THEN Hash(ri)[k - o + 1] ELSE disk[k]]
  BY <1>2, <1>4 DEF Written
<1>7. ASSUME NEW k \in Positions
      PROVE  (IF k - o \in 0..(n - 1) THEN Hash(ri)[k - o + 1] ELSE disk[k])
               = Initially(k, bitmap \cup {ri})
  <2>1. k \in Nat
    BY <1>1 DEF Positions
  <2>2. CASE k - o \in 0..(n - 1)
    <3>1. k \in 0..(size - 1) /\ k \in o..(o + n - 1)
      BY <1>1, <1>2, <2>1, <2>2
    <3>2. ri = k \div cs
      <4>1. ri \in 0..(ManifestChunks(size, cs) - 1)
        BY <1>1, <1>2, SetupFacts
      <4> QED
        BY <1>1, <1>3, <1>4, <3>1, <4>1, EveryByteSentOnce
    <3>3. PICK j \in 1..n : j = k - o + 1
      BY <1>2, <2>1, <2>2
    <3>4. Hash(ri)[j] = Byte(o + j - 1) /\ o + j - 1 = k
      <4>1. Hash(ri)[j] = Byte(o + j - 1)
        BY <1>2
      <4>2. o + j - 1 = k
        <5>1. o \in Nat
          BY <1>2
        <5> QED
          BY <2>1, <3>3, <5>1
      <4> QED
        BY <4>1, <4>2
    <3>5. Initially(k, bitmap \cup {ri}) = Byte(k)
      BY <1>1, <3>1, <3>2 DEF Initially
    <3> QED
      BY <2>2, <3>3, <3>4, <3>5
  <2>3. CASE k - o \notin 0..(n - 1)
    <3>1. k < size => ri # k \div cs
      <4> SUFFICES ASSUME k < size PROVE ri # k \div cs
        OBVIOUS
      <4>1. k \in 0..(size - 1) /\ k \notin o..(o + n - 1)
        BY <1>1, <1>2, <2>1, <2>3
      <4>2. ri \in 0..(ManifestChunks(size, cs) - 1)
        BY <1>1, <1>2, SetupFacts
      <4> QED
        BY <1>1, <1>3, <1>4, <4>1, <4>2, EveryByteSentOnce
    <3>2. disk[k] = Initially(k, bitmap)
      BY <1>5
    <3>3. Initially(k, bitmap) = Initially(k, bitmap \cup {ri})
      BY <3>1 DEF Initially
    <3> QED
      BY <2>3, <3>2, <3>3
  <2> QED
    BY <2>2, <2>3
<1> QED
  BY <1>6, <1>7

\* When all bytes differ, a chunk that is taken for another was read from the
\* same place.
LEMMA ChunkPlaced ==
  ASSUME ByteTypeOK, OfferInv, rpc # "offer", ri < Total, ~alike,
         NEW j \in Nat, Sent(j).body = Hash(ri)
  PROVE  SendOffset(cs, j) = SendOffset(cs, ri)
<1>1. /\ ri \in Nat /\ cs \in Nat \ {0} /\ size \in Nat
  BY SetupFacts DEF ByteTypeOK
<1>2. PICK o \in Nat, n \in Nat \ {0} :
        /\ o = ri * cs /\ Len(Hash(ri)) = n
        /\ \A k \in 1..n : Hash(ri)[k] = Byte(o + k - 1)
  BY <1>1, HashIs
<1>3. Hash(ri)[1] = o
  <2>1. 1 \in 1..n /\ o + 1 - 1 = o
    BY <1>2
  <2>2. Hash(ri)[1] = Byte(o)
    BY <1>2, <2>1
  <2> QED
    BY <2>2 DEF Byte
<1>4. PICK q \in Nat, m \in Nat :
        /\ q = SendOffset(cs, j) /\ q < Word /\ m = SendLength(size, cs, j)
  <2>1. j * cs \in Nat
    BY <1>1
  <2>2. SendOffset(cs, j) \in Nat /\ SendOffset(cs, j) < Word
    BY <2>1, WordRange DEF SendOffset
  <2>3. SendLength(size, cs, j) \in Nat
    <3>1. size - SendOffset(cs, j) \in Int
      BY <1>1, <2>2
    <3> QED
      BY <1>1, <3>1, WordRange DEF SendLength, AtMost
  <2> QED
    BY <2>2, <2>3
<1>5. Hash(ri) = ReadBytes(q, m)
  BY <1>4, MessagesAre
<1>6. Hash(ri)[1] = q
  <2>1. Len(ReadBytes(q, m)) = n /\ 1 \in 1..n /\ q + 1 - 1 = q
    BY <1>2, <1>4, <1>5
  <2>2. \A k \in 1..n : ReadBytes(q, m)[k] = Byte(q + k - 1)
    <3>1. \A k \in 1..Len(ReadBytes(q, m)) : ReadBytes(q, m)[k] = Byte(q + k - 1)
      BY ReadBytesIs
    <3> QED
      BY <2>1, <3>1
  <2>3. ReadBytes(q, m)[1] = Byte(q)
    BY <2>1, <2>2
  <2> QED
    BY <1>5, <2>3 DEF Byte
<1>7. SendOffset(cs, ri) = o
  <2>1. o \in 0..(Word - 1)
    BY <1>3, <1>4, <1>6, WordAssumption
  <2>2. U32(o) = o
    BY <2>1, FitsWord
  <2> QED
    BY <1>2, <2>2 DEF SendOffset
<1> QED
  BY <1>3, <1>4, <1>6, <1>7

\* A chunk that is taken for another, and was read from the same place, is
\* not shorter.
LEMMA ChunkWhole ==
  ASSUME ByteTypeOK, OfferInv, rpc # "offer", ri < Total,
         NEW j \in Nat, Sent(j).body = Hash(ri), SendOffset(cs, j) = SendOffset(cs, ri)
  PROVE  SendLength(size, cs, ri) >= ManifestLength(size, cs, ri)
<1>1. /\ ri \in Nat /\ cs \in Nat \ {0} /\ size \in Nat
  BY SetupFacts DEF ByteTypeOK
<1>2. /\ Len(Hash(ri)) = ManifestLength(size, cs, ri)
      /\ ManifestLength(size, cs, ri) \in Nat
  BY <1>1, HashIs
<1>3. SendOffset(cs, ri) \in Nat
  BY <1>1, WordRange DEF SendOffset
<1>4. SendLength(size, cs, ri) \in Nat /\ SendLength(size, cs, j) = SendLength(size, cs, ri)
  <2>1. size - SendOffset(cs, ri) \in Int
    BY <1>1, <1>3
  <2> QED
    BY <1>1, <2>1, WordRange DEF SendLength, AtMost
<1>5. Len(ReadBytes(SendOffset(cs, ri), SendLength(size, cs, ri))) <= SendLength(size, cs, ri)
  BY <1>3, <1>4, ReadBytesIs
<1>6. Hash(ri) = ReadBytes(SendOffset(cs, ri), SendLength(size, cs, ri))
  BY <1>4, MessagesAre
<1> QED
  BY <1>2, <1>4, <1>5, <1>6

LEMMA RecvChunkKeeps ==
  ASSUME ByteInv, RecvChunk
  PROVE  ByteInv'
<1>1. ByteTypeOK /\ BufferInv /\ SetupStreams /\ LoopStreams /\ Held
  BY DEF ByteInv, Held
<1>2. /\ rpc = "loop" /\ ri < Total
      /\ UNCHANGED setup /\ UNCHANGED sender /\ UNCHANGED ri
  BY DEF RecvChunk
<1>3. OfferInv /\ DiskInv /\ HeldWhole /\ LoopInv /\ ri \in Nat /\ Total \in Nat
  BY <1>1, SetupFacts DEF Held, ByteTypeOK
<1>4. CASE /\ RecvMessage("receiver")
           /\ IF last'["receiver"].body = Hash(ri)
              THEN /\ disk' = Written(WriteOffset(cs, ri), last'["receiver"].body)
                   /\ bitmap' = bitmap \cup {ri}
                   /\ rpc' = "ack"
              ELSE rpc' = "failed" /\ UNCHANGED <<bitmap, disk>>
  <2>1. /\ stream' \in [Ends -> Directions] /\ BufferInv'
        /\ Bytes("sender")' = Bytes("sender")
    BY <1>1, <1>4, EndsAre, ReadMessage
  <2>2. Bytes("receiver") # <<>>
    BY <1>1, <1>4, EndsAre, StreamIs, RestTrivial, RestRead
  <2>3. /\ spc \in {"ack", "failed"} /\ Bytes("receiver") = Encode(Sent(si))
        /\ OnlyTail
        /\ ~dropped => si = ri /\ AgreeFrom(ri) /\ spc = "ack"
    BY <1>1, <1>2, <2>2 DEF SetupStreams, LoopStreams, ByteTypeOK
  <2>4. /\ last' = [last EXCEPT !["receiver"] = Sent(si)]
        /\ Bytes("receiver")' \in RestOf(<<>>)
        /\ ~dropped' => ~dropped
        /\ dropped' \in BOOLEAN
    <3>1. Bytes("receiver") = Encode(Sent(si)) \o <<>> /\ Encode(Sent(si)) # <<>>
      BY <1>1, <2>2, <2>3, FramesAre
    <3> QED
      BY <1>1, <1>4, <3>1, EndsAre, FramesAre, FrameRead
  <2>5. Bytes("receiver")' = <<>>
    BY <1>1, <2>4, FramesAre, RestTrivial
  <2>6. /\ last' \in [Ends -> Messages \cup Garbles \cup {NoHeader}]
        /\ last'["receiver"] = Sent(si)
    BY <1>1, <2>4, FramesAre, EndsAre DEF ByteTypeOK
  <2>7. OnlyTail'
    BY <1>2, <2>1, <2>3, <2>4, Kept DEF OnlyTail
  <2>8. SetupStreams'
    BY <1>2, <2>3 DEF SetupStreams, sender
  <2>9. CASE Sent(si).body = Hash(ri)
    <3>1. /\ disk' = Written(WriteOffset(cs, ri), Hash(ri))
          /\ bitmap' = bitmap \cup {ri} /\ rpc' = "ack"
      BY <1>4, <2>6, <2>9
    <3>2. ByteTypeOK'
      <4>1. bitmap' \subseteq 0..(Total - 1)
        BY <1>1, <1>2, <1>3, <3>1 DEF ByteTypeOK
      <4> QED
        BY <1>1, <1>2, <2>1, <2>4, <2>6, <3>1, <4>1, Kept DEF ByteTypeOK, sender, setup
    <3>3. ~dropped' => si = ri /\ AgreeFrom(ri + 1)'
      <4>1. ASSUME ~dropped' PROVE si = ri /\ AgreeFrom(ri)
        BY <2>3, <2>4, <4>1
      <4>2. ASSUME ~dropped', NEW k \in 0..(Total - 1), k >= ri + 1
            PROVE  k \in remoteBitmap <=> k \in bitmap \cup {ri}
        <5>1. k >= ri /\ k # ri
          BY <1>3, <4>2
        <5> QED
          BY <4>1, <4>2, <5>1 DEF AgreeFrom
      <4> QED
        BY <1>2, <3>1, <4>1, <4>2, Kept DEF AgreeFrom, sender
    <3>4. LoopStreams'
      BY <1>2, <2>3, <2>4, <2>5, <2>7, <3>1, <3>3 DEF LoopStreams, sender
    <3>5. LoopInv'
      BY <1>2, <1>3, <3>1, Kept DEF LoopInv
    <3>6. OfferInv'
      BY <1>2, <1>3, <3>1, Kept DEF OfferInv
    <3>7. DiskInv'
      BY <1>1, <1>2, <1>3, <3>1, ChunkOnDisk
    <3>8. HeldWhole'
      <4>1. ASSUME ~dropped' \/ ~alike
            PROVE  SendLength(size, cs, ri) >= ManifestLength(size, cs, ri)
        <5>1. si \in Nat
          BY <1>1 DEF ByteTypeOK
        <5>2. SendOffset(cs, si) = SendOffset(cs, ri)
          BY <1>1, <1>2, <1>3, <2>3, <2>4, <2>9, <4>1, <5>1, ChunkPlaced
        <5> QED
          BY <1>1, <1>2, <1>3, <2>9, <5>1, <5>2, ChunkWhole
      <4> QED
        BY <1>2, <1>3, <2>4, <3>1, <4>1, Kept DEF HeldWhole
    <3> QED
      BY <2>1, <2>8, <3>2, <3>4, <3>5, <3>6, <3>7, <3>8 DEF ByteInv
  <2>10. CASE Sent(si).body # Hash(ri)
    <3>1. rpc' = "failed" /\ UNCHANGED <<bitmap, disk>>
      BY <1>4, <2>6, <2>10
    <3>2. ByteTypeOK'
      BY <1>1, <1>2, <2>1, <2>4, <2>6, <3>1, Kept DEF ByteTypeOK, sender, setup
    <3>3. LoopStreams'
      BY <1>2, <2>3, <2>4, <2>5, <2>7, <3>1 DEF LoopStreams, sender
    <3>4. LoopInv' /\ OfferInv' /\ DiskInv' /\ HeldWhole'
      BY <1>2, <1>3, <2>4, <3>1, Kept DEF LoopInv, OfferInv, DiskInv, Positions, HeldWhole
    <3> QED
      BY <2>1, <2>8, <3>2, <3>3, <3>4 DEF ByteInv
  <2> QED
    BY <2>9, <2>10
<1>5. CASE PeerGone("receiver") /\ rpc' = "failed" /\ UNCHANGED <<bitmap, disk>>
  <2>1. /\ stream' \in [Ends -> Directions] /\ BufferInv'
        /\ Bytes("receiver")' = <<>>
        /\ Bytes("sender")' = Bytes("sender")
        /\ UNCHANGED <<last, dropped>>
    BY <1>1, <1>5, EndsAre, GoneIs
  <2>2. spc \in {"sent", "failed"}
    BY <1>5 DEF PeerGone
  <2>3. ByteTypeOK'
    BY <1>1, <1>2, <1>5, <2>1, Kept DEF ByteTypeOK, sender, setup
  <2>4. SetupStreams'
    BY <1>2, <2>2 DEF SetupStreams, sender
  <2>5. (OnlyTail => OnlyTail') /\ (TailAndAck => TailAndAck')
    BY <1>2, <2>1, Kept DEF OnlyTail, TailAndAck
  <2>6. LoopStreams'
    BY <1>1, <1>2, <1>5, <2>1, <2>2, <2>5 DEF LoopStreams, sender
  <2>7. LoopInv' /\ OfferInv' /\ DiskInv' /\ HeldWhole'
    BY <1>2, <1>3, <1>5, <2>1, Kept DEF LoopInv, OfferInv, DiskInv, Positions, HeldWhole
  <2> QED
    BY <2>1, <2>3, <2>4, <2>6, <2>7 DEF ByteInv
<1> QED
  BY <1>4, <1>5 DEF RecvChunk

-----------------------------------------------------------------------------
(* The theorems.                                                           *)

LEMMA ByteInit ==
  ASSUME Init
  PROVE  ByteInv
<1>1. /\ size \in Sizes /\ cs \in ChunkSizes /\ alike \in BOOLEAN /\ oldSize \in OldSizes
      /\ stream = [end \in Ends |-> Empty(<<>>)]
      /\ last = [end \in Ends |-> NoHeader]
      /\ dropped = FALSE
      /\ spc = "offer" /\ si = 0 /\ remoteBitmap = {}
      /\ rpc = "offer" /\ ri = 0 /\ bitmap = {}
      /\ disk = [k \in Positions |-> Initially(k, {})]
  BY DEF Init
<1>2. <<>> \in Seq(Octets)
  OBVIOUS
<1>3. /\ Empty(<<>>) \in Directions /\ Collected(Empty(<<>>))
      /\ Empty(<<>>).buffer \o Empty(<<>>).wire = <<>>
  BY <1>2, EmptyIs
<1>4. bitmap \subseteq 0..(Total - 1)
  BY <1>1
<1>5. ByteTypeOK
  BY <1>1, <1>3, <1>4 DEF ByteTypeOK
<1>6. BufferInv /\ \A end \in Ends : Bytes(end) = <<>>
  BY <1>1, <1>3 DEF BufferInv, Bytes
<1>7. SetupStreams /\ LoopStreams
  BY <1>1, <1>6, EndsAre DEF SetupStreams, LoopStreams
<1>8. LoopInv /\ OfferInv /\ DiskInv
  BY <1>1 DEF LoopInv, OfferInv, DiskInv
<1>9. HeldWhole
  BY <1>1 DEF HeldWhole
<1> QED
  BY <1>5, <1>6, <1>7, <1>8, <1>9 DEF ByteInv

\* Nothing is on its way to either end, and no call has collected a byte.
LEMMA Fresh ==
  ASSUME stream' = [end \in Ends |-> Empty(<<>>)]
  PROVE  /\ stream' \in [Ends -> Directions] /\ BufferInv'
         /\ \A end \in Ends : Bytes(end)' = <<>>
<1>1. <<>> \in Seq(Octets)
  OBVIOUS
<1>2. /\ Empty(<<>>) \in Directions /\ Collected(Empty(<<>>))
      /\ Empty(<<>>).buffer \o Empty(<<>>).wire = <<>>
  BY <1>1, EmptyIs
<1>3. \A end \in Ends : stream'[end] = Empty(<<>>)
  OBVIOUS
<1>4. stream' \in [Ends -> Directions]
  BY <1>2
<1>5. BufferInv'
  BY <1>2, <1>3 DEF BufferInv, Collected, TooLong, Complete
<1>6. \A end \in Ends : Bytes(end)' = <<>>
  BY <1>2, <1>3 DEF Bytes
<1> QED
  BY <1>4, <1>5, <1>6

\* The next session finds the chunks that were stored, and nothing else.
LEMMA NextSessionKeeps ==
  ASSUME ByteInv, NextSession
  PROVE  ByteInv'
<1>1. ByteTypeOK /\ LoopInv /\ DiskInv /\ HeldWhole
  BY DEF ByteInv
<1>2. /\ stream' = [end \in Ends |-> Empty(<<>>)]
      /\ last' = [end \in Ends |-> NoHeader]
      /\ spc' = "offer" /\ si' = 0 /\ remoteBitmap' = {}
      /\ rpc' = "offer" /\ ri' = 0
      /\ UNCHANGED setup /\ UNCHANGED <<dropped, bitmap, disk>>
  BY DEF NextSession
<1>3. /\ stream' \in [Ends -> Directions] /\ BufferInv'
      /\ Bytes("sender")' = <<>> /\ Bytes("receiver")' = <<>>
  BY <1>2, EndsAre, Fresh
<1>4. ByteTypeOK'
  BY <1>1, <1>2, <1>3, Kept DEF ByteTypeOK, setup
<1>5. SetupStreams' /\ LoopStreams'
  BY <1>2, <1>3 DEF SetupStreams, LoopStreams
<1>6. LoopInv' /\ OfferInv'
  BY <1>2 DEF LoopInv, OfferInv
<1>7. DiskInv' /\ HeldWhole'
  BY <1>1, <1>2, Kept DEF DiskInv, Positions, HeldWhole
<1> QED
  BY <1>3, <1>4, <1>5, <1>6, <1>7 DEF ByteInv

LEMMA ByteStep ==
  ASSUME ByteInv, [Next]_vars
  PROVE  ByteInv'
<1>1. CASE SenderStep
  BY <1>1, SendOfferKeeps, RecvResponseKeeps, RecvBitmapKeeps, SendChunkKeeps,
     RecvAckKeeps, SendDoneKeeps, SenderMoreKeeps DEF SenderStep
<1>2. CASE ReceiverStep
  BY <1>2, RecvOfferKeeps, SendAcceptKeeps, SendBitmapKeeps, RecvChunkKeeps,
     SendAckKeeps, RecvDoneKeeps, ReceiverMoreKeeps DEF ReceiverStep
<1>3. CASE UNCHANGED vars
  <2>1. ByteTypeOK /\ BufferInv /\ SetupStreams /\ LoopStreams /\ Held
    BY DEF ByteInv, Held
  <2>2. /\ UNCHANGED setup /\ UNCHANGED sender /\ UNCHANGED receiver
        /\ UNCHANGED <<stream, last, dropped>>
    BY <1>3 DEF vars
  <2>3. /\ BufferInv' /\ Bytes("sender")' = Bytes("sender")
        /\ Bytes("receiver")' = Bytes("receiver")
    BY <2>1, <2>2, EndsAre, StreamStays
  <2>4. ByteTypeOK'
    BY <2>1, <2>2, Kept DEF ByteTypeOK, sender, receiver, setup
  <2>5. SetupStreams'
    BY <2>1, <2>2, <2>3, Kept DEF SetupStreams, sender, receiver
  <2>6. (OnlyTail => OnlyTail') /\ (TailAndAck => TailAndAck')
    BY <2>2, <2>3, Kept DEF OnlyTail, TailAndAck
  <2>7. LoopStreams'
    BY <2>1, <2>2, <2>3, <2>6, Kept DEF LoopStreams, AgreeFrom, sender, receiver
  <2>8. Held'
    BY <2>1, <2>2, HeldStays
  <2> QED
    BY <2>3, <2>4, <2>5, <2>7, <2>8 DEF ByteInv, Held
<1>4. CASE NextSession
  BY <1>4, NextSessionKeeps
<1> QED
  BY <1>1, <1>2, <1>3, <1>4 DEF Next

\* At every step of the two ends the bytes on their way are the frames that
\* step has left there, or the end of one whose beginning was dropped, and the
\* chunks of the bitmap are on disk: for every size of a file, a chunk and a
\* message, and however the stream is cut.
THEOREM ByteInvHolds == Spec => []ByteInv
<1>1. Init => ByteInv
  BY ByteInit
<1>2. ByteInv /\ [Next]_vars => ByteInv'
  BY ByteStep
<1> QED
  BY <1>1, <1>2, PTL DEF Spec

\* A download that is reported as complete holds the file byte by byte, and
\* what was behind its end before.
THEOREM DoneMeansSourceHolds == Spec => []DoneMeansSource
<1>1. ByteInv => DoneMeansSource
  <2> SUFFICES ASSUME ByteInv, rpc = "done", size < Word, NEW k \in Positions
               PROVE  disk[k] = IF k < size THEN Byte(k) ELSE Initially(k, {})
    BY DEF DoneMeansSource
  <2>1. ByteTypeOK /\ LoopInv /\ OfferInv /\ DiskInv
    BY DEF ByteInv
  <2>2. /\ size \in Nat \ {0} /\ cs \in Nat \ {0} /\ MaxSize \in Nat /\ ri \in Nat
        /\ Total = ManifestChunks(size, cs) /\ Total \in Nat
    BY <2>1, SetupFacts, ByteAssumption DEF OfferInv, ByteTypeOK
  <2>3. \A i \in 0..(Total - 1) : i \in bitmap
    BY <2>1, <2>2 DEF LoopInv
  <2>4. disk[k] = Initially(k, bitmap) /\ k \in Nat
    BY <2>1, <2>2 DEF DiskInv, Positions
  <2>5. CASE k < size
    <3>1. PICK q \in Nat : q = k \div cs /\ q * cs <= k
      <4>1. k \div cs \in Nat /\ k % cs \in 0..(cs - 1) /\ k = (k \div cs) * cs + (k % cs)
        BY <2>2, <2>4, Division
      <4>2. (k \div cs) * cs \in Nat
        BY <2>2, <4>1
      <4> QED
        BY <2>2, <4>1, <4>2
    <3>2. q * cs < size
      <4>1. q * cs \in Nat
        BY <2>2
      <4> QED
        BY <2>2, <2>4, <2>5, <3>1, <4>1
    <3>3. q \in bitmap
      BY <2>2, <2>3, <3>2, ChunkBegins
    <3> QED
      BY <2>4, <2>5, <3>1, <3>3 DEF Initially
  <2>6. CASE ~(k < size)
    BY <2>4, <2>6 DEF Initially
  <2> QED
    BY <2>5, <2>6
<1> QED
  BY <1>1, ByteInvHolds, PTL

\* A file that does not fit the word is not reported as received, over any
\* number of sessions: some chunk is sent shorter than it was hashed, and none
\* that is held is.  The exception is a file of equal bytes of which a bitmap
\* was dropped, in this session or an earlier one.
THEOREM LargeFilesRefusedHolds == Spec => []LargeFilesRefused
<1>1. ByteInv => LargeFilesRefused
  <2> SUFFICES ASSUME ByteInv, size >= Word, ~(dropped /\ alike), rpc = "done" PROVE FALSE
    BY DEF LargeFilesRefused
  <2>1. ByteTypeOK /\ LoopInv /\ OfferInv /\ HeldWhole
    BY DEF ByteInv
  <2>2. /\ size \in Nat /\ cs \in Nat \ {0} /\ cs < Word /\ Word \in Nat /\ ri \in Nat
        /\ Total = ManifestChunks(size, cs) /\ Total \in Nat
    BY <2>1, SetupFacts DEF OfferInv, ByteTypeOK
  <2>3. PICK i \in Nat :
          /\ i < ManifestChunks(size, cs)
          /\ SendLength(size, cs, i) < ManifestLength(size, cs, i)
    <3>1. cs \in 1..Word
      BY <2>2
    <3> QED
      BY <2>2, <3>1, LargeFilesCut
  <2>4. i \in bitmap
    BY <2>1, <2>2, <2>3 DEF LoopInv
  <2>5. SendLength(size, cs, i) >= ManifestLength(size, cs, i)
    BY <2>1, <2>4 DEF HeldWhole
  <2>6. SendLength(size, cs, i) \in Int /\ ManifestLength(size, cs, i) \in Int
    <3>1. i * cs \in Nat
      BY <2>2, <2>3
    <3>2. SendOffset(cs, i) \in Nat
      BY <3>1, WordRange DEF SendOffset
    <3>3. size - SendOffset(cs, i) \in Int
      BY <2>2, <3>2
    <3> QED
      BY <2>2, <3>1, <3>3, WordRange DEF SendLength, ManifestLength, AtMost
  <2> QED
    BY <2>3, <2>5, <2>6
<1> QED
  BY <1>1, ByteInvHolds, PTL

-----------------------------------------------------------------------------
(* The queue of frames behind a stream.                                    *)

\* A frame, or the end of one, and nothing behind it.
OneFrame(b) == b # <<>> /\ \A k \in 2..Len(b) : b[k].at # 1

\* A second begins at p.
TwoFrames(b, p) ==
  /\ p \in 2..Len(b) /\ b[p].at = 1
  /\ \A k \in 2..Len(b) : k # p => b[k].at # 1

\* At most two frames, of which the first is whole when its beginning is there.
Queued(b) ==
  /\ b \in Seq(Octets)
  /\ \/ b = <<>>
     \/ OneFrame(b) /\ (b[1].at = 1 => Len(b) = HeaderSize + b[1].msg.len)
     \/ \E p \in 2..Len(b) :
          TwoFrames(b, p) /\ (b[1].at = 1 => p = HeaderSize + b[1].msg.len + 1)

LEMMA NoQueue == FramesIn(<<>>) = <<>>
<1>1. Heads(<<>>) = {}
  BY DEF Heads
<1>2. Cardinality(Heads(<<>>)) = 0
  BY <1>1, FS_EmptySet
<1> QED
  BY <1>2 DEF FramesIn

LEMMA OneQueue ==
  ASSUME NEW b \in Seq(Octets), OneFrame(b)
  PROVE  FramesIn(b) = <<Frame(b[1])>>
<1>1. Len(b) \in Nat /\ Len(b) > 0
  BY DEF OneFrame
<1>2. Heads(b) = {1}
  BY <1>1 DEF Heads, OneFrame
<1>3. {h \in Heads(b) : h <= 1} = {1}
  BY <1>2
<1>4. Cardinality(Heads(b)) = 1 /\ Place(1, b) = 1
  BY <1>2, <1>3, FS_Singleton DEF Place
<1>5. (CHOOSE k \in Heads(b) : Place(k, b) = 1) = 1
  BY <1>2, <1>4
<1>6. FramesIn(b) = [j \in 1..1 |-> Frame(b[CHOOSE k \in Heads(b) : Place(k, b) = j])]
  BY <1>4 DEF FramesIn
<1>7. \A j \in 1..1 : j = 1
  OBVIOUS
<1>8. FramesIn(b) = [j \in 1..1 |-> Frame(b[1])]
  BY <1>5, <1>6, <1>7, Zenon
<1> QED
  BY <1>8

LEMMA TwoQueue ==
  ASSUME NEW b \in Seq(Octets), NEW p \in 2..Len(b), TwoFrames(b, p)
  PROVE  FramesIn(b) = <<Frame(b[1]), Frame(b[p])>>
<1>1. Len(b) \in Nat /\ p \in Nat /\ 1 < p /\ p <= Len(b)
  OBVIOUS
<1>2. Heads(b) = {1, p}
  BY <1>1 DEF Heads, TwoFrames
<1>3. {h \in Heads(b) : h <= 1} = {1} /\ {h \in Heads(b) : h <= p} = {1} \cup {p}
  BY <1>1, <1>2
<1>4. Cardinality({1}) = 1 /\ IsFiniteSet({1})
  BY FS_Singleton
<1>5. Cardinality({1} \cup {p}) = 2
  <2>1. p \notin {1}
    BY <1>1
  <2>2. Cardinality({1} \cup {p}) = Cardinality({1}) + 1
    BY <1>4, <2>1, FS_AddElement
  <2>3. Cardinality({1}) + 1 = 2
    BY <1>4
  <2> QED
    BY <2>2, <2>3, Zenon
<1>6. Cardinality(Heads(b)) = 2 /\ Place(1, b) = 1 /\ Place(p, b) = 2
  <2>1. Heads(b) = {1} \cup {p}
    BY <1>2
  <2> QED
    BY <1>3, <1>4, <1>5, <2>1 DEF Place
<1>7. (CHOOSE k \in Heads(b) : Place(k, b) = 1) = 1
  BY <1>2, <1>6
<1>8. (CHOOSE k \in Heads(b) : Place(k, b) = 2) = p
  BY <1>2, <1>6
<1>9. FramesIn(b) = [j \in 1..2 |-> Frame(b[CHOOSE k \in Heads(b) : Place(k, b) = j])]
  BY <1>6 DEF FramesIn
<1>10. FramesIn(b)[1] = Frame(b[1]) /\ FramesIn(b)[2] = Frame(b[p])
  <2>1. 1 \in 1..2 /\ 2 \in 1..2
    OBVIOUS
  <2> QED
    BY <1>7, <1>8, <1>9, <2>1, Zenon
<1>11. \A j \in 1..2 : j = 1 \/ j = 2
  OBVIOUS
<1>12. DOMAIN FramesIn(b) = 1..2 /\ FramesIn(b) = [j \in 1..2 |-> FramesIn(b)[j]]
  BY <1>9, Zenon
<1> QED
  BY <1>10, <1>11, <1>12

\* The bytes of a message that is sent.
LEMMA FrameIs ==
  ASSUME NEW m \in Messages, NEW e, e = Encode(m), e # <<>>
  PROVE  /\ HeaderSize \in Nat \ {0} /\ m.len \in Nat /\ Len(e) = HeaderSize + m.len
         /\ \A k \in 1..(HeaderSize + m.len) : e[k] = [msg |-> m, at |-> k]
<1>1. HeaderSize \in Nat \ {0} /\ MaxMessage \in Nat
  BY ByteAssumption
<1>2. m.len \in Nat
  BY DEF Messages
<1>3. m.len <= MaxMessage
  BY <1>1, <1>2, EncodeEmpty
<1> QED
  BY <1>1, <1>2, <1>3, EncodeIs

\* A message behind at most one frame is the last of the queue.
LEMMA QueueAppend ==
  ASSUME NEW b \in Seq(Octets), b = <<>> \/ OneFrame(b),
         NEW m \in Messages, Encode(m) # <<>>
  PROVE  FramesIn(b \o Encode(m)) = Append(FramesIn(b), m)
<1>1. PICK e \in Seq(Octets) : e = Encode(m)
  BY EncodeIs
<1>2. /\ HeaderSize \in Nat \ {0} /\ m.len \in Nat /\ Len(e) = HeaderSize + m.len
      /\ \A k \in 1..(HeaderSize + m.len) : e[k] = [msg |-> m, at |-> k]
  BY <1>1, FrameIs
<1>3. Len(e) > 0 /\ Len(e) \in Nat /\ e # <<>>
  BY <1>1, <1>2
<1>4. e[1].at = 1 /\ Frame(e[1]) = m /\ \A k \in 2..Len(e) : e[k].at # 1
  <2>1. 1 \in 1..(HeaderSize + m.len)
    BY <1>2
  <2>2. e[1] = [msg |-> m, at |-> 1]
    BY <1>2, <2>1
  <2>3. \A k \in 2..Len(e) : e[k] = [msg |-> m, at |-> k]
    BY <1>2
  <2>4. e[1].at = 1 /\ e[1].msg = m
    BY <2>2
  <2>5. ASSUME NEW k \in 2..Len(e) PROVE e[k].at # 1
    <3>1. k # 1 /\ e[k] = [msg |-> m, at |-> k]
      BY <1>3, <2>3
    <3> QED
      BY <3>1
  <2> QED
    BY <2>4, <2>5 DEF Frame
<1>5. PICK a \in Seq(Octets) : a = b \o e
  BY <1>1, Joined
<1>6. /\ Len(a) = Len(b) + Len(e)
      /\ \A k \in 1..Len(b) : a[k] = b[k]
      /\ \A k \in 1..Len(e) : a[Len(b) + k] = e[k]
  BY <1>1, <1>5, Joined
<1>7. CASE b = <<>>
  <2>1. a = e
    BY <1>5, <1>7
  <2>2. OneFrame(e)
    BY <1>3, <1>4 DEF OneFrame
  <2>3. FramesIn(a) = <<m>>
    BY <1>4, <2>1, <2>2, OneQueue
  <2> QED
    BY <1>1, <1>5, <1>7, <2>3, NoQueue
<1>8. CASE OneFrame(b)
  <2>1. Len(b) \in Nat /\ Len(b) > 0
    BY <1>8 DEF OneFrame
  <2>2. PICK p \in Nat : p = Len(b) + 1
    BY <2>1
  <2>3. p \in 2..Len(a) /\ a[p] = e[1] /\ a[1] = b[1]
    BY <1>3, <1>6, <2>1, <2>2
  <2>4. ASSUME NEW k \in 2..Len(a), k # p PROVE a[k].at # 1
    <3>1. CASE k <= Len(b)
      BY <1>6, <1>8, <2>1, <3>1 DEF OneFrame
    <3>2. CASE k > p
      <4>1. k - Len(b) \in 2..Len(e)
        BY <1>3, <1>6, <2>1, <2>2, <2>4, <3>2
      <4>2. a[Len(b) + (k - Len(b))] = e[k - Len(b)]
        BY <1>6, <4>1
      <4>3. Len(b) + (k - Len(b)) = k
        BY <2>1
      <4> QED
        BY <1>4, <4>1, <4>2, <4>3
    <3> QED
      BY <2>1, <2>2, <2>4, <3>1, <3>2
  <2>5. TwoFrames(a, p)
    BY <1>4, <2>3, <2>4 DEF TwoFrames
  <2>6. FramesIn(a) = <<Frame(b[1]), m>>
    BY <1>4, <2>3, <2>5, TwoQueue
  <2>7. FramesIn(b) = <<Frame(b[1])>>
    BY <1>8, OneQueue
  <2> QED
    BY <1>1, <1>5, <2>6, <2>7
<1> QED
  BY <1>7, <1>8

\* What is left of one frame, and of two.
LEMMA TailQueued ==
  ASSUME NEW m \in Messages, NEW b \in RestOf(Encode(m))
  PROVE  Queued(b) /\ (b = <<>> \/ OneFrame(b))
<1>1. PICK e \in Seq(Octets) : e = Encode(m)
  BY EncodeIs
<1>2. b \in Seq(Octets)
  BY <1>1, RestIs
<1>3. CASE b = <<>>
  BY <1>2, <1>3 DEF Queued
<1>4. CASE b # <<>>
  <2>1. b[1].msg = m /\ (b[1].at = 1 => b = e) /\ e # <<>>
    BY <1>1, <1>4, TailIs
  <2>2. /\ HeaderSize \in Nat \ {0} /\ m.len \in Nat /\ Len(e) = HeaderSize + m.len
        /\ \A k \in 1..(HeaderSize + m.len) : e[k] = [msg |-> m, at |-> k]
    BY <1>1, <2>1, FrameIs
  <2>3. PICK n \in 0..Len(e) : b = After(e, n)
    BY <1>1 DEF RestOf
  <2>4. Len(b) = Len(e) - n /\ \A k \in 1..(Len(e) - n) : b[k] = e[n + k]
    BY <1>1, <2>3, Behind
  <2>5. ASSUME NEW k \in 2..Len(b) PROVE b[k].at # 1
    <3>1. n + k \in 1..(HeaderSize + m.len) /\ n + k # 1 /\ k \in 1..(Len(e) - n)
      <4>1. /\ k \in Nat /\ 2 <= k /\ n \in Nat
            /\ k <= (HeaderSize + m.len) - n /\ Len(e) = HeaderSize + m.len
        BY <2>2, <2>3, <2>4, <2>5
      <4> QED
        BY <2>2, <4>1
    <3>2. b[k] = [msg |-> m, at |-> n + k]
      BY <2>2, <2>4, <3>1
    <3> QED
      BY <3>1, <3>2
  <2>6. OneFrame(b)
    BY <1>4, <2>5 DEF OneFrame
  <2>7. b[1].at = 1 => Len(b) = HeaderSize + b[1].msg.len
    BY <2>1, <2>2
  <2> QED
    BY <1>2, <2>6, <2>7 DEF Queued
<1> QED
  BY <1>3, <1>4

LEMMA TwoQueued ==
  ASSUME NEW m \in Messages, NEW w \in Messages,
         NEW b \in RestOf(Encode(m) \o Encode(w))
  PROVE  Queued(b)
<1>1. PICK f \in Seq(Octets), g \in Seq(Octets) : f = Encode(m) /\ g = Encode(w)
  BY EncodeIs
<1>2. b \in RestOf(g) \/ \E r \in RestOf(f) : r # <<>> /\ b = r \o g
  <2>1. f \in Seq(Octets) /\ g \in Seq(Octets) /\ b \in RestOf(f \o g)
    BY <1>1
  <2> QED
    BY <2>1, RestOfJoined, SMTT(30)
<1>3. CASE b \in RestOf(g)
  BY <1>1, <1>3, TailQueued
<1>4. ASSUME NEW r \in RestOf(f), r # <<>>, b = r \o g PROVE Queued(b)
  <2>1. /\ r \in Seq(Octets) /\ OneFrame(r)
        /\ r[1].at = 1 => Len(r) = HeaderSize + r[1].msg.len
    <3>1. Queued(r) /\ OneFrame(r)
      BY <1>1, <1>4, TailQueued
    <3>2. r[1].at = 1 => r = f /\ r[1].msg = m
      BY <1>1, <1>4, TailIs
    <3>3. f # <<>> => Len(f) = HeaderSize + m.len
      BY <1>1, FrameIs
    <3> QED
      BY <1>4, <3>1, <3>2, <3>3 DEF Queued
  <2>2. CASE g = <<>>
    <3>1. b = r
      BY <1>4, <2>1, <2>2
    <3> QED
      BY <2>1, <3>1 DEF Queued
  <2>3. CASE g # <<>>
    <3>1. g \in RestOf(Encode(w))
      BY <1>1, RestTrivial
    <3>2. OneFrame(g) /\ g[1].at = 1
      <4>1. OneFrame(g)
        BY <2>3, <3>1, TailQueued
      <4>2. /\ HeaderSize \in Nat \ {0} /\ w.len \in Nat
            /\ \A k \in 1..(HeaderSize + w.len) : g[k] = [msg |-> w, at |-> k]
        BY <1>1, <2>3, FrameIs
      <4>3. 1 \in 1..(HeaderSize + w.len)
        BY <4>2
      <4> QED
        <5>1. g[1] = [msg |-> w, at |-> 1]
          BY <4>2, <4>3
        <5> QED
          BY <4>1, <5>1
    <3>3. Len(r) \in Nat /\ Len(r) > 0 /\ Len(g) \in Nat /\ Len(g) > 0
      BY <1>1, <1>4, <2>1, <2>3
    <3>4. /\ b \in Seq(Octets) /\ Len(b) = Len(r) + Len(g)
          /\ \A k \in 1..Len(r) : b[k] = r[k]
          /\ \A k \in 1..Len(g) : b[Len(r) + k] = g[k]
      BY <1>1, <1>4, <2>1, Joined
    <3>5. PICK p \in 2..Len(b) : p = Len(r) + 1
      BY <3>3, <3>4
    <3>6. b[p].at = 1 /\ b[1] = r[1]
      <4>1. 1 \in 1..Len(g) /\ 1 \in 1..Len(r)
        BY <3>3
      <4> QED
        BY <3>2, <3>4, <3>5, <4>1
    <3>7. ASSUME NEW k \in 2..Len(b), k # p PROVE b[k].at # 1
      <4>1. CASE k <= Len(r)
        <5>1. k \in 1..Len(r) /\ k \in 2..Len(r)
          BY <3>3, <3>7, <4>1
        <5> QED
          BY <2>1, <3>4, <5>1 DEF OneFrame
      <4>2. CASE k > p
        <5>1. k - Len(r) \in 2..Len(g) /\ k - Len(r) \in 1..Len(g)
          BY <3>3, <3>4, <3>5, <3>7, <4>2
        <5>2. b[Len(r) + (k - Len(r))] = g[k - Len(r)]
          BY <3>4, <5>1
        <5>3. Len(r) + (k - Len(r)) = k
          BY <3>3
        <5> QED
          BY <3>2, <5>1, <5>2, <5>3 DEF OneFrame
      <4> QED
        BY <3>3, <3>5, <3>7, <4>1, <4>2
    <3>8. TwoFrames(b, p)
      BY <3>5, <3>6, <3>7 DEF TwoFrames
    <3>9. b[1].at = 1 => p = HeaderSize + b[1].msg.len + 1
      BY <2>1, <3>5, <3>6
    <3> QED
      BY <3>4, <3>5, <3>8, <3>9 DEF Queued
  <2> QED
    BY <2>2, <2>3
<1> QED
  BY <1>2, <1>3, <1>4

\* The frame at the head of one or two, and what can be left behind it.
LEMMA ReadsOne ==
  ASSUME NEW f
  PROVE  /\ [msg |-> f, rest |-> <<>>] \in ToSender!Reads(<<f>>)
         /\ f = Garbled => [msg |-> f, rest |-> <<f>>] \in ToSender!Reads(<<f>>)
<1>1. <<f>> # <<>> /\ Head(<<f>>) = f /\ Tail(<<f>>) = <<>>
  OBVIOUS
<1>2. ToSender!Leftovers(<<>>) = {<<>>}
  BY DEF ToSender!Leftovers
<1>3. ToSender!Garbled = Garbled
  BY DEF ToSender!Garbled, Garbled
<1> QED
  BY <1>1, <1>2, <1>3 DEF ToSender!Reads

LEMMA ReadsTwo ==
  ASSUME NEW f, NEW g
  PROVE  /\ \A t \in {<<g>>, <<>>, <<Garbled>>} :
              [msg |-> f, rest |-> t] \in ToSender!Reads(<<f, g>>)
         /\ f = Garbled => [msg |-> f, rest |-> <<f, g>>] \in ToSender!Reads(<<f, g>>)
<1>1. <<f, g>> # <<>> /\ Head(<<f, g>>) = f /\ Tail(<<f, g>>) = <<g>>
  OBVIOUS
<1>2. <<g>> # <<>> /\ Tail(<<g>>) = <<>>
  OBVIOUS
<1>3. ToSender!Garbled = Garbled
  BY DEF ToSender!Garbled, Garbled
<1>4. <<Garbled>> \o <<>> = <<Garbled>>
  OBVIOUS
<1>5. ToSender!Leftovers(<<g>>) = {<<g>>, <<>>, <<Garbled>>}
  BY <1>2, <1>3, <1>4 DEF ToSender!Leftovers
<1> QED
  BY <1>1, <1>3, <1>5 DEF ToSender!Reads

LEMMA ReadsSame ==
  ASSUME NEW q
  PROVE  ToReceiver!Reads(q) = ToSender!Reads(q)
BY DEF ToSender!Reads, ToReceiver!Reads, ToSender!Leftovers, ToReceiver!Leftovers,
       ToSender!Garbled, ToReceiver!Garbled

\* Reading n bytes reads the frame at the head.
LEMMA QueueRead ==
  ASSUME NEW b, Queued(b), NEW n \in 1..Len(b),
         b[1].at = 1 => n >= HeaderSize + b[1].msg.len
  PROVE  [msg |-> Frame(b[1]), rest |-> FramesIn(After(b, n))]
           \in ToSender!Reads(FramesIn(b))
<1>1. b \in Seq(Octets) /\ Len(b) \in Nat /\ n \in Nat /\ 0 < n /\ n <= Len(b)
  BY DEF Queued
<1>2. PICK a \in Seq(Octets) :
        /\ a = After(b, n) /\ Len(a) = Len(b) - n
        /\ \A k \in 1..(Len(b) - n) : a[k] = b[n + k]
  <2>1. n \in 0..Len(b)
    BY <1>1
  <2> QED
    BY <1>1, <2>1, Behind
<1>3. /\ Len(a) = Len(b) - n
      /\ \A k \in 1..(Len(b) - n) : a[k] = b[n + k]
  BY <1>2
<1>4. n = Len(b) => FramesIn(a) = <<>>
  <2> SUFFICES ASSUME n = Len(b) PROVE FramesIn(a) = <<>>
    OBVIOUS
  <2>1. a = <<>>
    BY <1>1, <1>3
  <2> QED
    BY <2>1, NoQueue
<1>5. n < Len(b) => a # <<>> /\ a[1] = b[n + 1]
  <2> SUFFICES ASSUME n < Len(b) PROVE a # <<>> /\ a[1] = b[n + 1]
    OBVIOUS
  <2>1. 1 \in 1..(Len(b) - n) /\ Len(a) > 0
    BY <1>1, <1>3
  <2> QED
    BY <1>3, <2>1
<1>6. \A k \in 2..Len(a) : a[k] = b[n + k] /\ n + k \in 2..Len(b)
  BY <1>1, <1>3
<1>7. CASE OneFrame(b) /\ (b[1].at = 1 => Len(b) = HeaderSize + b[1].msg.len)
  <2>1. FramesIn(b) = <<Frame(b[1])>>
    BY <1>1, <1>7, OneQueue
  <2>2. CASE n = Len(b)
    BY <1>2, <1>4, <2>1, <2>2, ReadsOne
  <2>3. CASE n < Len(b)
    <3>1. b[1].at # 1
      BY <1>1, <1>7, <2>3
    <3>2. n + 1 \in 2..Len(b)
      BY <1>1, <2>3
    <3>3. a[1].at # 1 /\ OneFrame(a)
      BY <1>5, <1>6, <1>7, <2>3, <3>2 DEF OneFrame
    <3>4. FramesIn(a) = <<Garbled>> /\ Frame(b[1]) = Garbled
      BY <1>2, <3>1, <3>3, OneQueue DEF Frame
    <3> QED
      BY <1>2, <2>1, <3>4, ReadsOne
  <2> QED
    BY <1>1, <2>2, <2>3
<1>8. ASSUME NEW p \in 2..Len(b), TwoFrames(b, p),
             b[1].at = 1 => p = HeaderSize + b[1].msg.len + 1
      PROVE  [msg |-> Frame(b[1]), rest |-> FramesIn(a)] \in ToSender!Reads(FramesIn(b))
  <2>1. FramesIn(b) = <<Frame(b[1]), Frame(b[p])>>
    BY <1>1, <1>8, TwoQueue
  <2>2. p \in Nat /\ 2 <= p /\ p <= Len(b)
    BY <1>1
  <2>3. CASE n = Len(b)
    BY <1>4, <2>1, <2>3, ReadsTwo
  <2>4. CASE n < Len(b) /\ n >= p
    <3>1. n + 1 \in 2..Len(b) /\ n + 1 # p /\ \A k \in 2..Len(a) : n + k # p
      BY <1>1, <2>2, <2>4
    <3>2. a[1].at # 1 /\ OneFrame(a)
      BY <1>5, <1>6, <1>8, <2>4, <3>1 DEF OneFrame, TwoFrames
    <3>3. FramesIn(a) = <<Garbled>>
      BY <1>2, <3>2, OneQueue DEF Frame
    <3> QED
      BY <2>1, <3>3, ReadsTwo
  <2>5. CASE n = p - 1
    <3>1. n < Len(b) /\ n + 1 = p /\ \A k \in 2..Len(a) : n + k # p
      BY <1>1, <2>2, <2>5
    <3>2. a[1] = b[p] /\ OneFrame(a)
      BY <1>5, <1>6, <1>8, <3>1 DEF OneFrame, TwoFrames
    <3>3. FramesIn(a) = <<Frame(b[p])>>
      BY <1>2, <3>2, OneQueue
    <3> QED
      BY <2>1, <3>3, ReadsTwo
  <2>6. CASE n < p - 1
    <3>1. b[1].at # 1
      <4> SUFFICES ASSUME b[1].at = 1 PROVE FALSE
        OBVIOUS
      <4>1. p = (HeaderSize + b[1].msg.len) + 1 /\ n >= HeaderSize + b[1].msg.len
        BY <1>8
      <4>2. HeaderSize + b[1].msg.len \in Int
        <5>1. 1 \in 1..Len(b)
          BY <1>1
        <5>2. b[1] \in Octets
          BY <1>1, <5>1, Element
        <5> QED
          BY <5>2, ByteAssumption DEF Octets, Messages
      <4> QED
        BY <1>1, <2>2, <2>6, <4>1, <4>2
    <3>2. n < Len(b) /\ n + 1 \in 2..Len(b) /\ n + 1 # p
      BY <1>1, <2>2, <2>6
    <3>3. PICK j \in 2..Len(a) : n + j = p
      <4>1. p - n \in 2..Len(a) /\ n + (p - n) = p
        BY <1>1, <1>3, <2>2, <2>6
      <4> QED
        BY <4>1
    <3>4. \A k \in 2..Len(a) : k # j => n + k # p
      BY <1>1, <3>3
    <3>5. TwoFrames(a, j) /\ a[j] = b[p] /\ a[1].at # 1
      BY <1>5, <1>6, <1>8, <3>2, <3>3, <3>4 DEF TwoFrames
    <3>6. FramesIn(a) = <<Garbled, Frame(b[p])>> /\ Frame(b[1]) = Garbled
      BY <1>2, <3>1, <3>3, <3>5, TwoQueue DEF Frame
    <3> QED
      BY <2>1, <3>6, ReadsTwo
  <2> QED
    BY <1>1, <2>2, <2>3, <2>4, <2>5, <2>6
<1>9. b # <<>>
  BY <1>1
<1> QED
  BY <1>2, <1>7, <1>8, <1>9 DEF Queued

-----------------------------------------------------------------------------
(* Every step of ByteTransfer is one of FrameChannel at each end.          *)

\* The queue to an end and its last message stay, get one more message, or
\* lose what a receive call takes: which returns the head, or goes on behind
\* what it could not decode.  With a new connection they are empty.
ChannelStep(end) ==
  \/ QueueTo(end)' = QueueTo(end) /\ LastAt(end)' = LastAt(end)
  \/ /\ \E m \in Messages : QueueTo(end)' = Append(QueueTo(end), m)
     /\ LastAt(end)' = LastAt(end)
  \/ \E r \in ToSender!Reads(QueueTo(end)) :
       /\ QueueTo(end)' = r.rest
       /\ \/ LastAt(end)' = r.msg
          \/ r.msg = Garbled /\ LastAt(end)' = LastAt(end)
  \/ QueueTo(end)' = <<>> /\ LastAt(end)' = NoHeader

LEMMA QueueIs ==
  ASSUME NEW end
  PROVE  QueueTo(end) = FramesIn(Bytes(end)) /\ QueueTo(end)' = FramesIn(Bytes(end)')
BY DEF QueueTo, Bytes, FramesIn, Heads, Place, Frame

LEMMA StillPasses ==
  ASSUME NEW end, Bytes(end)' = Bytes(end), last'[end] = last[end]
  PROVE  ChannelStep(end)
<1>1. QueueTo(end)' = QueueTo(end)
  BY QueueIs
<1>2. LastAt(end)' = LastAt(end)
  BY DEF LastAt
<1> QED
  BY <1>1, <1>2 DEF ChannelStep

LEMMA SendPasses ==
  ASSUME ByteTypeOK, BufferInv, NEW end \in Ends, NEW m \in Messages,
         Send(end, m), UNCHANGED last, Bytes(end) = <<>> \/ OneFrame(Bytes(end)),
         NEW e \in Ends
  PROVE  ChannelStep(e)
<1>1. /\ Bytes(end)' = Bytes(end) \o Encode(m)
      /\ \A x \in Ends \ {end} : Bytes(x)' = Bytes(x)
  BY SendIs
<1>2. CASE e # end
  BY <1>1, <1>2, StillPasses
<1>3. Bytes(end) \in Seq(Octets)
  BY StreamIs
<1>4. CASE e = end /\ Encode(m) = <<>>
  <2>1. Bytes(end)' = Bytes(end)
    BY <1>1, <1>3, <1>4
  <2> QED
    BY <1>4, <2>1, StillPasses
<1>5. CASE e = end /\ Encode(m) # <<>>
  <2>1. FramesIn(Bytes(end) \o Encode(m)) = Append(FramesIn(Bytes(end)), m)
    BY <1>3, <1>5, QueueAppend
  <2>2. QueueTo(e)' = Append(QueueTo(e), m)
    BY <1>1, <1>5, <2>1, QueueIs
  <2>3. LastAt(e)' = LastAt(e)
    BY DEF LastAt
  <2> QED
    BY <2>2, <2>3 DEF ChannelStep
<1> QED
  BY <1>2, <1>4, <1>5

LEMMA MessagePasses ==
  ASSUME ByteTypeOK, BufferInv, NEW end \in Ends, Queued(Bytes(end)),
         RecvMessage(end), NEW e \in Ends
  PROVE  ChannelStep(e)
<1>1. PICK h \in Messages \cup Garbles : \E n \in 1..Len(Bytes(end)) : Decodes(end, h, n)
  BY ReadMessage
<1>2. PICK n \in 1..Len(Bytes(end)) : Decodes(end, h, n)
  BY <1>1
<1>3. \A x \in Ends \ {end} : Bytes(x)' = Bytes(x)
  BY ReadMessage
<1>4. /\ IF Bytes(end)[1].at = 1 THEN h = Bytes(end)[1].msg ELSE h \in Garbles
      /\ n >= HeaderSize + h.len
      /\ Bytes(end)' = After(Bytes(end), n)
      /\ last' = [last EXCEPT ![end] = h]
  BY <1>2 DEF Decodes
<1>5. CASE e # end
  BY <1>3, <1>4, <1>5, StillPasses DEF ByteTypeOK
<1>6. CASE e = end
  <2>1. [msg |-> Frame(Bytes(end)[1]), rest |-> FramesIn(After(Bytes(end), n))]
          \in ToSender!Reads(FramesIn(Bytes(end)))
    BY <1>4, QueueRead
  <2>2. last'[end] = h
    BY <1>4 DEF ByteTypeOK
  <2>3. 1 \in 1..Len(Bytes(end)) /\ Bytes(end)[1].msg \in Messages
    <3>1. Len(Bytes(end)) \in Nat
      BY StreamIs
    <3>2. 1 \in 1..Len(Bytes(end))
      BY <3>1
    <3> QED
      BY <3>2, StreamIs
  <2>4. LastAt(end)' = IF h.type = "GARBLED" THEN Garbled ELSE h
    <3>1. h # NoHeader
      BY HeaderKinds
    <3> QED
      BY <2>2, <3>1 DEF LastAt
  <2>5. LastAt(end)' = Frame(Bytes(end)[1])
    BY <1>4, <2>3, <2>4 DEF Frame, Garbles, Messages
  <2>6. QueueTo(end)' = FramesIn(After(Bytes(end), n))
    BY <1>4, QueueIs
  <2> QED
    BY <1>6, <2>1, <2>5, <2>6, QueueIs DEF ChannelStep
<1> QED
  BY <1>5, <1>6

\* Bytes that do not begin a frame are thrown away.
LEMMA LossPasses ==
  ASSUME ByteTypeOK, NEW end \in Ends, Queued(Bytes(end)), Bytes(end) # <<>>,
         Bytes(end)[1].at # 1, Bytes(end)' \in RestOf(Bytes(end)),
         UNCHANGED last
  PROVE  ChannelStep(end)
<1>1. Bytes(end) \in Seq(Octets)
  BY StreamIs
<1>2. PICK n \in 0..Len(Bytes(end)) : Bytes(end)' = After(Bytes(end), n)
  BY DEF RestOf
<1>3. CASE n = 0
  <2>1. After(Bytes(end), 0) = Bytes(end)
    BY <1>1 DEF After
  <2> QED
    BY <1>2, <1>3, <2>1, StillPasses
<1>4. CASE n # 0
  <2>1. n \in 1..Len(Bytes(end))
    BY <1>1, <1>4
  <2>2. [msg |-> Garbled, rest |-> FramesIn(After(Bytes(end), n))]
          \in ToSender!Reads(FramesIn(Bytes(end)))
    BY <2>1, QueueRead DEF Frame
  <2>3. LastAt(end)' = LastAt(end)
    BY DEF LastAt
  <2>4. QueueTo(end)' = FramesIn(After(Bytes(end), n))
    BY <1>2, QueueIs
  <2> QED
    BY <2>2, <2>3, <2>4, QueueIs DEF ChannelStep
<1> QED
  BY <1>3, <1>4

LEMMA MorePasses ==
  ASSUME ByteTypeOK, BufferInv, NEW end \in Ends, Queued(Bytes(end)),
         RecvMore(end), NEW e \in Ends
  PROVE  ChannelStep(e)
<1>1. /\ Bytes(end) # <<>>
      /\ \A x \in Ends \ {end} : Bytes(x)' = Bytes(x)
      /\ \/ Bytes(end)' = Bytes(end)
         \/ Bytes(end)[1].at # 1 /\ Bytes(end)' \in RestOf(Bytes(end))
  BY ReadMore
<1>2. UNCHANGED last
  BY DEF RecvMore
<1>3. CASE Bytes(e)' = Bytes(e)
  BY <1>2, <1>3, StillPasses
<1>4. CASE e = end /\ Bytes(end)[1].at # 1 /\ Bytes(end)' \in RestOf(Bytes(end))
  BY <1>1, <1>2, <1>4, LossPasses
<1> QED
  BY <1>1, <1>3, <1>4

\* What is in the buffer when the other end closes is not the beginning of a
\* frame: that would have arrived whole.
LEMMA GonePasses ==
  ASSUME ByteTypeOK, BufferInv, NEW end \in Ends, Queued(Bytes(end)),
         PeerGone(end), NEW e \in Ends
  PROVE  ChannelStep(e)
<1>1. /\ Bytes(end)' = <<>> /\ UNCHANGED last
      /\ \A x \in Ends \ {end} : Bytes(x)' = Bytes(x)
  BY GoneIs
<1>2. CASE Bytes(e)' = Bytes(e)
  BY <1>1, <1>2, StillPasses
<1>3. CASE e = end /\ Bytes(end) # <<>>
  <2>1. PICK b \in Seq(Octets) : b = stream[end].buffer
    BY StreamIs
  <2>2. Bytes(end) = b
    <3>1. stream[end].wire = <<>>
      BY DEF PeerGone
    <3> QED
      BY <2>1, <3>1 DEF Bytes
  <2>3. Len(b) \in Nat /\ Len(b) > 0
    BY <1>3, <2>1, <2>2
  <2>4. b[1].msg \in Messages /\ b[1].msg.len \in Nat /\ b[1].msg.len <= MaxMessage
    <3>1. 1 \in 1..Len(Bytes(end))
      BY <2>2, <2>3
    <3> QED
      BY <2>2, <3>1, StreamIs
  <2>5. ASSUME b[1].at = 1 PROVE FALSE
    <3>1. Len(b) >= HeaderSize + b[1].msg.len
      <4>1. HeaderSize \in Nat
        BY ByteAssumption
      <4>2. \/ Len(b) = HeaderSize + b[1].msg.len
            \/ \E p \in 2..Len(b) : p = HeaderSize + b[1].msg.len + 1
        BY <1>3, <2>2, <2>5 DEF Queued
      <4> QED
        BY <2>3, <2>4, <4>1, <4>2
    <3>2. ~(Len(b) < HeaderSize)
      BY <2>3, <2>4, <3>1, ByteAssumption
    <3>3. ~Complete(stream[end], b[1].msg)
      BY <2>1, <2>5, <3>2 DEF BufferInv, Collected
    <3> QED
      BY <2>1, <2>4, <3>1, <3>3 DEF Complete
  <2>6. <<>> \in RestOf(Bytes(end))
    BY <2>1, <2>2, RestTrivial
  <2> QED
    BY <1>1, <1>3, <2>2, <2>5, <2>6, LossPasses
<1> QED
  BY <1>1, <1>2, <1>3

\* What is on its way is at most two frames.
LEMMA StreamsQueued ==
  ASSUME ByteInv
  PROVE  Queued(Bytes("sender")) /\ Queued(Bytes("receiver"))
<1>1. ByteTypeOK /\ SetupStreams /\ LoopStreams
  BY DEF ByteInv
<1>2. ASSUME NEW m \in Messages
      PROVE  /\ Queued(<<>>) /\ Queued(Encode(m))
             /\ \A b \in RestOf(Encode(m)) : Queued(b)
             /\ \A w \in Messages :
                  /\ Queued(Encode(m) \o Encode(w))
                  /\ \A b \in RestOf(Encode(m) \o Encode(w)) : Queued(b)
  <2>1. PICK e \in Seq(Octets) : e = Encode(m)
    BY <1>2, EncodeIs
  <2>2. Encode(m) \in RestOf(Encode(m)) /\ <<>> \in RestOf(Encode(m))
    BY <2>1, RestTrivial
  <2>3. ASSUME NEW w \in Messages
        PROVE  Encode(m) \o Encode(w) \in RestOf(Encode(m) \o Encode(w))
    <3>1. PICK f \in Seq(Octets) : f = Encode(w)
      BY <2>3, EncodeIs
    <3>2. PICK a \in Seq(Octets) : a = e \o f
      BY <2>1, <3>1, Joined
    <3> QED
      BY <2>1, <3>1, <3>2, RestTrivial
  <2> QED
    BY <1>2, <2>2, <2>3, TailQueued, TwoQueued
<1>3. /\ Offer \in Messages /\ Accept \in Messages /\ Ack \in Messages
      /\ \A bits : Bitmap(bits) \in Messages
      /\ Sent(si) \in Messages
  BY <1>1, MessagesAre, FramesAre
<1>4. OnlyTail \/ TailAndAck => Queued(Bytes("sender"))
  BY <1>2, <1>3 DEF OnlyTail, TailAndAck
<1>5. spc \in {"offer", "response", "bitmap", "loop", "ack", "sent", "failed"}
  BY <1>1 DEF ByteTypeOK
<1>6. CASE spc \in {"offer", "response", "bitmap"}
  <2>1. Bytes("receiver") \in {<<>>, Encode(Offer)}
    BY <1>1, <1>6 DEF SetupStreams
  <2>2. \/ Bytes("sender") \in {<<>>, Encode(Accept)}
        \/ Bytes("sender") = Encode(Accept) \o Encode(Bitmap(bitmap))
        \/ Bytes("sender") \in RestOf(Encode(Bitmap(bitmap)))
    BY <1>1, <1>6 DEF SetupStreams
  <2> QED
    BY <1>2, <1>3, <2>1, <2>2
<1>7. CASE spc \in {"loop", "ack", "sent", "failed"}
  <2>1. /\ Bytes("receiver") \in {<<>>, Encode(Sent(si))}
        /\ OnlyTail \/ TailAndAck
    BY <1>1, <1>7 DEF LoopStreams
  <2> QED
    BY <1>2, <1>3, <1>4, <2>1
<1> QED
  BY <1>5, <1>6, <1>7

\* Nothing is sent behind two frames.
LEMMA SenderPasses ==
  ASSUME ByteInv, SenderStep, NEW e \in Ends
  PROVE  ChannelStep(e)
<1>1. /\ ByteTypeOK /\ BufferInv /\ SetupStreams /\ LoopStreams
      /\ Queued(Bytes("sender")) /\ Queued(Bytes("receiver"))
      /\ "sender" \in Ends /\ "receiver" \in Ends
  BY StreamsQueued, EndsAre DEF ByteInv
<1>2. CASE SendOffer
  <2>1. Send("receiver", Offer) /\ UNCHANGED last /\ Bytes("receiver") = <<>>
    BY <1>1, <1>2 DEF SendOffer, SetupStreams
  <2> QED
    BY <1>1, <2>1, FramesAre, SendPasses
<1>3. CASE SendChunk
  <2>1. Send("receiver", Sent(si)) /\ UNCHANGED last /\ Bytes("receiver") = <<>>
    BY <1>1, <1>3 DEF SendChunk, LoopStreams, Sent
  <2> QED
    BY <1>1, <2>1, FramesAre, SendPasses
<1>4. CASE SendDone
  <2>1. UNCHANGED <<stream, last>>
    BY <1>4 DEF SendDone
  <2> QED
    BY <1>1, <2>1, StreamStays, StillPasses
<1>5. CASE RecvResponse \/ RecvBitmap \/ RecvAck
  <2>1. RecvMessage("sender") \/ PeerGone("sender")
    BY <1>5 DEF RecvResponse, RecvBitmap, RecvAck
  <2> QED
    BY <1>1, <2>1, MessagePasses, GonePasses
<1>6. CASE RecvMore("sender")
  BY <1>1, <1>6, MorePasses
<1> QED
  BY <1>2, <1>3, <1>4, <1>5, <1>6 DEF SenderStep

LEMMA ReceiverPasses ==
  ASSUME ByteInv, ReceiverStep, NEW e \in Ends
  PROVE  ChannelStep(e)
<1>1. /\ ByteTypeOK /\ BufferInv /\ SetupStreams /\ LoopStreams
      /\ Queued(Bytes("sender")) /\ Queued(Bytes("receiver"))
      /\ "sender" \in Ends /\ "receiver" \in Ends
      /\ spc \in {"offer", "response", "bitmap", "loop", "ack", "sent", "failed"}
  BY StreamsQueued, EndsAre DEF ByteInv, ByteTypeOK
<1>2. CASE SendAccept
  <2>1. Send("sender", Accept) /\ UNCHANGED last /\ Bytes("sender") = <<>>
    BY <1>1, <1>2 DEF SendAccept, SetupStreams, LoopStreams
  <2> QED
    BY <1>1, <2>1, FramesAre, SendPasses
<1>3. CASE SendBitmap
  <2>1. Send("sender", Bitmap(bitmap)) /\ UNCHANGED last
    BY <1>3 DEF SendBitmap
  <2>2. Bytes("sender") \in {<<>>, Encode(Accept)}
    BY <1>1, <1>3 DEF SendBitmap, SetupStreams, LoopStreams
  <2>3. Bytes("sender") \in RestOf(Encode(Accept))
    <3>1. PICK f \in Seq(Octets) : f = Encode(Accept)
      BY <1>1, FramesAre
    <3> QED
      BY <2>2, <3>1, RestTrivial
  <2>4. Bytes("sender") = <<>> \/ OneFrame(Bytes("sender"))
    BY <1>1, <2>3, FramesAre, TailQueued
  <2> QED
    BY <1>1, <2>1, <2>4, FramesAre, SendPasses
<1>4. CASE SendAck
  <2>1. Send("sender", Ack) /\ UNCHANGED last
    BY <1>4 DEF SendAck
  <2>2. OnlyTail
    BY <1>1, <1>4 DEF SendAck, SetupStreams, LoopStreams
  <2>3. PICK bits \in SUBSET (0..(Total - 1)) : Bytes("sender") \in RestOf(Encode(Bitmap(bits)))
    BY <2>2 DEF OnlyTail
  <2>4. Bitmap(bits) \in Messages
    BY <1>1, MessagesAre
  <2>5. Bytes("sender") = <<>> \/ OneFrame(Bytes("sender"))
    BY <2>3, <2>4, TailQueued
  <2> QED
    BY <1>1, <2>1, <2>5, FramesAre, SendPasses
<1>5. CASE RecvDone
  <2>1. UNCHANGED <<stream, last>>
    BY <1>5 DEF RecvDone
  <2> QED
    BY <1>1, <2>1, StreamStays, StillPasses
<1>6. CASE RecvOffer \/ RecvChunk
  <2>1. RecvMessage("receiver") \/ PeerGone("receiver")
    BY <1>6 DEF RecvOffer, RecvChunk
  <2> QED
    BY <1>1, <2>1, MessagePasses, GonePasses
<1>7. CASE RecvMore("receiver")
  BY <1>1, <1>7, MorePasses
<1> QED
  BY <1>2, <1>3, <1>4, <1>5, <1>6, <1>7 DEF ReceiverStep

\* Both queues are empty again.
LEMMA SessionPasses ==
  ASSUME NextSession, NEW e \in Ends
  PROVE  ChannelStep(e)
<1>1. /\ stream' = [end \in Ends |-> Empty(<<>>)]
      /\ last' = [end \in Ends |-> NoHeader]
  BY DEF NextSession
<1>2. Bytes(e)' = <<>>
  BY <1>1, Fresh
<1>3. QueueTo(e)' = <<>>
  BY <1>2, NoQueue, QueueIs
<1>4. LastAt(e)' = NoHeader
  BY <1>1 DEF LastAt
<1> QED
  BY <1>3, <1>4 DEF ChannelStep

\* The queue of at most two frames.
LEMMA QueueTyped ==
  ASSUME NEW b, Queued(b)
  PROVE  FramesIn(b) \in Seq(Messages \cup {Garbled})
<1>1. ASSUME NEW k \in 1..Len(b) PROVE Frame(b[k]) \in Messages \cup {Garbled}
  <2>1. b \in Seq(Octets)
    BY DEF Queued
  <2>2. b[k] \in Octets
    BY <1>1, <2>1, Element
  <2> QED
    BY <2>2 DEF Frame, Octets
<1>2. CASE b = <<>>
  <2>1. <<>> \in Seq(Messages \cup {Garbled})
    OBVIOUS
  <2> QED
    BY <1>2, <2>1, NoQueue
<1>3. CASE OneFrame(b)
  <2>1. 1 \in 1..Len(b)
    BY <1>3 DEF OneFrame, Queued
  <2>2. FramesIn(b) = <<Frame(b[1])>>
    BY <1>3, OneQueue DEF Queued
  <2> QED
    BY <1>1, <2>1, <2>2
<1>4. ASSUME NEW p \in 2..Len(b), TwoFrames(b, p)
      PROVE  FramesIn(b) \in Seq(Messages \cup {Garbled})
  <2>1. 1 \in 1..Len(b) /\ p \in 1..Len(b)
    BY DEF Queued
  <2>2. FramesIn(b) = <<Frame(b[1]), Frame(b[p])>>
    BY <1>4, TwoQueue DEF Queued
  <2> QED
    BY <1>1, <2>1, <2>2
<1> QED
  BY <1>2, <1>3, <1>4 DEF Queued

LEMMA LastOfAppended ==
  ASSUME NEW S, NEW q \in Seq(S), NEW m \in S, NEW p, p = Append(q, m)
  PROVE  p # <<>> /\ p[Len(p)] = m
OBVIOUS

LEMMA ChannelStepToSender ==
  ASSUME ByteInv, ChannelStep("sender")
  PROVE  [ToSender!ChannelNext]_<<QueueTo("sender"), LastAt("sender")>>
<1>1. QueueTo("sender") \in Seq(Messages \cup {Garbled})
  BY StreamsQueued, QueueTyped, QueueIs
<1>2. CASE UNCHANGED <<QueueTo("sender"), LastAt("sender")>>
  BY <1>2
<1>3. ASSUME NEW m \in Messages, QueueTo("sender")' = Append(QueueTo("sender"), m),
             LastAt("sender")' = LastAt("sender")
      PROVE  ToSender!SendFrame
  <2>1. m \in Messages \cup {Garbled} /\ m # ToSender!Garbled
    BY <1>3 DEF Messages, ToSender!Garbled
  <2>2. QueueTo("sender")' # <<>> /\ QueueTo("sender")'[Len(QueueTo("sender")')] = m
    BY <1>1, <1>3, <2>1, LastOfAppended
  <2> QED
    BY <1>3, <2>1, <2>2 DEF ToSender!SendFrame
<1>4. ASSUME NEW r \in ToSender!Reads(QueueTo("sender")), QueueTo("sender")' = r.rest,
             \/ LastAt("sender")' = r.msg
             \/ r.msg = Garbled /\ LastAt("sender")' = LastAt("sender")
      PROVE  ToSender!ReceiveFrame \/ ToSender!SwallowFrame
  <2>1. ToSender!Garbled = Garbled
    BY DEF ToSender!Garbled, Garbled
  <2> QED
    BY <1>4, <2>1 DEF ToSender!ReceiveFrame, ToSender!SwallowFrame
<1>5. ASSUME QueueTo("sender")' = <<>>, LastAt("sender")' = NoHeader
      PROVE  ToSender!NewConnection
  BY <1>5 DEF ToSender!NewConnection
<1> QED
  BY <1>2, <1>3, <1>4, <1>5 DEF ChannelStep, ToSender!ChannelNext

LEMMA ChannelStepToReceiver ==
  ASSUME ByteInv, ChannelStep("receiver")
  PROVE  [ToReceiver!ChannelNext]_<<QueueTo("receiver"), LastAt("receiver")>>
<1>1. QueueTo("receiver") \in Seq(Messages \cup {Garbled})
  BY StreamsQueued, QueueTyped, QueueIs
<1>2. CASE UNCHANGED <<QueueTo("receiver"), LastAt("receiver")>>
  BY <1>2
<1>3. ASSUME NEW m \in Messages, QueueTo("receiver")' = Append(QueueTo("receiver"), m),
             LastAt("receiver")' = LastAt("receiver")
      PROVE  ToReceiver!SendFrame
  <2>1. m \in Messages \cup {Garbled} /\ m # ToReceiver!Garbled
    BY <1>3 DEF Messages, ToReceiver!Garbled
  <2>2. QueueTo("receiver")' # <<>> /\ QueueTo("receiver")'[Len(QueueTo("receiver")')] = m
    BY <1>1, <1>3, <2>1, LastOfAppended
  <2> QED
    BY <1>3, <2>1, <2>2 DEF ToReceiver!SendFrame
<1>4. ASSUME NEW r \in ToSender!Reads(QueueTo("receiver")), QueueTo("receiver")' = r.rest,
             \/ LastAt("receiver")' = r.msg
             \/ r.msg = Garbled /\ LastAt("receiver")' = LastAt("receiver")
      PROVE  ToReceiver!ReceiveFrame \/ ToReceiver!SwallowFrame
  <2>1. ToReceiver!Garbled = Garbled
    BY DEF ToReceiver!Garbled, Garbled
  <2>2. r \in ToReceiver!Reads(QueueTo("receiver"))
    BY <1>4, ReadsSame
  <2> QED
    BY <1>4, <2>1, <2>2 DEF ToReceiver!ReceiveFrame, ToReceiver!SwallowFrame
<1>5. ASSUME QueueTo("receiver")' = <<>>, LastAt("receiver")' = NoHeader
      PROVE  ToReceiver!NewConnection
  BY <1>5 DEF ToReceiver!NewConnection
<1> QED
  BY <1>2, <1>3, <1>4, <1>5 DEF ChannelStep, ToReceiver!ChannelNext

\* Each byte stream, with its reads of any length and the buffer that is local
\* to a receive call, behaves as the queue of frames that TcpLink has in its
\* place: for files, messages and reads of every size.
THEOREM FramesImplemented == Spec => ImplementsFrames
<1>1. Init => ToSender!ChannelInit /\ ToReceiver!ChannelInit
  <2> SUFFICES ASSUME Init PROVE ToSender!ChannelInit /\ ToReceiver!ChannelInit
    OBVIOUS
  <2>1. /\ stream = [end \in Ends |-> Empty(<<>>)]
        /\ last = [end \in Ends |-> NoHeader]
    BY DEF Init
  <2>2. ASSUME NEW end \in Ends
        PROVE  QueueTo(end) = <<>> /\ LastAt(end) = NoHeader
    <3>1. Bytes(end) = <<>>
      <4>1. <<>> \in Seq(Octets) /\ stream[end] = Empty(<<>>)
        BY <2>1
      <4>2. Empty(<<>>).buffer \o Empty(<<>>).wire = <<>>
        BY <4>1, EmptyIs
      <4> QED
        BY <4>1, <4>2 DEF Bytes
    <3>2. QueueTo(end) = <<>>
      BY <3>1, NoQueue, QueueIs
    <3> QED
      BY <2>1, <3>2 DEF LastAt
  <2> QED
    BY <2>2, EndsAre DEF ToSender!ChannelInit, ToReceiver!ChannelInit
<1>2. ASSUME ByteInv, [Next]_vars
      PROVE  /\ [ToSender!ChannelNext]_<<QueueTo("sender"), LastAt("sender")>>
             /\ [ToReceiver!ChannelNext]_<<QueueTo("receiver"), LastAt("receiver")>>
  <2>1. ASSUME NEW e \in Ends PROVE ChannelStep(e)
    <3>1. CASE UNCHANGED vars
      <4>1. UNCHANGED <<stream, last>> /\ ByteTypeOK /\ BufferInv
        BY <1>2, <3>1 DEF vars, ByteInv
      <4> QED
        BY <4>1, StreamStays, StillPasses
    <3> QED
      BY <1>2, <3>1, SenderPasses, ReceiverPasses, SessionPasses DEF Next
  <2> QED
    BY <1>2, <2>1, EndsAre, ChannelStepToSender, ChannelStepToReceiver
<1> QED
  BY <1>1, <1>2, ByteInvHolds, PTL
     DEF Spec, ImplementsFrames, ToSender!ChannelSpec, ToReceiver!ChannelSpec
=============================================================================
