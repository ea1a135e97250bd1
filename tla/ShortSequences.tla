--------------------------- MODULE ShortSequences ---------------------------
(***************************************************************************)
(* Facts about sequences of at most two elements, which is all the frames  *)
(* that are ever on their way to one end of a connection.                  *)
(***************************************************************************)
EXTENDS SequenceTheorems, TLAPS

\* What is read from a queue and written to it.
LEMMA OneElement ==
  ASSUME NEW a
  PROVE  /\ <<a>> # <<>>
         /\ Head(<<a>>) = a
         /\ Tail(<<a>>) = <<>>
         /\ Append(<<>>, a) = <<a>>
         /\ \A x : <<a>> = <<x>> => a = x
OBVIOUS

LEMMA TwoElements ==
  ASSUME NEW a, NEW b
  PROVE  /\ <<a, b>> # <<>>
         /\ Head(<<a, b>>) = a
         /\ Tail(<<a, b>>) = <<b>>
         /\ Append(<<a>>, b) = <<a, b>>
<1>1. <<a, b>> # <<>>
  OBVIOUS
<1>2. Head(<<a, b>>) = a
  OBVIOUS
<1>3. Tail(<<a, b>>) = <<b>>
  OBVIOUS
<1>4. Append(<<a>>, b) = <<a, b>>
  <2>1. <<a>> \in Seq({a, b}) /\ <<a, b>> \in Seq({a, b})
    OBVIOUS
  <2>2. /\ Append(<<a>>, b) \in Seq({a, b})
        /\ Len(Append(<<a>>, b)) = 2
        /\ Append(<<a>>, b)[1] = a
        /\ Append(<<a>>, b)[2] = b
    BY <2>1
  <2>3. Len(<<a, b>>) = 2 /\ <<a, b>>[1] = a /\ <<a, b>>[2] = b
    OBVIOUS
  <2> DEFINE q == Append(<<a>>, b)
             t == <<a, b>>
  <2> HIDE DEF q, t
  <2>4. q \in Seq({a, b}) /\ t \in Seq({a, b}) /\ Len(q) = 2 /\ Len(t) = 2
    BY <2>1, <2>2, <2>3 DEF q, t
  <2>5. q[1] = t[1] /\ q[2] = t[2]
    BY <2>2, <2>3 DEF q, t
  <2>6. \A i \in 1..Len(q) : q[i] = t[i]
    BY <2>4, <2>5
  <2>7. q = t
    BY <2>4, <2>6, SeqEqual
  <2> QED
    BY <2>7 DEF q, t
<1> QED
  BY <1>1, <1>2, <1>3, <1>4

\* The prefixes of a queue of at most two frames.
LEMMA Cuts ==
  ASSUME NEW a, NEW b
  PROVE  /\ SubSeq(<<>>, 1, 0) = <<>>
         /\ SubSeq(<<a>>, 1, 0) = <<>>
         /\ SubSeq(<<a>>, 1, 1) = <<a>>
         /\ SubSeq(<<a, b>>, 1, 0) = <<>>
         /\ SubSeq(<<a, b>>, 1, 1) = <<a>>
         /\ SubSeq(<<a, b>>, 1, 2) = <<a, b>>
<1>1. /\ SubSeq(<<>>, 1, 0) = <<>>
      /\ SubSeq(<<a>>, 1, 0) = <<>>
      /\ SubSeq(<<a, b>>, 1, 0) = <<>>
  BY SubSeqEmpty
<1>2. SubSeq(<<a>>, 1, 1) = <<a>>
  BY <<a>> \in Seq({a}), Len(<<a>>) = 1, SubSeqFull
<1> DEFINE q == <<a, b>>
<1>3. q \in Seq({a, b}) /\ Len(q) = 2 /\ q[1] = a
  OBVIOUS
<1> HIDE DEF q
<1>4. SubSeq(q, 1, 1) = <<a>>
  <2>1. SubSeq(q, 1, 1) = <<q[1]>> \o SubSeq(q, 2, 1)
    BY <1>3, SubSeqRecursiveFirst, 1 \in 1..Len(q)
  <2>2. SubSeq(q, 2, 1) = <<>>
    BY SubSeqEmpty
  <2>3. <<a>> \o <<>> = <<a>>
    OBVIOUS
  <2> QED
    BY <1>3, <2>1, <2>2, <2>3
<1>5. SubSeq(q, 1, 2) = q
  BY <1>3, SubSeqFull
<1> QED
  BY <1>1, <1>2, <1>4, <1>5 DEF q

CutsOf(s) == {SubSeq(s, 1, k) : k \in 0..Len(s)}

LEMMA CutShort ==
  /\ CutsOf(<<>>) = {<<>>}
  /\ \A a : CutsOf(<<a>>) = {<<>>, <<a>>}
  /\ \A a, b : CutsOf(<<a, b>>) = {<<>>, <<a>>, <<a, b>>}
<1>1. 0..0 = {0} /\ 0..1 = {0, 1} /\ 0..2 = {0, 1, 2}
  OBVIOUS
<1>2. CutsOf(<<>>) = {<<>>}
  <2>1. Len(<<>>) = 0
    OBVIOUS
  <2>2. {SubSeq(<<>>, 1, k) : k \in {0}} = {<<>>}
    BY Cuts, Zenon
  <2> QED
    BY <1>1, <2>1, <2>2, Zenon DEF CutsOf
<1>3. ASSUME NEW a PROVE CutsOf(<<a>>) = {<<>>, <<a>>}
  <2>1. Len(<<a>>) = 1
    OBVIOUS
  <2>2. {SubSeq(<<a>>, 1, k) : k \in {0, 1}} = {<<>>, <<a>>}
    BY Cuts, Zenon
  <2> QED
    BY <1>1, <2>1, <2>2, Zenon DEF CutsOf
<1>4. ASSUME NEW a, NEW b PROVE CutsOf(<<a, b>>) = {<<>>, <<a>>, <<a, b>>}
  <2>1. Len(<<a, b>>) = 2
    OBVIOUS
  <2>2. {SubSeq(<<a, b>>, 1, k) : k \in {0, 1, 2}} = {<<>>, <<a>>, <<a, b>>}
    BY Cuts, Zenon
  <2> QED
    BY <1>1, <2>1, <2>2, Zenon DEF CutsOf
<1> QED
  BY <1>2, <1>3, <1>4, Zenon
=============================================================================
