--------------------------- MODULE ByteInvariants ---------------------------
(***************************************************************************)
(* The inductive invariant of ByteTransfer, with which ByteTransferProofs  *)
(* proves its safety properties and that its streams are queues of frames. *)
(***************************************************************************)
EXTENDS ByteTransfer

Messages ==
  [type : {"FILE_OFFER", "FILE_ACCEPT", "RESUME_BITMAP", "CHUNK_DATA", "CHUNK_ACK"},
   len : Nat, body : Seq(Int)]

\* What a header out of the middle of a frame can be.
Garbles == [type : {"GARBLED"}, len : Nat, body : {<<>>}]

Octets == [msg : {m \in Messages : ~TooLong(m)}, at : Nat]

Directions ==
  [wire : Seq(Octets), buffer : Seq(Octets),
   header : Messages \cup Garbles \cup {NoHeader}]

ByteTypeOK ==
  /\ size \in Sizes /\ cs \in ChunkSizes
  /\ alike \in BOOLEAN /\ oldSize \in OldSizes
  /\ stream \in [Ends -> Directions]
  /\ last \in [Ends -> Messages \cup Garbles \cup {NoHeader}]
  /\ dropped \in BOOLEAN
  /\ spc \in {"offer", "response", "bitmap", "loop", "ack", "sent", "failed"}
  /\ si \in Nat /\ remoteBitmap \subseteq 0..(Total - 1)
  /\ rpc \in {"offer", "accept", "bitmap", "loop", "ack", "done", "failed"}
  /\ ri \in Nat /\ bitmap \subseteq 0..(Total - 1)

\* What a call has collected is not a message yet, and its header is read.
Collected(s) ==
  IF Len(s.buffer) < HeaderSize THEN s.header = NoHeader
  ELSE /\ s.header # NoHeader
       /\ ~TooLong(s.header) /\ ~Complete(s, s.header)
       /\ IF s.buffer[1].at = 1 THEN s.header = s.buffer[1].msg
          ELSE s.header \in Garbles

BufferInv == \A end \in Ends : Collected(stream[end])

-----------------------------------------------------------------------------
(* What is on its way, by the steps of the two ends.                       *)

Bytes(end) == stream[end].buffer \o stream[end].wire

\* What can be left of bytes that are read from the front.
After(q, n) == SubSeq(q, n + 1, Len(q))
RestOf(q) == {After(q, k) : k \in 0..Len(q)}

\* The chunk sendFile sends as its i-th.
Sent(i) == Chunk(ReadBytes(SendOffset(cs, i), SendLength(size, cs, i)))

\* Nothing but the end of a bitmap whose beginning was dropped.
OnlyTail ==
  /\ \E bits \in SUBSET (0..(Total - 1)) : Bytes("sender") \in RestOf(Encode(Bitmap(bits)))
  /\ ~dropped => Bytes("sender") = <<>>

\* An acknowledgement behind it.
TailAndAck ==
  /\ \E bits \in SUBSET (0..(Total - 1)) :
       Bytes("sender") \in RestOf(Encode(Bitmap(bits)) \o Encode(Ack))
  /\ ~dropped => Bytes("sender") \in {<<>>, Encode(Ack)}

\* From chunk n on, the sender skips what the receiver skips.
AgreeFrom(n) ==
  \A k \in 0..(Total - 1) : k >= n => (k \in remoteBitmap <=> k \in bitmap)

SetupStreams ==
  /\ spc = "offer" => rpc = "offer" /\ Bytes("sender") = <<>> /\ Bytes("receiver") = <<>>
  /\ spc = "response" =>
       \/ /\ rpc = "offer" /\ Bytes("sender") = <<>>
          /\ Bytes("receiver") = Encode(Offer)
       \/ rpc = "accept" /\ Bytes("sender") = <<>> /\ Bytes("receiver") = <<>>
       \/ /\ rpc = "bitmap" /\ Bytes("sender") = Encode(Accept)
          /\ Bytes("receiver") = <<>>
       \/ /\ rpc \in {"loop", "done"}
          /\ Bytes("sender") = Encode(Accept) \o Encode(Bitmap(bitmap))
          /\ Bytes("receiver") = <<>>
  /\ spc = "bitmap" =>
       /\ Bytes("receiver") = <<>>
       /\ \/ rpc = "bitmap" /\ Bytes("sender") = <<>>
          \/ /\ rpc \in {"loop", "done"}
             /\ Bytes("sender") \in RestOf(Encode(Bitmap(bitmap)))
             /\ ~dropped => Bytes("sender") = Encode(Bitmap(bitmap))
  /\ spc \in {"response", "bitmap"} /\ rpc = "loop" => ri = Skip(0, bitmap)

LoopStreams ==
  /\ spc \in {"loop", "sent"} =>
       /\ Bytes("receiver") = <<>> /\ OnlyTail
       /\ rpc \in {"loop", "done", "failed"}
       /\ ~dropped /\ spc = "loop" /\ rpc = "loop" => si = ri /\ AgreeFrom(ri)
  /\ spc \in {"ack", "failed"} =>
       \/ /\ Bytes("receiver") \in {<<>>, Encode(Sent(si))} /\ OnlyTail
          /\ rpc \in {"loop", "done", "failed"}
          /\ ~dropped /\ rpc = "loop" => si = ri /\ AgreeFrom(ri)
       \/ /\ Bytes("receiver") = <<>> /\ OnlyTail
          /\ rpc = "ack"
          /\ ~dropped => si = ri /\ AgreeFrom(ri + 1)
       \/ /\ Bytes("receiver") = <<>> /\ TailAndAck
          /\ rpc \in {"loop", "done", "failed"}
          /\ ~dropped /\ rpc = "loop" => ri = Skip(si + 1, bitmap) /\ AgreeFrom(si + 1)
  /\ spc = "failed" /\ ~dropped => rpc \in {"done", "failed"}

-----------------------------------------------------------------------------
\* Every chunk before the one recvFile is at is held.
LoopInv ==
  /\ rpc \in {"loop", "ack", "done"} => \A k \in 0..(Total - 1) : k < ri => k \in bitmap
  /\ rpc = "ack" => ri \in bitmap
  /\ rpc = "done" => ri >= Total

\* An offer that arrives counts its chunks without an overflow.
OfferInv == rpc # "offer" => ManifestChunks(size, cs) < Word

\* The file holds the chunks of the bitmap, and what was there before.
DiskInv == size < Word => disk = [k \in Positions |-> Initially(k, bitmap)]

\* No chunk is held that is sent shorter than it was hashed, unless an equal
\* one was taken for it after the bitmap of some session was dropped.
HeldWhole ==
  ~(dropped /\ alike) =>
    \A i \in bitmap : SendLength(size, cs, i) >= ManifestLength(size, cs, i)

\* The bytes on their way are, at each step of the two ends, the one or two
\* frames that step has left there, or the end of one; and what is held is on
\* disk.
ByteInv ==
  /\ ByteTypeOK /\ BufferInv
  /\ SetupStreams /\ LoopStreams
  /\ LoopInv /\ OfferInv /\ DiskInv /\ HeldWhole
=============================================================================
