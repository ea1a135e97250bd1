---------------------------- MODULE ByteTransfer ----------------------------
(***************************************************************************)
(* The sessions of one download, sendFile and recvFile down to the bytes:  *)
(* MessageFramer, TcpConnection::recvBytes and the local buffer of         *)
(* recvEncryptedMessage, with every offset and length computed in the      *)
(* width the code uses.                                                    *)
(*                                                                         *)
(* A session may end or break at any step, and the next one resumes from   *)
(* the resume file and the disk it leaves.  Users accept and what is       *)
(* written stays; what goes wrong here is the size of a file, of a         *)
(* payload, and how TCP cuts the stream into reads.  A byte on its way is  *)
(* a position of the frame it belongs to.                                  *)
(***************************************************************************)
EXTENDS ChunkArithmetic, Sequences, FiniteSets

CONSTANTS
  Sizes,       \* sizes of the file
  ChunkSizes,  \* values of chunk_size
  OldSizes,    \* sizes of a download of the same name that is there already
  MaxSize,     \* no file is longer
  MaxMessage,  \* max_message_size
  RecvMax,     \* the array recvBytes reads into
  HeaderSize,  \* type and length
  Overhead,    \* initialisation vector and tag
  OfferSize,   \* the fixed part of an offer
  Old,         \* a byte of the download that is there already
  Unwritten    \* no byte

ASSUME ByteAssumption ==
  /\ MaxSize \in Nat /\ Sizes \subseteq 1..MaxSize /\ OldSizes \subseteq 0..MaxSize
  /\ ChunkSizes \subseteq 1..(Word - 1) /\ MaxMessage \in 1..(Word - 1)
  /\ RecvMax \in Nat \ {0} /\ HeaderSize \in Nat \ {0}
  /\ Overhead \in Nat /\ OfferSize \in Nat

VARIABLES
  size, cs,    \* of the file, and of its chunks
  alike,       \* the bytes of the file are all the same, or all different
  oldSize,     \* of the download that is there already
  stream,      \* towards each end: bytes in flight, read, and the header read
  last,        \* the message each end decoded last
  dropped,     \* in some session so far, a call has returned with bytes
               \* of a second frame
  spc, si, remoteBitmap,    \* sendFile: where it is, i, the receiver's bitmap
  rpc, ri, bitmap, disk     \* recvFile: where it is, i, its bitmap, the file

setup == <<size, cs, alike, oldSize>>
sender == <<spc, si, remoteBitmap>>
receiver == <<rpc, ri, bitmap, disk>>
vars == <<setup, stream, last, dropped, sender, receiver>>

Ends == {"sender", "receiver"}
Positions == 0..(MaxSize - 1)

\* Contents: the byte at a position of the file.
Byte(k) == IF alike THEN 0 ELSE k

\* FileManager::readChunk: n bytes from a position on, fewer at the end.
ReadBytes(offset, n) ==
  [k \in 1..AtMost(n, size - offset) |-> Byte(offset + k - 1)]

Total == TotalChunks(size, cs)

\* The hash the manifest has for chunk i.
Hash(i) == ReadBytes(ManifestOffset(cs, i), ManifestLength(size, cs, i))

-----------------------------------------------------------------------------
(* Frames.                                                                 *)

\* The length field counts the encrypted payload.
Message(type, n, body) == [type |-> type, len |-> n + Overhead, body |-> body]

NoHeader == [type |-> "none"]
Garbled == [type |-> "GARBLED"]
Accept == Message("FILE_ACCEPT", 0, <<>>)
Ack == Message("CHUNK_ACK", 0, <<>>)
Bitmap(bits) ==
  Message("RESUME_BITMAP", Total,
          [k \in 1..Total |-> IF k - 1 \in bits THEN 1 ELSE 0])
Chunk(data) == Message("CHUNK_DATA", Len(data), data)
Offer == Message("FILE_OFFER", OfferSize + ManifestChunks(size, cs), <<>>)

\* Seeded fault: the largest payload allowed is refused.
EncodeBelow(m) ==
  IF m.len >= MaxMessage THEN <<>>
  ELSE [k \in 1..(HeaderSize + m.len) |-> [msg |-> m, at |-> k]]

\* MessageFramer::encode.
Encode(m) ==
  IF m.len > MaxMessage THEN <<>>
  ELSE [k \in 1..(HeaderSize + m.len) |-> [msg |-> m, at |-> k]]

\* What the beginning of a buffer is taken for: the header of the frame that
\* begins there, or any header when it is out of the middle of one.  It is
\* the same as long as the buffer is.
Headers(s) ==
  IF Len(s.buffer) < HeaderSize THEN {}
  ELSE IF s.header # NoHeader THEN {s.header}
  ELSE IF s.buffer[1].at = 1 THEN {s.buffer[1].msg}
  ELSE [type : {"GARBLED"}, len : 0..(MaxMessage + 1), body : {<<>>}]

\* Seeded fault: the header is forgotten in the size of the frame.
CompleteEarly(s, h) == h.len <= MaxMessage /\ Len(s.buffer) >= h.len

\* MessageFramer::decode: the frame is there, or its length is not allowed.
Complete(s, h) == h.len <= MaxMessage /\ Len(s.buffer) >= HeaderSize + h.len
TooLong(h) == h.len > MaxMessage

-----------------------------------------------------------------------------
(* Sending and receiving.                                                  *)

Empty(wire) == [wire |-> wire, buffer |-> <<>>, header |-> NoHeader]

Send(to, m) == stream' = [stream EXCEPT ![to].wire = @ \o Encode(m)]

\* recvBytes: some more bytes, however TCP cuts the stream.
Cuts(s) ==
  {[s EXCEPT !.wire = SubSeq(@, n + 1, Len(@)),
             !.buffer = @ \o SubSeq(s.wire, 1, n)] :
     n \in 1..AtMost(RecvMax, Len(s.wire))}

\* Nothing to decode yet, or bytes that are thrown away: the loop goes on.
RecvMore(end) ==
  /\ \E s \in Cuts(stream[end]) :
       \/ /\ Len(s.buffer) < HeaderSize
          /\ stream' = [stream EXCEPT ![end] = s]
       \/ \E h \in Headers(s) :
            \/ /\ ~TooLong(h) /\ ~Complete(s, h)
               /\ stream' = [stream EXCEPT ![end] = [s EXCEPT !.header = h]]
            \/ /\ TooLong(h)
               /\ stream' = [stream EXCEPT ![end] = Empty(s.wire)]
  /\ UNCHANGED <<setup, last, dropped, sender, receiver>>

\* A message is there.  The buffer is a local of the call: with what it holds
\* of the next frame it is gone.
RecvMessage(end) ==
  \E s \in Cuts(stream[end]) : \E h \in Headers(s) :
    /\ Complete(s, h)
    /\ stream' = [stream EXCEPT ![end] = Empty(s.wire)]
    /\ last' = [last EXCEPT ![end] = h]
    /\ dropped' = (dropped \/ Len(s.buffer) > HeaderSize + h.len)

\* recv returns 0: the other end has closed the connection, which it does
\* here only after its last chunk or a chunk that is wrong.
PeerGone(end) ==
  /\ stream[end].wire = <<>>
  /\ IF end = "sender" THEN rpc \in {"done", "failed"} ELSE spc \in {"sent", "failed"}
  /\ stream' = [stream EXCEPT ![end] = Empty(<<>>)]
  /\ UNCHANGED <<last, dropped>>

-----------------------------------------------------------------------------
\* The first chunk from i on that is not among have.
Skip(i, have) ==
  CHOOSE j \in i..(Total + i) :
    (j >= Total \/ j \notin have) /\ \A k \in i..(j - 1) : k \in have

\* The byte of a chunk of have, or what was there before.
Initially(k, have) ==
  IF k < size /\ k \div cs \in have THEN Byte(k)
  ELSE IF k < oldSize THEN Old ELSE Unwritten

Init ==
  /\ size \in Sizes
  /\ cs \in ChunkSizes
  /\ alike \in BOOLEAN
  /\ oldSize \in OldSizes
  /\ stream = [end \in Ends |-> Empty(<<>>)]
  /\ last = [end \in Ends |-> NoHeader]
  /\ dropped = FALSE
  /\ spc = "offer" /\ si = 0 /\ remoteBitmap = {}
  /\ rpc = "offer" /\ ri = 0 /\ bitmap = {}
  /\ disk = [k \in Positions |-> Initially(k, {})]

SendOffer ==
  /\ spc = "offer"
  /\ Send("receiver", Offer)
  /\ spc' = "response"
  /\ UNCHANGED <<setup, last, dropped, si, remoteBitmap, receiver>>

RecvResponse ==
  /\ spc = "response"
  /\ RecvMessage("sender")
  /\ last'["sender"] = Accept
  /\ spc' = "bitmap"
  /\ UNCHANGED <<setup, si, remoteBitmap, receiver>>

\* The chunks that are not sent.
BitsOf(m) ==
  IF m.type = "RESUME_BITMAP"
  THEN {i \in 0..(Total - 1) : i < Len(m.body) /\ m.body[i + 1] = 1}
  ELSE {}

\* The result of handleResumeAsSender is not looked at.
RecvBitmap ==
  /\ spc = "bitmap"
  /\ \/ /\ RecvMessage("sender")
        /\ remoteBitmap' = BitsOf(last'["sender"])
     \/ PeerGone("sender") /\ remoteBitmap' = {}
  /\ si' = Skip(0, remoteBitmap')
  /\ spc' = "loop"
  /\ UNCHANGED <<setup, receiver>>

SendChunk ==
  /\ spc = "loop"
  /\ si < Total
  /\ Send("receiver",
          Chunk(ReadBytes(SendOffset(cs, si), SendLength(size, cs, si))))
  /\ spc' = "ack"
  /\ UNCHANGED <<setup, last, dropped, si, remoteBitmap, receiver>>

RecvAck ==
  /\ spc = "ack"
  /\ \/ /\ RecvMessage("sender")
        /\ spc' = IF last'["sender"] = Ack THEN "loop" ELSE "failed"
        /\ si' = IF last'["sender"] = Ack THEN Skip(si + 1, remoteBitmap) ELSE si
     \/ PeerGone("sender") /\ spc' = "failed" /\ UNCHANGED si
  /\ UNCHANGED <<setup, remoteBitmap, receiver>>

SendDone ==
  /\ spc = "loop"
  /\ si >= Total
  /\ spc' = "sent"
  /\ UNCHANGED <<setup, stream, last, dropped, si, remoteBitmap, receiver>>

RecvOffer ==
  /\ rpc = "offer"
  /\ RecvMessage("receiver")
  /\ rpc' = "accept"
  /\ UNCHANGED <<setup, sender, ri, bitmap, disk>>

SendAccept ==
  /\ rpc = "accept"
  /\ Send("sender", Accept)
  /\ rpc' = "bitmap"
  /\ UNCHANGED <<setup, last, dropped, sender, ri, bitmap, disk>>

SendBitmap ==
  /\ rpc = "bitmap"
  /\ Send("sender", Bitmap(bitmap))
  /\ ri' = Skip(0, bitmap)
  /\ rpc' = "loop"
  /\ UNCHANGED <<setup, last, dropped, sender, bitmap, disk>>

\* out.seekp, out.write.
Written(offset, data) ==
  [k \in Positions |->
     IF k - offset \in 0..(Len(data) - 1) THEN data[k - offset + 1] ELSE disk[k]]

RecvChunk ==
  /\ rpc = "loop"
  /\ ri < Total
  /\ \/ /\ RecvMessage("receiver")
        /\ IF last'["receiver"].body = Hash(ri)
           THEN /\ disk' = Written(WriteOffset(cs, ri), last'["receiver"].body)
                /\ bitmap' = bitmap \cup {ri}
                /\ rpc' = "ack"
           ELSE rpc' = "failed" /\ UNCHANGED <<bitmap, disk>>
     \/ PeerGone("receiver") /\ rpc' = "failed" /\ UNCHANGED <<bitmap, disk>>
  /\ UNCHANGED <<setup, sender, ri>>

SendAck ==
  /\ rpc = "ack"
  /\ Send("sender", Ack)
  /\ ri' = Skip(ri + 1, bitmap)
  /\ rpc' = "loop"
  /\ UNCHANGED <<setup, last, dropped, sender, bitmap, disk>>

RecvDone ==
  /\ rpc = "loop"
  /\ ri >= Total
  /\ rpc' = "done"
  /\ UNCHANGED <<setup, stream, last, dropped, sender, ri, bitmap, disk>>

\* The session of a download that is not complete is over, wherever its ends
\* are, and the user sends the file again.  recvFile loads the resume file.
NextSession ==
  /\ rpc # "done"
  /\ stream' = [end \in Ends |-> Empty(<<>>)]
  /\ last' = [end \in Ends |-> NoHeader]
  /\ spc' = "offer" /\ si' = 0 /\ remoteBitmap' = {}
  /\ rpc' = "offer" /\ ri' = 0
  /\ UNCHANGED <<setup, dropped, bitmap, disk>>

SenderStep ==
  \/ SendOffer \/ RecvResponse \/ RecvBitmap \/ SendChunk \/ RecvAck \/ SendDone
  \/ spc \in {"response", "bitmap", "ack"} /\ RecvMore("sender")

ReceiverStep ==
  \/ RecvOffer \/ SendAccept \/ SendBitmap \/ RecvChunk \/ SendAck \/ RecvDone
  \/ (rpc = "offer" \/ (rpc = "loop" /\ ri < Total)) /\ RecvMore("receiver")

Next == SenderStep \/ ReceiverStep \/ NextSession

Spec == Init /\ [][Next]_vars /\ WF_vars(SenderStep) /\ WF_vars(ReceiverStep)
-----------------------------------------------------------------------------
\* A download that recvFile reports as complete holds the file byte by byte;
\* behind its end nothing is written, so the tail of a longer old download
\* stays (lines 248 and 296).
DoneMeansSource ==
  rpc = "done" /\ size < Word =>
    \A k \in Positions : disk[k] = IF k < size THEN Byte(k) ELSE Initially(k, {})

\* A file whose size does not fit uint32_t is never reported as received,
\* over any number of sessions: some chunk is cut short by the truncation in
\* line 162 and fails its hash.  Only where all chunks have the same bytes and
\* some session has dropped a bitmap can another chunk have been stored in the
\* place of that one.
LargeFilesRefused == size >= Word /\ ~(dropped /\ alike) => rpc # "done"

\* Every payload of the session is within max_message_size.
Fits ==
  /\ Offer.len <= MaxMessage
  /\ AtMost(cs, size) + Overhead <= MaxMessage

\* Any file below the limits arrives, however the stream is cut and however
\* many sessions have broken, once one is left to run, unless a call drops the
\* beginning of a frame it has read too early.
FittingFilesArrive ==
  Fits /\ size < Word /\ <>[][~NextSession]_vars
    => <>((spc = "sent" /\ rpc = "done") \/ dropped)

-----------------------------------------------------------------------------
(* The queues of frames that TcpLink takes the two streams for.            *)

Frame(b) == IF b.at = 1 THEN b.msg ELSE Garbled

\* Where a frame, or the end of one, begins.
Heads(bytes) == {k \in 1..Len(bytes) : k = 1 \/ bytes[k].at = 1}

\* The place of the head k among them.
Place(k, bytes) == Cardinality({h \in Heads(bytes) : h <= k})

FramesIn(bytes) ==
  [j \in 1..Cardinality(Heads(bytes)) |->
     Frame(bytes[CHOOSE k \in Heads(bytes) : Place(k, bytes) = j])]

QueueTo(end) == FramesIn(stream[end].buffer \o stream[end].wire)

LastAt(end) ==
  IF last[end] # NoHeader /\ last[end].type = "GARBLED" THEN Garbled ELSE last[end]

ToSender ==
  INSTANCE FrameChannel
    WITH toSender <- QueueTo("sender"), received <- LastAt("sender"),
         Faults <- {"coalesce"}, Nothing <- NoHeader, link <- "up",
         toReceiver <- <<>>, Blobs <- {}, NoData <- 0, Files <- {},
         MaxChunks <- 1, Short <- {}

ToReceiver ==
  INSTANCE FrameChannel
    WITH toSender <- QueueTo("receiver"), received <- LastAt("receiver"),
         Faults <- {"coalesce"}, Nothing <- NoHeader, link <- "up",
         toReceiver <- <<>>, Blobs <- {}, NoData <- 0, Files <- {},
         MaxChunks <- 1, Short <- {}

\* A byte stream that is cut and dropped in these ways is a queue of frames
\* that is read as TcpLink says.
ImplementsFrames == ToSender!ChannelSpec /\ ToReceiver!ChannelSpec
=============================================================================
