------------------------- MODULE FileTransferProofs -------------------------
(***************************************************************************)
(* The type invariant and the safety properties of FileTransfer, for every *)
(* file, every number of chunks and every set of faults.                   *)
(***************************************************************************)
EXTENDS TransferInvariants, ShortSequences

-----------------------------------------------------------------------------
(* Frames on the connection.                                               *)

LEMMA PutType ==
  ASSUME NEW S, NEW q \in Seq(S), NEW m \in S
  PROVE  Put(q, m) \in Seq(S)
BY DEF Put

\* Reading takes the head of the queue and leaves frames of the same kind.
LEMMA ReadsType ==
  ASSUME NEW S, Garbled \in S, NEW q \in Seq(S), NEW r \in Reads(q)
  PROVE  /\ q # <<>>
         /\ r.msg = Head(q)
         /\ r.msg \in S
         /\ r.rest \in Seq(S)
<1>1. q # <<>>
  BY DEF Reads
<1>2. r \in [msg : {Head(q)}, rest : Leftovers(Tail(q)) \cup {q}]
  <2>1. Reads(q) =
          [msg  : {Head(q)},
           rest : Leftovers(Tail(q)) \cup (IF Head(q) = Garbled THEN {q} ELSE {})]
    BY <1>1 DEF Reads
  <2> QED
    BY <2>1
<1>3. Tail(q) \in Seq(S) /\ Head(q) \in S
  BY <1>1
<1>4. ASSUME NEW t \in Seq(S)
      PROVE  Leftovers(t) \subseteq Seq(S)
  <2>1. CASE t = <<>> \/ "coalesce" \notin Faults
    BY <2>1, <1>4 DEF Leftovers
  <2>2. CASE t # <<>> /\ "coalesce" \in Faults
    <3>1. Tail(t) \in Seq(S)
      BY <2>2, <1>4
    <3>2. <<Garbled>> \in Seq(S)
      OBVIOUS
    <3>3. <<Garbled>> \o Tail(t) \in Seq(S)
      BY <3>1, <3>2
    <3> QED
      BY <2>2, <3>1, <3>3, <1>4 DEF Leftovers
  <2> QED
    BY <2>1, <2>2
<1> QED
  BY <1>1, <1>2, <1>3, <1>4

LEMMA BreaksType ==
  ASSUME NEW S, NEW q \in Seq(S), NEW n \in 0..Len(q)
  PROVE  SubSeq(q, 1, n) \in Seq(S)
BY SubSeqProperties, n \in Nat, n <= Len(q), Len(q) \in Nat

LEMMA FrameTypes ==
  /\ Accept \in ToSenderFrames
  /\ Reject \in ToSenderFrames
  /\ ChunkAck \in ToSenderFrames
  /\ Garbled \in ToSenderFrames
  /\ Garbled \in ToReceiverFrames
  /\ \A bits \in SUBSET Slots : Bitmap(bits) \in ToSenderFrames
  /\ \A h \in Files, n \in 0..MaxChunks : Offer(h, n) \in ToReceiverFrames
  /\ \A d \in Blobs \cup {NoData} : Chunk(d) \in ToReceiverFrames
BY DEF ToSenderFrames, ToReceiverFrames, Bitmap, Offer, Chunk

\* A frame with the type of a bitmap or of an offer has its fields.
LEMMA FrameFields ==
  /\ \A m \in ToSenderFrames :
       m.type = "RESUME_BITMAP" => m.bits \in SUBSET Slots
  /\ \A m \in ToReceiverFrames :
       m.type = "FILE_OFFER" => m.hashes \in Files /\ m.total \in 0..MaxChunks
BY DEF ToSenderFrames, ToReceiverFrames, Accept, Reject, ChunkAck, Garbled

LEMMA FileFacts ==
  ASSUME NEW f \in Files
  PROVE  /\ f \in Seq(Blobs)
         /\ Len(f) \in 0..MaxChunks
         /\ \A i \in 1..Len(f) : f[i] \in Blobs
         /\ \A i \in Slots : ReadChunk(f, i) \in Blobs \cup {NoData}
<1>1. f \in Seq(Blobs) /\ Len(f) \in Nat /\ Len(f) <= MaxChunks
  BY ChunkedFileAssumption
<1>2. \A i \in 1..Len(f) : f[i] \in Blobs
  BY <1>1
<1> QED
  BY <1>1, <1>2, ChunkedFileAssumption DEF ReadChunk

-----------------------------------------------------------------------------
(* Types.                                                                  *)

LEMMA FlushedType ==
  ASSUME RecvTypeOK
  PROVE  Flushed \in [Slots -> Blobs \cup {NoData}]
BY DEF RecvTypeOK, Flushed, NoChunk

\* What passes the hash check is the contents of a chunk.
LEMMA VerifiedType ==
  ASSUME RecvTypeOK, NEW i \in Slots, NEW d, HashMatches(d, i)
  PROVE  d \in Blobs /\ d = ReadChunk(offer.hashes, i)
<1>1. i \in 1..Len(offer.hashes) /\ d = offer.hashes[i]
  <2>1. offer.hashes \in Files \cup {<<>>}
    BY DEF RecvTypeOK
  <2>2. Len(offer.hashes) \in Nat
    BY <2>1, FileFacts
  <2> QED
    BY <2>2 DEF HashMatches, Slots
<1>2. offer.hashes # <<>>
  BY <1>1
<1>3. offer.hashes \in Files
  BY <1>2 DEF RecvTypeOK
<1> QED
  BY <1>1, <1>3, FileFacts DEF ReadChunk

LEMMA WriteChunkType ==
  ASSUME RecvTypeOK, NEW i \in Slots, NEW d \in Blobs, WriteChunk(i, d)
  PROVE  /\ disk' \in [Slots -> Blobs \cup {NoData}]
         /\ unflushed' \in [idx : Slots, data : Blobs] \cup {NoChunk}
<1>1. Flushed \in [Slots -> Blobs \cup {NoData}]
  BY FlushedType
<1> QED
  BY <1>1 DEF WriteChunk, RecvTypeOK

LEMMA TypeInit == Init => TypeOK
<1> SUFFICES ASSUME Init PROVE TypeOK
  OBVIOUS
<1>1. SendTypeOK
  BY ChunkedFileAssumption
     DEF Init, SendInit, SendTypeOK, SendStates, SendEnded, Slots
<1>2. RecvTypeOK
  BY ChunkedFileAssumption
     DEF Init, RecvInit, RecvTypeOK, RecvStates, RecvEnded, Slots, NoOffer, Saving
<1>3. /\ link \in {"none", "up", "closed", "dead"}
      /\ toSender \in Seq(ToSenderFrames)
      /\ toReceiver \in Seq(ToReceiverFrames)
  BY DEF Init
<1> QED
  BY <1>1, <1>2, <1>3 DEF TypeOK

LEMMA TypeSender ==
  ASSUME TypeOK, SenderStep, UNCHANGED recvVars
  PROVE  TypeOK'
<1> USE DEF TypeOK, sendVars, recvVars, linkVars
<1>r. RecvTypeOK'
  BY DEF RecvTypeOK, Looping, Saving
<1>q. ASSUME NEW r \in Reads(toSender)
      PROVE  r.msg \in ToSenderFrames /\ r.rest \in Seq(ToSenderFrames)
  BY ReadsType, FrameTypes, toSender \in Seq(ToSenderFrames)
<1>s. ASSUME NEW m \in ToReceiverFrames
      PROVE  Put(toReceiver, m) \in Seq(ToReceiverFrames)
  BY PutType
<1>h. HangUp => link' \in {"none", "up", "closed", "dead"}
  BY DEF HangUp
<1>n. MaxChunks \in Nat /\ MaxChunks > 0
  BY ChunkedFileAssumption
<1>1. CASE GenerateManifest
  BY <1>1, <1>r DEF GenerateManifest, SendTypeOK, SendStates, SendEnded
<1>2. CASE ManifestFails
  BY <1>2, <1>r, <1>h DEF ManifestFails, SendTypeOK, SendStates, SendEnded
<1>3. CASE SendOffer
  <2>1. Len(src) \in 0..MaxChunks /\ manifest \in Files
    BY FileFacts DEF SendTypeOK
  <2>2. Offer(manifest, Len(src)) \in ToReceiverFrames
    BY <2>1, FrameTypes
  <2> QED
    BY <1>3, <1>r, <1>s, <2>1, <2>2
       DEF SendOffer, SendTypeOK, SendStates, SendEnded
<1>4. CASE RecvResponse
  BY <1>4, <1>r, <1>h, <1>q DEF RecvResponse, SendTypeOK, SendStates, SendEnded
<1>5. CASE RecvBitmap
  <2>1. PICK r \in Reads(toSender) :
          /\ r.msg.type = "RESUME_BITMAP"
          /\ toSender' = r.rest
          /\ StartLoop(r.msg.bits)
    BY <1>5 DEF RecvBitmap
  <2>2. r.msg.bits \in SUBSET Slots
    BY <2>1, <1>q, FrameFields
  <2> QED
    BY <2>1, <2>2, <1>r, <1>q, <1>n
       DEF StartLoop, SendTypeOK, SendStates, SendEnded
<1>6. CASE BitmapFails
  BY <1>6, <1>r, <1>q, <1>n
     DEF BitmapFails, StartLoop, SendTypeOK, SendStates, SendEnded
<1>7. CASE SwallowGarbled
  BY <1>7, <1>r, <1>q DEF SwallowGarbled, SendTypeOK
<1>8. CASE SendChunk
  <2>1. PICK i \in Slots :
          si' = i /\ toReceiver' = Put(toReceiver, Chunk(ReadChunk(src, i)))
    BY <1>8 DEF SendChunk
  <2>2. Chunk(ReadChunk(src, i)) \in ToReceiverFrames
    BY FrameTypes, FileFacts DEF SendTypeOK
  <2> QED
    BY <1>8, <2>1, <2>2, <1>r, <1>s, <1>n
       DEF SendChunk, SendTypeOK, SendStates, SendEnded, Slots
<1>9. CASE RecvAck
  BY <1>9, <1>r, <1>q, <1>h, <1>n
     DEF RecvAck, SendTypeOK, SendStates, SendEnded, Slots
<1>10. CASE SendDone
  BY <1>10, <1>r, <1>h DEF SendDone, SendTypeOK, SendStates, SendEnded
<1>11. CASE SendLosesPeer
  BY <1>11, <1>r DEF SendLosesPeer, SendTypeOK, SendStates, SendEnded
<1> QED
  BY <1>1, <1>2, <1>3, <1>4, <1>5, <1>6, <1>7, <1>8, <1>9, <1>10, <1>11
     DEF SenderStep

\* The ways a session ends at the receiver.
LEMMA TypeFailRecv ==
  ASSUME RecvTypeOK, FailRecv
  PROVE  RecvTypeOK'
BY FlushedType
   DEF RecvTypeOK, FailRecv, CloseStream, RecvStates, RecvEnded, Saving

LEMMA TypeDie ==
  ASSUME RecvTypeOK, Die
  PROVE  RecvTypeOK'
BY DEF RecvTypeOK, Die, RecvStates, RecvEnded, Saving

LEMMA TypeReceiver ==
  ASSUME TypeOK, ReceiverStep \/ Answer, UNCHANGED sendVars
  PROVE  TypeOK'
<1> USE DEF TypeOK, sendVars, recvVars, linkVars
<1>t. SendTypeOK'
  BY DEF SendTypeOK
<1>q. ASSUME NEW r \in Reads(toReceiver)
      PROVE  r.msg \in ToReceiverFrames /\ r.rest \in Seq(ToReceiverFrames)
  BY ReadsType, FrameTypes, toReceiver \in Seq(ToReceiverFrames)
<1>s. ASSUME NEW m \in ToSenderFrames
      PROVE  Put(toSender, m) \in Seq(ToSenderFrames)
  BY PutType
<1>h. HangUp => link' \in {"none", "up", "closed", "dead"}
  BY DEF HangUp
<1>n. MaxChunks \in Nat /\ MaxChunks > 0
  BY ChunkedFileAssumption
<1> DEFINE States == RecvStates
<1>1. CASE RecvOffer
  <2>1. PICK r \in Reads(toReceiver) :
          /\ r.msg.type = "FILE_OFFER"
          /\ offer' = [hashes |-> r.msg.hashes, total |-> r.msg.total]
          /\ toReceiver' = r.rest
    BY <1>1 DEF RecvOffer
  <2>2. r.msg.hashes \in Files /\ r.msg.total \in 0..MaxChunks
    BY <2>1, <1>q, FrameFields
  <2> QED
    BY <1>1, <2>1, <2>2, <1>t, <1>q
       DEF RecvOffer, RecvTypeOK, RecvStates, RecvEnded, Saving
<1>2. CASE ConfirmYes
  BY <1>2, <1>t, <1>s, FrameTypes
     DEF ConfirmYes, RecvTypeOK, RecvStates, RecvEnded, Saving
<1>3. CASE ConfirmNo
  BY <1>3, <1>t, <1>s, <1>h, FrameTypes, TypeFailRecv DEF ConfirmNo, FailRecv
<1>4. CASE OpenAndResume
  <2>1. Loaded(offer.total) \in SUBSET Slots
    BY <1>n DEF Loaded, RecvTypeOK, Slots
  <2>2. Put(toSender, Bitmap(Loaded(offer.total))) \in Seq(ToSenderFrames)
    BY <2>1, <1>s, FrameTypes
  <2> QED
    BY <1>4, <2>1, <2>2, <1>t
       DEF OpenAndResume, RecvTypeOK, RecvStates, RecvEnded, Looping, Saving
<1>5. CASE RecvChunk
  <2>1. PICK i \in Slots, r \in Reads(toReceiver) :
          /\ HashMatches(r.msg.data, i)
          /\ WriteChunk(i, r.msg.data)
          /\ bitmap' = bitmap \cup {i}
          /\ ri' = i
          /\ toReceiver' = r.rest
    BY <1>5 DEF RecvChunk
  <2>2. /\ disk' \in [Slots -> Blobs \cup {NoData}]
        /\ unflushed' \in [idx : Slots, data : Blobs] \cup {NoChunk}
    BY <2>1, VerifiedType, WriteChunkType
  <2>3. i \in 1..(MaxChunks + 1)
    BY <1>n DEF Slots
  <2> QED
    BY <1>5, <2>1, <2>2, <2>3, <1>t, <1>q
       DEF RecvChunk, RecvTypeOK, RecvStates, RecvEnded, Looping, Saving
<1>6. CASE RejectChunk
  <2>1. FailRecv \/ Die
    BY <1>6 DEF RejectChunk
  <2>2. RecvTypeOK'
    BY <2>1, TypeFailRecv, TypeDie
  <2>3. HangUp
    BY <2>1 DEF FailRecv, Die
  <2> QED
    BY <1>6, <2>2, <2>3, <1>h, <1>q, <1>t DEF RejectChunk
<1>7. CASE SaveTruncate
  BY <1>7, <1>t
     DEF SaveTruncate, RecvTypeOK, RecvStates, RecvEnded, Looping, Saving
<1>8. CASE SaveWrite
  BY <1>8, <1>t
     DEF SaveWrite, RecvTypeOK, RecvStates, RecvEnded, Looping, Saving
<1>9. CASE SendAck
  BY <1>9, <1>t, <1>s, <1>n, FrameTypes
     DEF SendAck, RecvTypeOK, RecvStates, RecvEnded, Looping, Saving, Slots
<1>10. CASE CloseFile
  BY <1>10, <1>t, FlushedType
     DEF CloseFile, CloseStream, RecvTypeOK, RecvStates, RecvEnded, Saving
<1>11. CASE RemoveResume
  BY <1>11, <1>t, <1>h
     DEF RemoveResume, RecvTypeOK, RecvStates, RecvEnded, Saving
<1>12. CASE RecvLosesPeer
  BY <1>12, <1>t, <1>h, TypeFailRecv DEF RecvLosesPeer, FailRecv
<1> QED
  BY <1>1, <1>2, <1>3, <1>4, <1>5, <1>6, <1>7, <1>8, <1>9, <1>10, <1>11, <1>12
     DEF ReceiverStep, Answer

LEMMA TypeEnvironment ==
  ASSUME TypeOK, Environment
  PROVE  TypeOK'
<1> USE DEF TypeOK, sendVars, recvVars, linkVars
<1>h. HangUp => link' \in {"none", "up", "closed", "dead"}
  BY DEF HangUp
<1>1. CASE Connect
  BY <1>1, ChunkedFileAssumption
     DEF Connect, StartRecv, SendTypeOK, SendStates, SendEnded, RecvTypeOK,
         RecvStates, RecvEnded, Saving, NoOffer
<1>2. CASE EditSource
  BY <1>2 DEF EditSource, SendTypeOK, RecvTypeOK
<1>3. CASE SenderCrash
  BY <1>3, <1>h DEF SenderCrash, SendTypeOK, SendStates, SendEnded, RecvTypeOK
<1>4. CASE ReceiverCrash
  <2>1. RecvTypeOK' /\ HangUp
    BY <1>4, TypeDie DEF ReceiverCrash, Die
  <2> QED
    BY <1>4, <2>1, <1>h DEF ReceiverCrash, SendTypeOK
<1>5. CASE Breaks /\ link' \in {"closed", "dead"}
  <2>1. toSender' \in Seq(ToSenderFrames)
    BY <1>5, BreaksType DEF Breaks
  <2>2. toReceiver' \in Seq(ToReceiverFrames)
    BY <1>5, BreaksType DEF Breaks
  <2> QED
    BY <1>5, <2>1, <2>2 DEF Breaks, SendTypeOK, RecvTypeOK
<1>6. CASE LinkTimesOut
  BY <1>6 DEF LinkTimesOut, SendTypeOK, RecvTypeOK
<1>7. CASE DiskFails
  BY <1>7 DEF DiskFails, SendTypeOK, RecvTypeOK
<1> QED
  BY <1>1, <1>2, <1>3, <1>4, <1>5, <1>6, <1>7
     DEF Environment, Reset, GoSilent

LEMMA TypeNext == TypeOK /\ [Next]_vars => TypeOK'
<1> SUFFICES ASSUME TypeOK, [Next]_vars PROVE TypeOK'
  OBVIOUS
<1>1. CASE SenderStep /\ UNCHANGED recvVars
  BY <1>1, TypeSender
<1>2. CASE (ReceiverStep \/ Answer) /\ UNCHANGED sendVars
  BY <1>2, TypeReceiver
<1>3. CASE Environment
  BY <1>3, TypeEnvironment
<1>4. CASE UNCHANGED vars
  BY <1>4
     DEF vars, linkVars, sendVars, recvVars, TypeOK, SendTypeOK, RecvTypeOK
<1> QED
  BY <1>1, <1>2, <1>3, <1>4 DEF Next

\* Every variable keeps its type, in particular no loop index leaves the
\* chunks of the file and no frame of an unknown kind is ever queued.
THEOREM TypeCorrect == Spec => []TypeOK
<1> QED
  BY TypeInit, TypeNext, PTL DEF Spec

-----------------------------------------------------------------------------
\* The part of the invariant that is about the receiver alone.
LocalInv == StreamInv /\ LoopInv /\ RecordInv /\ HeldChunksMatch

-----------------------------------------------------------------------------
(* The stream.                                                             *)

\* Closing the stream changes nothing a reader would see.
LEMMA CloseKeepsView ==
  ASSUME RecvTypeOK, CloseStream, NEW i \in Slots
  PROVE  disk'[i] = View(i) /\ View(i)' = View(i)
<1>1. unflushed' = NoChunk /\ 0 \notin Slots
  BY DEF CloseStream, Slots
<1>2. View(i)' = disk'[i]
  BY <1>1 DEF View, NoChunk
<1>3. disk'[i] = View(i)
  BY <1>1 DEF CloseStream, Flushed, View, RecvTypeOK, NoChunk
<1> QED
  BY <1>2, <1>3

\* Writing a chunk changes what a reader would see at its place only.
LEMMA WriteView ==
  ASSUME RecvTypeOK, NEW i \in Slots, NEW d \in Blobs, outOk,
         WriteChunk(i, d), NEW j \in Slots
  PROVE  View(j)' = IF j = i THEN d ELSE View(j)
<1>1. 0 \notin Slots
  BY DEF Slots
<1>2. CASE d \in Short
  <2>1. disk' = Flushed /\ unflushed' = [idx |-> i, data |-> d]
    BY <1>2 DEF WriteChunk
  <2> QED
    BY <2>1, <1>1 DEF Flushed, View, RecvTypeOK, NoChunk
<1>3. CASE d \notin Short
  <2>1. disk' = [Flushed EXCEPT ![i] = d] /\ unflushed' = NoChunk
    BY <1>3 DEF WriteChunk
  <2> QED
    BY <2>1, <1>1 DEF Flushed, View, RecvTypeOK, NoChunk
<1> QED
  BY <1>2, <1>3

LEMMA LocalFail ==
  ASSUME RecvTypeOK, LocalInv, rpc # "crashed", FailRecv
  PROVE  LocalInv'
<1> USE DEF LocalInv
<1>1. StreamInv'
  BY DEF StreamInv, FailRecv, CloseStream, Looping, Saving
<1>2. LoopInv'
  BY DEF LoopInv, FailRecv, Looping, Saving
<1>3. RecordInv'
  BY DEF RecordInv, FailRecv
<1>4. HeldChunksMatch'
  <2>1. ASSUME outOk', NEW i \in bitmap' \ resumed'
        PROVE  View(i)' = ReadChunk(offer'.hashes, i)
    <3>1. i \in Slots /\ i \in bitmap \ resumed /\ outOk
      BY <2>1 DEF FailRecv, RecvTypeOK
    <3> QED
      BY <3>1, CloseKeepsView DEF HeldChunksMatch, FailRecv
  <2> QED
    BY <2>1 DEF HeldChunksMatch
<1> QED
  BY <1>1, <1>2, <1>3, <1>4

LEMMA LocalDie ==
  ASSUME RecvTypeOK, LocalInv, rpc \notin RecvEnded, Die
  PROVE  LocalInv'
<1> USE DEF LocalInv
<1>1. StreamInv'
  BY DEF StreamInv, Die, Looping, Saving
<1>2. LoopInv'
  BY DEF LoopInv, Die, Looping, Saving
<1>3. RecordInv'
  BY DEF RecordInv, StreamInv, Die, RecvTypeOK, RecvStates, RecvEnded, Looping, Saving
<1>4. HeldChunksMatch'
  BY DEF HeldChunksMatch, Die
<1> QED
  BY <1>1, <1>2, <1>3, <1>4

\* Steps that leave the file, the stream and the bitmap alone.
LEMMA LocalSame ==
  ASSUME HeldChunksMatch, rpc # "crashed",
         UNCHANGED <<offer, bitmap, resumed, unflushed, outOk, disk>>
  PROVE  HeldChunksMatch'
BY DEF HeldChunksMatch, View

LEMMA LocalRecvChunk ==
  ASSUME RecvTypeOK, LocalInv, RecvChunk
  PROVE  LocalInv'
<1> USE DEF LocalInv
<1>1. PICK i \in Slots, r \in Reads(toReceiver) :
        /\ IsNext(i, ri, bitmap, offer.total)
        /\ HashMatches(r.msg.data, i)
        /\ WriteChunk(i, r.msg.data)
        /\ bitmap' = bitmap \cup {i}
        /\ ri' = i
  BY DEF RecvChunk
<1>2. /\ rpc = "loop"
      /\ rpc' = "save"
      /\ UNCHANGED <<offer, resumed, outOk, resumeFile>>
  BY DEF RecvChunk
<1>3. /\ r.msg.data \in Blobs
      /\ r.msg.data = ReadChunk(offer.hashes, i)
  BY <1>1, VerifiedType
<1>4. i \in ri..offer.total /\ i \notin bitmap /\ ri \in Nat /\ i \in Nat
  BY <1>1, ChunkedFileAssumption DEF IsNext, RecvTypeOK, Slots
<1>5. StreamInv'
  <2>1. i \notin resumed
    BY <1>4 DEF StreamInv
  <2>2. unflushed' # NoChunk => outOk /\ unflushed'.idx = i
    BY <1>1 DEF WriteChunk, StreamInv
  <2> QED
    BY <1>1, <1>2, <2>1, <2>2 DEF StreamInv, Looping, Saving
<1>6. LoopInv'
  <2>1. 1..(ri - 1) \subseteq bitmap /\ \A k \in ri..(i - 1) : k \in bitmap
    BY <1>1, <1>2 DEF LoopInv, Looping, IsNext
  <2>2. 1..(i - 1) \subseteq bitmap
    BY <2>1, <1>4
  <2> QED
    BY <2>2, <1>1, <1>2 DEF LoopInv, Looping, Saving
<1>7. RecordInv'
  BY <1>1, <1>2 DEF RecordInv
<1>8. HeldChunksMatch'
  <2>1. ASSUME outOk', NEW j \in bitmap' \ resumed'
        PROVE  View(j)' = ReadChunk(offer'.hashes, j)
    <3>1. j \in Slots /\ outOk
      BY <2>1, <1>1, <1>2 DEF RecvTypeOK
    <3>2. View(j)' = IF j = i THEN r.msg.data ELSE View(j)
      BY <3>1, <1>1, <1>3, WriteView
    <3>3. j # i => View(j) = ReadChunk(offer.hashes, j)
      BY <2>1, <3>1, <1>1, <1>2 DEF HeldChunksMatch
    <3> QED
      BY <3>2, <3>3, <1>2, <1>3
  <2> QED
    BY <2>1 DEF HeldChunksMatch
<1> QED
  BY <1>5, <1>6, <1>7, <1>8

LEMMA LocalReceiver ==
  ASSUME TypeOK, LocalInv, ReceiverStep \/ Answer
  PROVE  LocalInv'
<1> USE DEF LocalInv, TypeOK, linkVars
<1>1. CASE RecvOffer
  BY <1>1
     DEF RecvOffer, StreamInv, LoopInv, RecordInv, HeldChunksMatch, Looping,
         Saving, RecvTypeOK
<1>2. CASE ConfirmYes
  BY <1>2, LocalSame
     DEF ConfirmYes, StreamInv, LoopInv, RecordInv, Looping, Saving
<1>3. CASE ConfirmNo
  BY <1>3, LocalFail DEF ConfirmNo
<1>4. CASE OpenAndResume
  <2>1. /\ rpc = "open"
        /\ bitmap' = Loaded(offer.total)
        /\ resumed' = Loaded(offer.total)
        /\ rpc' = "loop"
        /\ UNCHANGED <<offer, ri, unflushed, disk, resumeFile>>
    BY <1>4 DEF OpenAndResume
  <2>2. StreamInv' /\ LoopInv' /\ HeldChunksMatch'
    BY <2>1 DEF StreamInv, LoopInv, HeldChunksMatch, Looping, Saving
  <2>3. RecordInv'
    BY <2>1 DEF RecordInv, Loaded
  <2> QED
    BY <2>2, <2>3
<1>5. CASE RecvChunk
  BY <1>5, LocalRecvChunk
<1>6. CASE RejectChunk
  <2>1. rpc = "loop" /\ (FailRecv \/ Die)
    BY <1>6 DEF RejectChunk
  <2> QED
    BY <2>1, LocalFail, LocalDie DEF RecvEnded
<1>7. CASE SaveTruncate
  BY <1>7, LocalSame
     DEF SaveTruncate, StreamInv, LoopInv, RecordInv, Looping, Saving
<1>8. CASE SaveWrite
  BY <1>8, LocalSame
     DEF SaveWrite, StreamInv, LoopInv, RecordInv, Looping, Saving
<1>9. CASE SendAck
  <2>1. ri \in Nat /\ rpc = "ack" /\ rpc' = "loop" /\ ri' = ri + 1
    BY <1>9, ChunkedFileAssumption DEF SendAck, RecvTypeOK
  <2>2. LoopInv'
    BY <1>9, <2>1 DEF SendAck, LoopInv, Looping, Saving
  <2> QED
    BY <1>9, <2>1, <2>2, LocalSame
       DEF SendAck, StreamInv, RecordInv, Looping, Saving
<1>10. CASE CloseFile
  <2>1. /\ rpc = "loop"
        /\ rpc' = "remove"
        /\ CloseStream
        /\ NoneLeft(ri, bitmap, offer.total)
        /\ UNCHANGED <<offer, bitmap, resumed, ri, outOk, resumeFile>>
    BY <1>10 DEF CloseFile
  <2>2. StreamInv' /\ RecordInv'
    BY <2>1 DEF StreamInv, RecordInv, CloseStream, Looping, Saving
  <2>3. LoopInv'
    <3>1. ri \in Nat /\ offer.total \in Nat
      BY ChunkedFileAssumption DEF RecvTypeOK
    <3> QED
      BY <2>1, <3>1 DEF LoopInv, NoneLeft, Looping, Saving
  <2>4. HeldChunksMatch'
    <3>1. ASSUME outOk', NEW i \in bitmap' \ resumed'
          PROVE  View(i)' = ReadChunk(offer'.hashes, i)
      <4>1. i \in Slots /\ i \in bitmap \ resumed /\ outOk
        BY <3>1, <2>1 DEF RecvTypeOK
      <4> QED
        BY <4>1, <2>1, CloseKeepsView DEF HeldChunksMatch
    <3> QED
      BY <3>1 DEF HeldChunksMatch
  <2> QED
    BY <2>2, <2>3, <2>4
<1>11. CASE RemoveResume
  BY <1>11, LocalSame
     DEF RemoveResume, StreamInv, LoopInv, RecordInv, Looping, Saving
<1>12. CASE RecvLosesPeer
  BY <1>12, LocalFail DEF RecvLosesPeer
<1> QED
  BY <1>1, <1>2, <1>3, <1>4, <1>5, <1>6, <1>7, <1>8, <1>9, <1>10, <1>11, <1>12
     DEF ReceiverStep, Answer

LEMMA LocalNext == TypeOK /\ LocalInv /\ [Next]_vars => LocalInv'
<1> SUFFICES ASSUME TypeOK, LocalInv, [Next]_vars PROVE LocalInv'
  OBVIOUS
<1> USE DEF LocalInv
<1>1. CASE UNCHANGED recvVars
  BY <1>1
     DEF recvVars, StreamInv, LoopInv, RecordInv, HeldChunksMatch, View
<1>2. CASE ReceiverStep \/ Answer
  BY <1>2, LocalReceiver
<1>3. CASE Connect
  BY <1>3
     DEF Connect, StartRecv, StreamInv, LoopInv, RecordInv, HeldChunksMatch,
         Looping, Saving
<1>4. CASE ReceiverCrash
  BY <1>4, LocalDie DEF ReceiverCrash, TypeOK
<1>5. CASE DiskFails
  BY <1>5
     DEF DiskFails, StreamInv, LoopInv, RecordInv, HeldChunksMatch, Looping, Saving
<1>6. CASE EditSource \/ SenderCrash \/ Reset \/ GoSilent \/ LinkTimesOut
  BY <1>1, <1>6
     DEF EditSource, SenderCrash, Reset, GoSilent, Breaks, LinkTimesOut, recvVars
<1> QED
  BY <1>1, <1>2, <1>3, <1>4, <1>5, <1>6
     DEF Next, Environment, vars

-----------------------------------------------------------------------------
(* The two peers.                                                          *)

LEMMA GarbledApart ==
  /\ Garbled # Accept
  /\ Garbled # Reject
  /\ Garbled # ChunkAck
  /\ \A bits : Garbled # Bitmap(bits)
  /\ \A d : Garbled # Chunk(d)
  /\ \A h, n : Garbled # Offer(h, n)
BY DEF Garbled, Accept, Reject, ChunkAck, Bitmap, Chunk, Offer

\* Reading takes the head and leaves one of the leftovers; only a garbled
\* frame can stay.
LEMMA ReadsHead ==
  ASSUME NEW q, q # <<>>, NEW r \in Reads(q)
  PROVE  /\ r.msg = Head(q)
         /\ r.rest \in Leftovers(Tail(q)) \/ (Head(q) = Garbled /\ r.rest = q)
<1> DEFINE S == IF Head(q) = Garbled THEN {q} ELSE {}
           R == Leftovers(Tail(q)) \cup S
<1>1. Reads(q) = [msg : {Head(q)}, rest : R]
  BY DEF Reads
<1>2. r.rest \in R => r.rest \in Leftovers(Tail(q)) \/ (Head(q) = Garbled /\ r.rest = q)
  OBVIOUS
<1> HIDE DEF R
<1>3. r.msg = Head(q) /\ r.rest \in R
  BY <1>1
<1> QED
  BY <1>2, <1>3

\* A queue of one frame is empty once it is read, unless it is garbled.
LEMMA ReadsOne ==
  ASSUME NEW m, NEW r \in Reads(<<m>>)
  PROVE  /\ r.msg = m
         /\ r.rest \in {<<>>, <<m>>}
         /\ m # Garbled => r.rest = <<>>
<1>1. Tail(<<m>>) = <<>> /\ Head(<<m>>) = m /\ <<m>> # <<>>
  OBVIOUS
<1>2. Leftovers(<<>>) = {<<>>}
  BY DEF Leftovers
<1> QED
  BY <1>1, <1>2, ReadsHead

LEMMA ReadsTwo ==
  ASSUME NEW m, NEW n, NEW r \in Reads(<<m, n>>)
  PROVE  /\ r.msg = m
         /\ r.rest \in {<<n>>, <<>>, <<Garbled>>, <<m, n>>}
         /\ m # Garbled => r.rest \in {<<n>>, <<>>, <<Garbled>>}
<1>1. Tail(<<m, n>>) = <<n>> /\ Head(<<m, n>>) = m /\ <<m, n>> # <<>>
  OBVIOUS
<1>2. Leftovers(<<n>>) \subseteq {<<n>>, <<>>, <<Garbled>>}
  <2>1. Tail(<<n>>) = <<>> /\ <<Garbled>> \o <<>> = <<Garbled>>
    OBVIOUS
  <2> QED
    BY <2>1 DEF Leftovers
<1> QED
  BY <1>1, <1>2, ReadsHead

\* A queue without an acknowledgement.
LEMMA SingletonsApart ==
  /\ <<>> \notin {<<ChunkAck>>, <<Garbled, ChunkAck>>}
  /\ <<Garbled>> \notin {<<ChunkAck>>, <<Garbled, ChunkAck>>}
<1>1. Len(<<Garbled>>) = 1 /\ Len(<<Garbled, ChunkAck>>) = 2 /\ Len(<<>>) = 0
  OBVIOUS
<1>2. <<Garbled>> # <<ChunkAck>>
  BY GarbledApart, <<Garbled>>[1] = Garbled, <<ChunkAck>>[1] = ChunkAck
<1>3. <<Garbled>> # <<Garbled, ChunkAck>>
  BY <1>1
<1>4. <<>> # <<ChunkAck>> /\ <<>> # <<Garbled, ChunkAck>>
  OBVIOUS
<1> QED
  BY <1>2, <1>3, <1>4

LEMMA ReadsNone == Reads(<<>>) = {}
BY DEF Reads

LEMMA PutCases ==
  ASSUME NEW m
  PROVE  /\ Put(<<>>, m) = IF link = "up" THEN <<m>> ELSE <<>>
         /\ \A k : Put(<<k>>, m) = IF link = "up" THEN <<k, m>> ELSE <<k>>
<1>1. Append(<<>>, m) = <<m>>
  OBVIOUS
<1>2. \A k : Append(<<k>>, m) = <<k, m>>
  BY TwoElements
<1> QED
  BY <1>1, <1>2 DEF Put

LEMMA SessionSender ==
  ASSUME TypeOK, LocalInv, SessionInv, SenderStep, UNCHANGED recvVars
  PROVE  SessionInv'
<1> USE DEF recvVars, sendVars, linkVars
<1>1. CASE GenerateManifest
  BY <1>1 DEF GenerateManifest, SessionInv, BeforeOffer
<1>2. CASE ManifestFails
  BY <1>2 DEF ManifestFails, SessionInv
<1>3. CASE SendOffer
  <2>1. BeforeOffer /\ toReceiver = <<>>
    BY <1>3 DEF SendOffer, SessionInv
  <2>2. toReceiver' \in {<<>>, <<Offer(manifest, Len(src))>>}
    BY <1>3, <2>1, PutCases DEF SendOffer
  <2> QED
    BY <1>3, <2>1, <2>2 DEF SendOffer, SessionInv, BeforeOffer
<1>4. CASE RecvResponse
  <2>1. PICK r \in Reads(toSender) :
          /\ toSender' = r.rest
          /\ \/ r.msg = Accept /\ spc' = "bitmap" /\ UNCHANGED link
             \/ r.msg # Accept /\ spc' = "failed"
    BY <1>4 DEF RecvResponse
  <2>2. CASE spc' = "failed"
    BY <2>2 DEF SessionInv
  <2>3. CASE r.msg = Accept /\ spc' = "bitmap" /\ UNCHANGED link
    <3>1. toSender # <<>>
      BY ReadsNone
    <3>2. AfterOffer
      BY <1>4, <3>1 DEF RecvResponse, SessionInv, BeforeOffer
    <3>3. toSender # <<Reject>>
      BY <2>3, ReadsOne, Accept # Reject DEF Accept, Reject
    <3>4. CASE toSender = <<Accept>>
      <4>1. toSender' = <<>>
        BY <2>1, <3>4, ReadsOne, GarbledApart
      <4> QED
        BY <1>4, <2>3, <3>2, <3>4, <4>1
           DEF RecvResponse, SessionInv, AfterOffer, AwaitingBitmap, Agreed,
               Accept, Reject
    <3>5. CASE \E bits \in SUBSET bitmap :
                 toSender = <<Accept, Bitmap(bits)>> /\ rpc \notin {"confirm", "open"}
      <4>1. PICK bits \in SUBSET bitmap :
              toSender = <<Accept, Bitmap(bits)>> /\ rpc \notin {"confirm", "open"}
        BY <3>5
      <4>2. toSender' \in {<<Bitmap(bits)>>, <<>>, <<Garbled>>}
        BY <2>1, <4>1, ReadsTwo, GarbledApart
      <4> QED
        BY <1>4, <2>3, <3>2, <4>1, <4>2
           DEF RecvResponse, SessionInv, AfterOffer, AwaitingBitmap, Agreed
    <3> QED
      BY <3>1, <3>2, <3>3, <3>4, <3>5 DEF AfterOffer
  <2> QED
    BY <2>1, <2>2, <2>3
<1>5. CASE RecvBitmap \/ BitmapFails
  <2>1. AwaitingBitmap /\ spc' = "loop" /\ si' = 1
        /\ UNCHANGED <<manifest, total, link, toReceiver>>
    BY <1>5 DEF RecvBitmap, BitmapFails, StartLoop, SessionInv
  <2>2. /\ toSender' \in {<<>>, <<Garbled>>}
        /\ remoteBitmap' \subseteq bitmap
        /\ link = "up" => rpc # "open"
    <3>1. CASE RecvBitmap
      <4>1. PICK r \in Reads(toSender) :
              /\ r.msg.type = "RESUME_BITMAP"
              /\ toSender' = r.rest
              /\ remoteBitmap' = r.msg.bits
        BY <3>1 DEF RecvBitmap, StartLoop
      <4>2. toSender # <<>>
        BY ReadsNone
      <4>3. toSender # <<Garbled>>
        BY <4>1, ReadsOne, Garbled.type # "RESUME_BITMAP" DEF Garbled
      <4>4. PICK bits \in SUBSET bitmap :
              toSender = <<Bitmap(bits)>> /\ rpc # "open"
        BY <2>1, <4>2, <4>3 DEF AwaitingBitmap
      <4>5. r.msg = Bitmap(bits) /\ r.rest = <<>>
        BY <4>4, ReadsOne, GarbledApart
      <4> QED
        BY <4>1, <4>4, <4>5 DEF Bitmap
    <3>2. CASE BitmapFails
      <4>1. remoteBitmap' = {}
        BY <3>2 DEF BitmapFails, StartLoop
      <4>2. CASE HungUp(toSender) /\ UNCHANGED toSender
        BY <4>1, <4>2 DEF HungUp
      <4>3. CASE \E r \in Reads(toSender) :
                   r.msg.type # "RESUME_BITMAP" /\ toSender' = r.rest
        <5>1. PICK r \in Reads(toSender) :
                r.msg.type # "RESUME_BITMAP" /\ toSender' = r.rest
          BY <4>3
        <5>2. toSender # <<>>
          BY <5>1, ReadsNone
        <5>3. ASSUME NEW bits PROVE toSender # <<Bitmap(bits)>>
          BY <5>1, ReadsOne, Bitmap(bits).type = "RESUME_BITMAP" DEF Bitmap
        <5>4. toSender = <<Garbled>> /\ rpc # "open"
          BY <2>1, <5>2, <5>3 DEF AwaitingBitmap
        <5> QED
          BY <4>1, <5>1, <5>4, ReadsOne
      <4> QED
        BY <3>2, <4>2, <4>3 DEF BitmapFails
    <3> QED
      BY <1>5, <3>1, <3>2
  <2> QED
    BY <2>1, <2>2 DEF SessionInv, AwaitingBitmap, InLoop, Agreed, Quiet
<1>6. CASE SwallowGarbled
  <2>1. PICK r \in Reads(toSender) : r.msg = Garbled /\ toSender' = r.rest
    BY <1>6 DEF SwallowGarbled
  <2>2. toSender # <<>>
    BY ReadsNone
  <2>3. CASE spc = "bitmap"
    <3>1. AwaitingBitmap
      BY <2>3 DEF SessionInv
    <3>2. \A bits : toSender # <<Bitmap(bits)>>
      BY <2>1, ReadsOne, GarbledApart
    <3>3. toSender = <<Garbled>> /\ rpc # "open"
      BY <2>2, <3>1, <3>2 DEF AwaitingBitmap
    <3>4. toSender' \in {<<>>, <<Garbled>>}
      BY <2>1, <3>3, ReadsOne
    <3> QED
      BY <1>6, <2>3, <3>1, <3>3, <3>4
         DEF SwallowGarbled, SessionInv, AwaitingBitmap, Agreed
  <2>4. CASE spc = "ack"
    <3>1. InLoop /\ OneToken
      BY <2>4 DEF SessionInv
    <3>2. toSender \in {<<Garbled>>, <<Garbled, ChunkAck>>}
      <4>1. toSender # <<ChunkAck>>
        BY <2>1, ReadsOne, GarbledApart
      <4> QED
        BY <2>2, <3>1, <4>1 DEF OneToken
    <3>3. CASE toSender = <<Garbled>>
      <4>1. toSender' \in {<<>>, <<Garbled>>}
        BY <2>1, <3>3, ReadsOne
      <4>2. OneToken'
        BY <1>6, <3>1, <3>3, <4>1, SingletonsApart
           DEF SwallowGarbled, OneToken, AckUnderWay
      <4> QED
        BY <1>6, <2>4, <3>1, <4>2 DEF SwallowGarbled, SessionInv, InLoop, Agreed
    <3>4. CASE toSender = <<Garbled, ChunkAck>>
      <4>1. toSender' \in {<<ChunkAck>>, <<>>, <<Garbled>>, <<Garbled, ChunkAck>>}
        BY <2>1, <3>4, ReadsTwo
      <4>2. OneToken'
        BY <1>6, <3>1, <3>4, <4>1 DEF SwallowGarbled, OneToken, AckUnderWay
      <4> QED
        BY <1>6, <2>4, <3>1, <4>2 DEF SwallowGarbled, SessionInv, InLoop, Agreed
    <3> QED
      BY <3>2, <3>3, <3>4
  <2> QED
    BY <1>6, <2>3, <2>4 DEF SwallowGarbled
<1>7. CASE SendChunk
  <2>1. PICK i \in Slots :
          /\ IsNext(i, si, remoteBitmap, total)
          /\ si' = i
          /\ toReceiver' = Put(toReceiver, Chunk(ReadChunk(src, i)))
    BY <1>7 DEF SendChunk
  <2>2. InLoop /\ Quiet
    BY <1>7 DEF SendChunk, SessionInv
  <2>3. ReadChunk(src, i) \in Blobs \cup {NoData}
    BY FileFacts DEF TypeOK, SendTypeOK
  <2>4. toReceiver' \in {<<>>, <<Chunk(ReadChunk(src, i))>>}
    BY <2>1, <2>2, PutCases DEF Quiet
  <2>5. 1..(i - 1) \subseteq bitmap
    <3>1. si \in Nat /\ i \in Nat
      BY ChunkedFileAssumption DEF TypeOK, SendTypeOK, Slots
    <3>2. \A k \in si..(i - 1) : k \in bitmap
      BY <2>1, <2>2 DEF IsNext, InLoop
    <3> QED
      BY <3>1, <3>2, <2>2 DEF InLoop
  <2>6. InLoop'
    BY <1>7, <2>1, <2>2, <2>5 DEF SendChunk, InLoop, Agreed
  <2>7. OneToken'
    BY <1>7, <2>2, <2>3, <2>4, SingletonsApart
       DEF SendChunk, OneToken, Quiet, AckUnderWay
  <2> QED
    BY <1>7, <2>6, <2>7 DEF SendChunk, SessionInv
<1>8. CASE RecvAck
  <2>1. PICK r \in Reads(toSender) :
          /\ toSender' = r.rest
          /\ \/ r.msg = ChunkAck /\ si' = si + 1 /\ spc' = "loop" /\ UNCHANGED link
             \/ r.msg # ChunkAck /\ spc' = "failed"
    BY <1>8 DEF RecvAck
  <2>2. CASE spc' = "failed"
    BY <2>2 DEF SessionInv
  <2>3. CASE r.msg = ChunkAck /\ si' = si + 1 /\ spc' = "loop" /\ UNCHANGED link
    <3>1. InLoop /\ OneToken
      BY <1>8 DEF RecvAck, SessionInv
    <3>2. toSender = <<ChunkAck>>
      <4>1. toSender # <<>>
        BY ReadsNone
      <4>2. toSender \notin {<<Garbled>>, <<Garbled, ChunkAck>>}
        BY <2>3, ReadsOne, ReadsTwo, GarbledApart
      <4> QED
        BY <3>1, <4>1, <4>2 DEF OneToken
    <3>3. toSender' = <<>>
      BY <2>1, <3>2, ReadsOne, GarbledApart
    <3>4. toReceiver = <<>> /\ si \in bitmap /\ rpc \notin Saving
      BY <3>1, <3>2 DEF OneToken, AckUnderWay
    <3>5. 1..(si' - 1) \subseteq bitmap
      <4>1. si \in Nat
        BY ChunkedFileAssumption DEF TypeOK, SendTypeOK
      <4> QED
        BY <4>1, <2>3, <3>1, <3>4 DEF InLoop
    <3> QED
      BY <1>8, <2>3, <3>1, <3>3, <3>4, <3>5
         DEF RecvAck, SessionInv, InLoop, Agreed, Quiet
  <2> QED
    BY <2>1, <2>2, <2>3
<1>9. CASE SendDone
  <2>1. InLoop /\ Quiet /\ NoneLeft(si, remoteBitmap, total)
    BY <1>9 DEF SendDone, SessionInv
  <2>2. 1..total \subseteq bitmap
    <3>1. si \in Nat /\ total \in Nat
      BY ChunkedFileAssumption DEF TypeOK, SendTypeOK
    <3> QED
      BY <2>1, <3>1 DEF InLoop, NoneLeft
  <2>3. link' = "up" => link = "up"
    BY <1>9 DEF SendDone, HangUp
  <2> QED
    BY <1>9, <2>1, <2>2, <2>3 DEF SendDone, SessionInv, InLoop, Agreed, Quiet
<1>10. CASE SendLosesPeer
  BY <1>10 DEF SendLosesPeer, SessionInv
<1> QED
  BY <1>1, <1>2, <1>3, <1>4, <1>5, <1>6, <1>7, <1>8, <1>9, <1>10 DEF SenderStep

\* The session ends at the receiver, which leaves the frames under way.
LEMMA SessionEndRecv ==
  ASSUME TypeOK, SessionInv, rpc \notin RecvEnded,
         rpc' \in {"failed", "crashed"}, link' # "up",
         UNCHANGED <<sendVars, offer, bitmap, toSender>>,
         toReceiver' \in {toReceiver, <<>>}
  PROVE  SessionInv'
<1> USE DEF sendVars
<1>1. CASE spc \in {"manifest", "offer"}
  BY <1>1 DEF SessionInv, BeforeOffer
<1>2. CASE spc = "response"
  BY <1>2 DEF SessionInv, BeforeOffer, AfterOffer, Agreed, Saving, RecvEnded
<1>3. CASE spc = "bitmap"
  BY <1>3 DEF SessionInv, AwaitingBitmap, Agreed, Saving
<1>4. CASE spc \in {"loop", "sent"}
  BY <1>4 DEF SessionInv, InLoop, Quiet, Agreed, Saving
<1>5. CASE spc = "ack"
  BY <1>5 DEF SessionInv, InLoop, OneToken, AckUnderWay, Agreed, Saving
<1>6. CASE spc \in {"idle", "failed"}
  BY <1>6 DEF SessionInv
<1> QED
  BY <1>1, <1>2, <1>3, <1>4, <1>5, <1>6
     DEF TypeOK, SendTypeOK, SendStates, SendEnded

\* A frame the receiver reads in its loop is the one chunk in flight.
LEMMA ChunkInFlight ==
  ASSUME TypeOK, SessionInv, rpc = "loop", NEW r \in Reads(toReceiver),
         spc \notin {"idle", "failed"}
  PROVE  spc = "ack" /\ r.rest = <<>>
<1>1. toReceiver # <<>>
  BY ReadsNone
<1>2. spc = "ack"
  BY <1>1
     DEF TypeOK, SendTypeOK, SendStates, SendEnded, SessionInv, BeforeOffer,
         AfterOffer, AwaitingBitmap, Quiet
<1>3. \E d \in Blobs \cup {NoData} : toReceiver = <<Chunk(d)>>
  BY <1>1, <1>2 DEF SessionInv, OneToken
<1> QED
  BY <1>2, <1>3, ReadsOne, GarbledApart

LEMMA SessionReceiver ==
  ASSUME TypeOK, LocalInv, SessionInv, ReceiverStep \/ Answer,
         UNCHANGED sendVars
  PROVE  SessionInv'
<1> USE DEF sendVars, linkVars
<1>a. spc \in {"manifest", "offer", "response", "bitmap", "loop", "ack",
               "sent", "idle", "failed"}
  BY DEF TypeOK, SendTypeOK, SendStates, SendEnded
<1>h. HangUp => link' # "up"
  BY DEF HangUp
<1>0. CASE spc \in {"idle", "failed"}
  BY <1>0 DEF SessionInv
<1>1. CASE RecvOffer /\ spc \notin {"idle", "failed"}
  <2>1. PICK r \in Reads(toReceiver) :
          /\ offer' = [hashes |-> r.msg.hashes, total |-> r.msg.total]
          /\ toReceiver' = r.rest
    BY <1>1 DEF RecvOffer
  <2>2. toReceiver # <<>>
    BY ReadsNone
  <2>3. rpc = "offer"
    BY <1>1 DEF RecvOffer
  <2>4. spc = "response" /\ toSender = <<>>
        /\ toReceiver = <<Offer(manifest, total)>>
    BY <1>1, <1>a, <2>2, <2>3
       DEF SessionInv, BeforeOffer, AfterOffer, AwaitingBitmap, InLoop
  <2>5. r.msg = Offer(manifest, total) /\ r.rest = <<>>
    BY <2>4, ReadsOne, GarbledApart
  <2>6. Agreed'
    BY <2>1, <2>5 DEF Agreed, Offer
  <2> QED
    BY <1>1, <2>1, <2>4, <2>5, <2>6 DEF RecvOffer, SessionInv, AfterOffer, Saving
<1>2. CASE Answer /\ spc \notin {"idle", "failed"}
  <2>1. rpc = "confirm"
    BY <1>2 DEF Answer, ConfirmYes, ConfirmNo
  <2>2. spc = "response" /\ AfterOffer
    BY <1>2, <1>a, <2>1
       DEF SessionInv, BeforeOffer, AwaitingBitmap, InLoop
  <2>3. toSender = <<>>
    BY <2>1, <2>2 DEF AfterOffer
  <2>4. CASE ConfirmYes
    <3>1. toSender' = IF link = "up" THEN <<Accept>> ELSE <<>>
      BY <2>3, <2>4, PutCases DEF ConfirmYes
    <3> QED
      BY <2>2, <2>4, <3>1 DEF ConfirmYes, SessionInv, AfterOffer, Agreed, Saving
  <2>5. CASE ConfirmNo
    <3>1. toSender' = IF link = "up" THEN <<Reject>> ELSE <<>>
      BY <2>3, <2>5, PutCases DEF ConfirmNo
    <3> QED
      BY <1>h, <2>2, <2>5, <3>1
         DEF ConfirmNo, FailRecv, SessionInv, AfterOffer, Agreed, Saving
  <2> QED
    BY <1>2, <2>4, <2>5 DEF Answer
<1>3. CASE OpenAndResume /\ spc \notin {"idle", "failed"}
  <2>1. /\ rpc = "open"
        /\ rpc' = "loop"
        /\ toSender' = Put(toSender, Bitmap(bitmap'))
        /\ UNCHANGED <<offer, link, toReceiver>>
    BY <1>3 DEF OpenAndResume
  <2>2. bitmap = {}
    BY <2>1 DEF LocalInv, StreamInv
  <2>3. CASE spc = "response"
    <3>1. AfterOffer
      BY <2>1, <2>3 DEF SessionInv, BeforeOffer
    <3>2. \/ link = "up" /\ toSender = <<Accept>>
             /\ toSender' = <<Accept, Bitmap(bitmap')>>
          \/ link # "up" /\ toSender' = toSender /\ toSender \in {<<>>, <<Accept>>}
      BY <2>1, <3>1, PutCases DEF AfterOffer, Put
    <3>3. Agreed'
      BY <2>1, <3>1 DEF AfterOffer, Agreed
    <3>4. AfterOffer'
      BY <2>1, <3>1, <3>2, <3>3 DEF AfterOffer, Saving
    <3> QED
      BY <2>3, <3>4 DEF SessionInv
  <2>4. CASE spc = "bitmap"
    <3>1. AwaitingBitmap /\ toSender = <<>>
      BY <2>1, <2>4 DEF SessionInv, AwaitingBitmap
    <3>2. toSender' \in {<<>>, <<Bitmap(bitmap')>>}
      BY <2>1, <3>1, PutCases
    <3>3. Agreed'
      BY <2>1, <3>1 DEF AwaitingBitmap, Agreed
    <3>4. AwaitingBitmap'
      BY <2>1, <3>1, <3>2, <3>3 DEF AwaitingBitmap, Saving
    <3> QED
      BY <2>4, <3>4 DEF SessionInv
  <2>5. CASE spc \in {"loop", "ack", "sent"}
    <3>1. InLoop /\ link # "up" /\ toSender' = toSender
      BY <2>1, <2>5 DEF SessionInv, InLoop, Put
    <3>2. InLoop'
      BY <2>1, <2>2, <3>1 DEF InLoop, Agreed
    <3> QED
      BY <2>1, <2>2, <2>5, <3>1, <3>2 DEF SessionInv, Quiet, OneToken, AckUnderWay, Saving
  <2> QED
    BY <1>3, <1>a, <2>1, <2>3, <2>4, <2>5 DEF SessionInv, BeforeOffer
<1>4. CASE RecvChunk /\ spc \notin {"idle", "failed"}
  <2>1. PICK i \in Slots, r \in Reads(toReceiver) :
          /\ IsNext(i, ri, bitmap, offer.total)
          /\ bitmap' = bitmap \cup {i}
          /\ toReceiver' = r.rest
    BY <1>4 DEF RecvChunk
  <2>2. rpc = "loop"
    BY <1>4 DEF RecvChunk
  <2>3. spc = "ack" /\ toReceiver' = <<>>
    BY <1>4, <2>1, <2>2, ChunkInFlight
  <2>4. InLoop /\ OneToken /\ toReceiver # <<>>
    BY <2>1, <2>3, ReadsNone DEF SessionInv
  <2>5. toSender \in {<<>>, <<Garbled>>}
    BY <2>4, SingletonsApart DEF OneToken, AckUnderWay
  <2>6. si \in bitmap'
    <3>1. si \in Nat \ {0} /\ ri \in Nat \ {0} /\ i \in Nat \ {0}
      BY ChunkedFileAssumption DEF TypeOK, SendTypeOK, RecvTypeOK, Slots
    <3>2. 1..(si - 1) \subseteq bitmap /\ 1..(ri - 1) \subseteq bitmap
      BY <2>2, <2>4 DEF InLoop, LocalInv, LoopInv, Looping
    <3>3. i \notin bitmap /\ i >= ri /\ \A k \in ri..(i - 1) : k \in bitmap
      BY <2>1, <3>1 DEF IsNext
    <3>4. si \notin bitmap => si = i
      BY <3>1, <3>2, <3>3
    <3> QED
      BY <2>1, <3>4
  <2> QED
    BY <1>4, <2>1, <2>3, <2>4, <2>5, <2>6
       DEF RecvChunk, SessionInv, InLoop, OneToken, AckUnderWay, Agreed
<1>5. CASE RejectChunk /\ spc \notin {"idle", "failed"}
  <2>1. PICK r \in Reads(toReceiver) : toReceiver' = r.rest
    BY <1>5 DEF RejectChunk
  <2>2. rpc = "loop" /\ (FailRecv \/ Die) /\ UNCHANGED toSender
    BY <1>5 DEF RejectChunk
  <2>3. toReceiver' = <<>>
    BY <1>5, <2>1, <2>2, ChunkInFlight
  <2> QED
    BY <1>h, <2>2, <2>3, SessionEndRecv DEF FailRecv, Die, RecvEnded
<1>6. CASE (SaveTruncate \/ SaveWrite) /\ spc \notin {"idle", "failed"}
  <2>1. /\ rpc \in Saving
        /\ rpc' \in Saving
        /\ UNCHANGED <<offer, bitmap, link, toSender, toReceiver>>
    BY <1>6 DEF SaveTruncate, SaveWrite, Saving
  <2>2. spc = "ack"
    BY <1>6, <1>a, <2>1
       DEF SessionInv, BeforeOffer, AfterOffer, AwaitingBitmap, Quiet, Saving
  <2> QED
    BY <2>1, <2>2 DEF SessionInv, InLoop, OneToken, AckUnderWay, Agreed, Saving
<1>7. CASE SendAck /\ spc \notin {"idle", "failed"}
  <2>1. rpc \in Saving
    BY <1>7 DEF SendAck, Saving
  <2>2. spc = "ack"
    BY <1>7, <1>a, <2>1
       DEF SessionInv, BeforeOffer, AfterOffer, AwaitingBitmap, Quiet, Saving
  <2>3. InLoop /\ OneToken /\ toSender \in {<<>>, <<Garbled>>}
    BY <2>1, <2>2 DEF SessionInv, OneToken, AckUnderWay
  <2>4. toSender' \in {<<>>, <<Garbled>>, <<ChunkAck>>, <<Garbled, ChunkAck>>}
    BY <1>7, <2>3, PutCases DEF SendAck
  <2> QED
    BY <1>7, <2>1, <2>2, <2>3, <2>4
       DEF SendAck, SessionInv, InLoop, OneToken, AckUnderWay, Agreed, Saving
<1>8. CASE CloseFile /\ spc \notin {"idle", "failed"}
  <2>1. /\ rpc = "loop"
        /\ rpc' = "remove"
        /\ UNCHANGED <<offer, bitmap, linkVars>>
    BY <1>8 DEF CloseFile
  <2> QED
    BY <2>1
       DEF SessionInv, BeforeOffer, AfterOffer, AwaitingBitmap, InLoop, Quiet,
           OneToken, AckUnderWay, Agreed, Saving
<1>9. CASE RemoveResume /\ spc \notin {"idle", "failed"}
  <2>1. /\ rpc = "remove"
        /\ rpc' = "done"
        /\ link' # "up"
        /\ UNCHANGED <<offer, bitmap, toSender, toReceiver>>
    BY <1>9, <1>h DEF RemoveResume
  <2> QED
    BY <2>1
       DEF SessionInv, BeforeOffer, AfterOffer, AwaitingBitmap, InLoop, Quiet,
           OneToken, AckUnderWay, Agreed, Saving
<1>10. CASE RecvLosesPeer /\ spc \notin {"idle", "failed"}
  <2>1. rpc \notin RecvEnded
    BY <1>10 DEF RecvLosesPeer, RecvEnded
  <2> QED
    BY <1>h, <1>10, <2>1, SessionEndRecv DEF RecvLosesPeer, FailRecv
<1> QED
  BY <1>0, <1>1, <1>2, <1>3, <1>4, <1>5, <1>6, <1>7, <1>8, <1>9, <1>10
     DEF ReceiverStep, Answer

LEMMA SessionBreaks ==
  ASSUME TypeOK, SessionInv, Breaks, link' # "up"
  PROVE  SessionInv'
<1> USE DEF sendVars, recvVars
<1>1. toSender' \in CutsOf(toSender)
  BY DEF Breaks, CutsOf
<1>2. toReceiver' \in CutsOf(toReceiver)
  BY DEF Breaks, CutsOf
<1>3. toSender = <<>> => toSender' = <<>>
  BY <1>1, CutShort
<1>4. \A m : toSender = <<m>> => toSender' \in {<<>>, <<m>>}
  BY <1>1, CutShort, Zenon
<1>5. \A m, p : toSender = <<m, p>> => toSender' \in {<<>>, <<m>>, <<m, p>>}
  BY <1>1, CutShort, Zenon
<1>6. toReceiver = <<>> => toReceiver' = <<>>
  BY <1>2, CutShort
<1>7. \A m : toReceiver = <<m>> => toReceiver' \in {<<>>, <<m>>}
  BY <1>2, CutShort, Zenon
<1>8. UNCHANGED <<sendVars, recvVars>>
  BY DEF Breaks
<1>9. CASE spc \in {"manifest", "offer"}
  BY <1>3, <1>6, <1>8, <1>9 DEF SessionInv, BeforeOffer
<1>10. CASE spc = "response"
  <2>1. CASE BeforeOffer /\ toReceiver \in {<<>>, <<Offer(manifest, total)>>}
    BY <1>3, <1>6, <1>7, <1>8, <1>10, <2>1 DEF SessionInv, BeforeOffer
  <2>2. CASE AfterOffer
    <3>1. AfterOffer'
      BY <1>3, <1>4, <1>5, <1>6, <1>8, <2>2 DEF AfterOffer, Agreed
    <3> QED
      BY <3>1, <1>8, <1>10 DEF SessionInv
  <2> QED
    BY <1>10, <2>1, <2>2 DEF SessionInv
<1>11. CASE spc = "bitmap"
  BY <1>3, <1>4, <1>6, <1>8, <1>11 DEF SessionInv, AwaitingBitmap, Agreed
<1>12. CASE spc \in {"loop", "sent"}
  BY <1>3, <1>4, <1>6, <1>8, <1>12 DEF SessionInv, InLoop, Quiet, Agreed
<1>13. CASE spc = "ack"
  <2>1. InLoop /\ OneToken
    BY <1>13 DEF SessionInv
  <2>2. InLoop'
    BY <1>8, <2>1 DEF InLoop, Agreed
  <2>3. AckUnderWay' => AckUnderWay
    BY <1>3, <1>4, <1>5, <2>1, SingletonsApart DEF OneToken, AckUnderWay
  <2>4. toSender' \in {<<>>, <<Garbled>>, <<ChunkAck>>, <<Garbled, ChunkAck>>}
    BY <1>3, <1>4, <1>5, <2>1 DEF OneToken
  <2>5. toReceiver' \in {<<>>, toReceiver}
    BY <1>6, <1>7, <2>1 DEF OneToken
  <2>6. OneToken'
    BY <1>8, <2>1, <2>3, <2>4, <2>5 DEF OneToken
  <2> QED
    BY <1>8, <1>13, <2>2, <2>6 DEF SessionInv
<1>14. CASE spc \in {"idle", "failed"}
  BY <1>8, <1>14 DEF SessionInv
<1> QED
  BY <1>9, <1>10, <1>11, <1>12, <1>13, <1>14
     DEF TypeOK, SendTypeOK, SendStates, SendEnded

LEMMA SessionNext ==
  TypeOK /\ LocalInv /\ SessionInv /\ [Next]_vars => SessionInv'
<1> SUFFICES ASSUME TypeOK, LocalInv, SessionInv, [Next]_vars PROVE SessionInv'
  OBVIOUS
<1> USE DEF sendVars, recvVars, linkVars
<1>1. CASE SenderStep /\ UNCHANGED recvVars
  BY <1>1, SessionSender
<1>2. CASE (ReceiverStep \/ Answer) /\ UNCHANGED sendVars
  BY <1>2, SessionReceiver
<1>3. CASE Connect
  BY <1>3 DEF Connect, StartRecv, SessionInv, BeforeOffer
<1>4. CASE EditSource \/ LinkTimesOut \/ DiskFails \/ UNCHANGED vars
  <2>1. /\ UNCHANGED <<spc, manifest, total, remoteBitmap, si, rpc, offer,
                       bitmap, toSender, toReceiver>>
        /\ link' = "up" => link = "up"
    BY <1>4 DEF EditSource, LinkTimesOut, DiskFails, vars
  <2> QED
    BY <2>1
       DEF SessionInv, BeforeOffer, AfterOffer, AwaitingBitmap, InLoop, Quiet,
           OneToken, AckUnderWay, Agreed
<1>5. CASE SenderCrash
  BY <1>5 DEF SenderCrash, SessionInv
<1>6. CASE ReceiverCrash
  BY <1>6, SessionEndRecv DEF ReceiverCrash, Die, HangUp
<1>7. CASE Reset \/ GoSilent
  BY <1>7, SessionBreaks DEF Reset, GoSilent
<1> QED
  BY <1>1, <1>2, <1>3, <1>4, <1>5, <1>6, <1>7 DEF Next, Environment

-----------------------------------------------------------------------------
(* The theorems.                                                           *)

\* The inductive invariant, with the types it needs.
THEOREM TransferInvHolds == Spec => [](TypeOK /\ TransferInv)
<1>1. Init => TransferInv
  BY DEF Init, SendInit, RecvInit, TransferInv, StreamInv, LoopInv, RecordInv,
         SessionInv, HeldChunksMatch, Looping, Saving
<1>2. TypeOK /\ TransferInv /\ [Next]_vars => TransferInv'
  BY LocalNext, SessionNext DEF TransferInv, LocalInv
<1> QED
  BY <1>1, <1>2, TypeInit, TypeNext, PTL DEF Spec

\* Whatever fails, a chunk marked in this session has the contents the
\* manifest asks for.
THEOREM HeldChunksMatchHolds == Spec => []HeldChunksMatch
<1>1. TypeOK /\ TransferInv => HeldChunksMatch
  BY DEF TransferInv
<1> QED
  BY <1>1, TransferInvHolds, PTL

\* When sendFile returns true the receiver holds every chunk of the file.
THEOREM SentMeansHeldHolds == Spec => []SentMeansHeld
<1>1. TypeOK /\ TransferInv => SentMeansHeld
  <2> SUFFICES ASSUME TypeOK, TransferInv, spc = "sent", outOk,
                      rpc # "crashed", NEW i \in 1..total, i \notin resumed
               PROVE  View(i) = ReadChunk(manifest, i)
    BY DEF SentMeansHeld
  <2>1. 1..total \subseteq bitmap /\ Agreed
    BY DEF TransferInv, SessionInv, InLoop
  <2> QED
    BY <2>1 DEF TransferInv, HeldChunksMatch, Agreed
<1> QED
  BY <1>1, TransferInvHolds, PTL

\* A kill loses at most the chunk at hand from the resume file, unless it
\* came while the file was being written.
THEOREM KillKeepsProgressHolds == Spec => []KillKeepsProgress
<1>1. TypeOK /\ TransferInv => KillKeepsProgress
  BY DEF TransferInv, RecordInv, KillKeepsProgress
<1> QED
  BY <1>1, TransferInvHolds, PTL

\* Nothing but verified contents ever reaches the downloaded file.
THEOREM VerifiedWritesOnlyHolds == Spec => VerifiedWritesOnly
<1> DEFINE Verified ==
      \A i \in Slots : disk'[i] # disk[i] => disk'[i] = ReadChunk(offer.hashes, i)
<1>1. TypeOK /\ TransferInv /\ [Next]_vars => [Verified]_vars
  <2> SUFFICES ASSUME TypeOK, TransferInv, Next PROVE Verified
    BY DEF vars, recvVars
  <2> USE DEF TypeOK, sendVars, recvVars, linkVars
  <2>1. CASE UNCHANGED disk
    BY <2>1
  <2>2. CASE CloseStream /\ rpc # "crashed"
    <3> SUFFICES ASSUME NEW i \in Slots, disk'[i] # disk[i]
                 PROVE  disk'[i] = ReadChunk(offer.hashes, i)
      OBVIOUS
    <3>1. disk'[i] = View(i)
      BY <2>2, CloseKeepsView
    <3>2. unflushed # NoChunk /\ unflushed.idx = i
      BY <3>1 DEF View, NoChunk, Slots
    <3>3. outOk /\ i \in bitmap \ resumed
      BY <3>2 DEF TransferInv, StreamInv
    <3> QED
      BY <2>2, <3>1, <3>3 DEF TransferInv, HeldChunksMatch
  <2>3. CASE RecvChunk
    <3>1. PICK i \in Slots, r \in Reads(toReceiver) :
            HashMatches(r.msg.data, i) /\ WriteChunk(i, r.msg.data)
      BY <2>3 DEF RecvChunk
    <3>2. r.msg.data \in Blobs /\ r.msg.data = ReadChunk(offer.hashes, i)
      BY <3>1, VerifiedType
    <3>3. rpc = "loop"
      BY <2>3 DEF RecvChunk
    <3> SUFFICES ASSUME NEW j \in Slots, disk'[j] # disk[j]
                 PROVE  disk'[j] = ReadChunk(offer.hashes, j)
      OBVIOUS
    <3>4. \/ j = i /\ disk'[j] = r.msg.data
          \/ unflushed # NoChunk /\ unflushed.idx = j /\ disk'[j] = unflushed.data
      BY <3>1, FlushedType DEF WriteChunk, Flushed, RecvTypeOK
    <3>5. unflushed # NoChunk /\ unflushed.idx = j =>
            unflushed.data = ReadChunk(offer.hashes, j)
      BY <3>3 DEF TransferInv, StreamInv, HeldChunksMatch, View
    <3> QED
      BY <3>2, <3>4, <3>5
  <2>4. CASE ReceiverStep \/ Answer
    <3>1. CASE FailRecv /\ rpc # "crashed"
      BY <2>2, <3>1 DEF FailRecv
    <3>2. CASE Die
      BY <2>1, <3>2 DEF Die
    <3>3. CASE RejectChunk \/ RecvLosesPeer \/ ConfirmNo
      BY <3>1, <3>2, <3>3 DEF RejectChunk, RecvLosesPeer, ConfirmNo
    <3>4. CASE CloseFile
      BY <2>2, <3>4 DEF CloseFile
    <3>5. CASE \/ RecvOffer \/ OpenAndResume \/ SaveTruncate \/ SaveWrite
               \/ SendAck \/ RemoveResume \/ ConfirmYes
      BY <2>1, <3>5
         DEF RecvOffer, OpenAndResume, SaveTruncate, SaveWrite, SendAck,
             RemoveResume, ConfirmYes
    <3> QED
      BY <2>3, <2>4, <3>3, <3>4, <3>5 DEF ReceiverStep, Answer
  <2>5. CASE Environment
    BY <2>1, <2>5
       DEF Environment, Connect, StartRecv, EditSource, SenderCrash,
           ReceiverCrash, Die, Reset, GoSilent, Breaks, LinkTimesOut, DiskFails
  <2> QED
    BY <2>1, <2>4, <2>5 DEF Next
<1> QED
  BY <1>1, TransferInvHolds, PTL DEF Spec, VerifiedWritesOnly

\* The resume file goes only when the chunks of the session are in the file.
THEOREM RemovedOnlyWhenWholeHolds == Spec => RemovedOnlyWhenWhole
<1> DEFINE Whole ==
      resumeFile # NoResume /\ resumeFile' = NoResume /\ outOk =>
        \A i \in (1..offer.total) \ resumed : disk[i] = ReadChunk(offer.hashes, i)
<1>1. TypeOK /\ TransferInv /\ [Next]_vars => [Whole]_vars
  <2> SUFFICES ASSUME TypeOK, TransferInv, Next,
                      resumeFile # NoResume, resumeFile' = NoResume, outOk
               PROVE  \A i \in (1..offer.total) \ resumed :
                        disk[i] = ReadChunk(offer.hashes, i)
    BY DEF vars, recvVars
  <2>1. rpc = "remove"
    BY NoResumeAssumption
       DEF Next, SenderStep, ReceiverStep, Answer, Environment, recvVars,
           RecvOffer, ConfirmYes, ConfirmNo, OpenAndResume, RecvChunk,
           RejectChunk, SaveTruncate, SaveWrite, SendAck, CloseFile,
           RemoveResume, RecvLosesPeer, FailRecv, Die, Connect, StartRecv,
           EditSource, SenderCrash, ReceiverCrash, Reset, GoSilent, Breaks,
           LinkTimesOut, DiskFails, TypeOK, RecvTypeOK
  <2>2. unflushed = NoChunk /\ 1..offer.total \subseteq bitmap
    BY <2>1 DEF TransferInv, StreamInv, LoopInv, Looping, Saving
  <2>3. \A i \in Slots : View(i) = disk[i]
    BY <2>2 DEF View, NoChunk, Slots
  <2> QED
    BY <2>1, <2>2, <2>3 DEF TransferInv, HeldChunksMatch, TypeOK, RecvTypeOK
<1> QED
  BY <1>1, TransferInvHolds, PTL DEF Spec, RemovedOnlyWhenWhole

-----------------------------------------------------------------------------
(* The two loops.                                                          *)

\* Steps of the sender that leave the loops as they are.
LEMMA AlignSame ==
  ASSUME AlignInv,
         UNCHANGED <<manifest, total, si, remoteBitmap, rpc, offer, bitmap, resumed, ri>>,
         toReceiver' \in {toReceiver, <<>>},
         \/ spc' \in {spc, "failed", "sent"}
         \/ spc = "response" /\ spc' = "bitmap"
  PROVE  AlignInv'
BY DEF AlignInv, OneFrameUnderWay, NoneAhead, AlignedLoops, IsNext, Looping, Saving

LEMMA AlignSendChunk ==
  ASSUME TypeOK, TransferInv, AlignInv, SendChunk, UNCHANGED recvVars
  PROVE  AlignInv'
<1> USE DEF recvVars
<1>1. PICK i \in Slots :
        /\ IsNext(i, si, remoteBitmap, total)
        /\ si' = i
        /\ toReceiver' = Put(toReceiver, Chunk(ReadChunk(src, i)))
  BY DEF SendChunk
<1>2. /\ spc = "loop" /\ spc' = "ack"
      /\ UNCHANGED <<manifest, total, remoteBitmap>>
  BY DEF SendChunk
<1>3. /\ toReceiver = <<>> /\ rpc \notin Saving \cup {"offer", "confirm"}
      /\ link = "up" => rpc # "open"
      /\ 1..(si - 1) \subseteq bitmap /\ remoteBitmap \subseteq bitmap
      /\ offer.total = total
  BY <1>2 DEF TransferInv, SessionInv, InLoop, Quiet, Agreed
<1>4. /\ si \in 1..(MaxChunks + 1) /\ ri \in 1..(MaxChunks + 1)
      /\ total \in Nat /\ MaxChunks \in Nat
  BY ChunkedFileAssumption DEF TypeOK, SendTypeOK, RecvTypeOK
<1>5. i \in si..total /\ i \notin remoteBitmap /\ \A k \in si..(i - 1) : k \in remoteBitmap
  BY <1>1 DEF IsNext
<1>6. OneFrameUnderWay'
  <2>1. toReceiver' = IF link = "up" THEN <<Chunk(ReadChunk(src, i))>> ELSE <<>>
    BY <1>1, <1>3, PutCases
  <2>2. ReadChunk(src, i) \in Blobs \cup {NoData}
    BY FileFacts DEF TypeOK, SendTypeOK
  <2> QED
    BY <1>2, <1>3, <2>1, <2>2 DEF OneFrameUnderWay, Saving
<1>7. ASSUME remoteBitmap = resumed, rpc \in Looping
      PROVE  bitmap \subseteq resumed \cup 1..(i - 1)
  <2>1. bitmap \subseteq resumed \cup 1..(si - 1)
    BY <1>2, <1>7 DEF AlignInv, NoneAhead
  <2> QED
    BY <1>4, <1>5, <2>1
<1>8. NoneAhead'
  BY <1>1, <1>2, <1>7 DEF NoneAhead, Slots
<1>9. AlignedLoops'
  <2> SUFFICES ASSUME rpc = "loop", remoteBitmap = resumed
               PROVE  IsNext(i, ri, bitmap, offer.total)
    BY <1>1, <1>2 DEF AlignedLoops, IsNext
  <2>1. i \notin bitmap
    BY <1>4, <1>5, <1>7 DEF Looping
  <2>2. 1..(i - 1) \subseteq bitmap
    BY <1>3, <1>4, <1>5
  <2>3. 1..(ri - 1) \subseteq bitmap
    BY DEF TransferInv, LoopInv, Looping
  <2>4. ri <= i
    BY <1>4, <1>5, <2>1, <2>3
  <2> QED
    BY <1>3, <1>4, <1>5, <2>1, <2>2, <2>4 DEF IsNext
<1> QED
  BY <1>6, <1>8, <1>9 DEF AlignInv

LEMMA AlignSender ==
  ASSUME TypeOK, TransferInv, AlignInv, SenderStep, UNCHANGED recvVars
  PROVE  AlignInv'
<1> USE DEF recvVars, sendVars, linkVars
<1>1. CASE GenerateManifest \/ SendOffer
  <2>1. toReceiver = <<>> /\ rpc \in {"offer", "failed", "crashed"}
    BY <1>1 DEF GenerateManifest, SendOffer, TransferInv, SessionInv, BeforeOffer
  <2>2. toReceiver' \in {<<>>, <<Offer(manifest', total')>>}
    <3>1. CASE GenerateManifest
      BY <2>1, <3>1 DEF GenerateManifest
    <3>2. CASE SendOffer
      BY <2>1, <3>2, PutCases DEF SendOffer
    <3> QED
      BY <1>1, <3>1, <3>2
  <2> QED
    BY <2>1, <2>2 DEF AlignInv, OneFrameUnderWay, NoneAhead, AlignedLoops, Looping, Saving
<1>2. CASE RecvBitmap \/ BitmapFails
  <2>1. spc = "bitmap" /\ spc' = "loop" /\ UNCHANGED <<manifest, total, toReceiver>>
    BY <1>2 DEF RecvBitmap, BitmapFails, StartLoop
  <2>2. toReceiver = <<>>
    BY <2>1 DEF TransferInv, SessionInv, AwaitingBitmap
  <2> QED
    BY <2>1, <2>2 DEF AlignInv, OneFrameUnderWay, NoneAhead, AlignedLoops
<1>3. CASE SendChunk
  BY <1>3, AlignSendChunk
<1>4. CASE RecvAck
  <2>1. CASE spc' = "failed"
    BY <1>4, <2>1, AlignSame DEF RecvAck
  <2>2. CASE si' = si + 1 /\ spc' = "loop"
    <3>1. /\ spc = "ack" /\ si' - 1 = si
          /\ UNCHANGED <<manifest, total, remoteBitmap, toReceiver>>
      BY <1>4, <2>2 DEF RecvAck, TypeOK, SendTypeOK
    <3>2. toReceiver = <<>>
      <4>1. PICK r \in Reads(toSender) : r.msg = ChunkAck
        BY <1>4, <2>2 DEF RecvAck
      <4>2. toSender \notin {<<>>, <<Garbled>>, <<Garbled, ChunkAck>>}
        BY <4>1, ReadsNone, ReadsOne, ReadsTwo, GarbledApart
      <4> QED
        BY <3>1, <4>2 DEF TransferInv, SessionInv, OneToken, AckUnderWay
    <3> QED
      BY <2>2, <3>1, <3>2 DEF AlignInv, OneFrameUnderWay, NoneAhead, AlignedLoops
  <2> QED
    BY <1>4, <2>1, <2>2 DEF RecvAck
<1>5. CASE \/ ManifestFails \/ RecvResponse \/ SwallowGarbled \/ SendDone \/ SendLosesPeer
  BY <1>5, AlignSame
     DEF ManifestFails, RecvResponse, SwallowGarbled, SendDone, SendLosesPeer
<1> QED
  BY <1>1, <1>2, <1>3, <1>4, <1>5 DEF SenderStep

LEMMA AlignRecvChunk ==
  ASSUME TypeOK, TransferInv, AlignInv, RecvChunk, UNCHANGED sendVars
  PROVE  AlignInv'
<1> USE DEF sendVars
<1>1. PICK i \in Slots, r \in Reads(toReceiver) :
        /\ IsNext(i, ri, bitmap, offer.total)
        /\ bitmap' = bitmap \cup {i}
        /\ toReceiver' = r.rest
  BY DEF RecvChunk
<1>2. rpc = "loop" /\ rpc' = "save" /\ UNCHANGED <<offer, resumed>>
  BY DEF RecvChunk
<1>3. toReceiver # <<>>
  BY ReadsNone
<1>4. toReceiver' = <<>>
  <2>1. PICK d \in Blobs \cup {NoData} : toReceiver = <<Chunk(d)>>
    BY <1>2, <1>3 DEF AlignInv, OneFrameUnderWay
  <2> QED
    BY <1>1, <2>1, ReadsOne, GarbledApart
<1>5. spc \notin {"response", "bitmap", "loop"}
  BY <1>2, <1>3
     DEF TransferInv, SessionInv, BeforeOffer, AfterOffer, AwaitingBitmap, Quiet
<1>6. ASSUME spc = "ack", remoteBitmap = resumed
      PROVE  bitmap' \subseteq resumed \cup 1..si
  <2>1. IsNext(si, ri, bitmap, offer.total)
    BY <1>2, <1>3, <1>6 DEF AlignInv, AlignedLoops
  <2>2. ri \in Nat /\ si \in Nat /\ offer.total \in Nat
    BY ChunkedFileAssumption DEF TypeOK, SendTypeOK, RecvTypeOK
  <2>3. i = si
    BY <1>1, <2>1, <2>2 DEF IsNext
  <2>4. bitmap \subseteq resumed \cup 1..si /\ si \in 1..si
    BY <1>2, <1>6, <2>3 DEF AlignInv, NoneAhead, Looping, Slots
  <2> QED
    BY <1>1, <2>3, <2>4
<1> QED
  BY <1>2, <1>4, <1>5, <1>6 DEF AlignInv, OneFrameUnderWay, NoneAhead, AlignedLoops

LEMMA AlignReceiver ==
  ASSUME TypeOK, TransferInv, AlignInv, ReceiverStep \/ Answer, UNCHANGED sendVars
  PROVE  AlignInv'
<1> USE DEF sendVars, linkVars
<1>1. CASE RecvOffer
  <2>1. PICK r \in Reads(toReceiver) : toReceiver' = r.rest
    BY <1>1 DEF RecvOffer
  <2>2. toReceiver = <<Offer(manifest, total)>>
    BY <1>1, ReadsNone DEF RecvOffer, AlignInv, OneFrameUnderWay
  <2>3. toReceiver' = <<>>
    BY <2>1, <2>2, ReadsOne, GarbledApart
  <2> QED
    BY <1>1, <2>3
       DEF RecvOffer, AlignInv, OneFrameUnderWay, NoneAhead, AlignedLoops, Looping, Saving
<1>2. CASE OpenAndResume
  <2>1. /\ toReceiver = <<>> /\ toReceiver' = <<>>
        /\ rpc' = "loop" /\ bitmap' = resumed'
    BY <1>2 DEF OpenAndResume, AlignInv, OneFrameUnderWay
  <2> QED
    BY <2>1 DEF AlignInv, OneFrameUnderWay, NoneAhead, AlignedLoops
<1>3. CASE RecvChunk
  BY <1>3, AlignRecvChunk
<1>4. CASE SaveTruncate \/ SaveWrite \/ SendAck \/ ConfirmYes
  <2>1. /\ \/ rpc \in Saving /\ rpc' \in Looping
           \/ rpc = "confirm" /\ rpc' = "open"
        /\ UNCHANGED <<toReceiver, bitmap, resumed, offer>>
    BY <1>4 DEF SaveTruncate, SaveWrite, SendAck, ConfirmYes, Looping, Saving
  <2>2. toReceiver = <<>>
    BY <2>1 DEF AlignInv, OneFrameUnderWay
  <2> QED
    BY <2>1, <2>2
       DEF AlignInv, OneFrameUnderWay, NoneAhead, AlignedLoops, Looping, Saving
<1>5. CASE RejectChunk \/ CloseFile \/ RemoveResume \/ RecvLosesPeer \/ ConfirmNo
  <2>1. rpc' \in {"failed", "crashed", "remove", "done"}
    BY <1>5
       DEF RejectChunk, CloseFile, RemoveResume, RecvLosesPeer, ConfirmNo, FailRecv, Die
  <2> QED
    BY <2>1 DEF AlignInv, OneFrameUnderWay, NoneAhead, AlignedLoops, Looping, Saving
<1> QED
  BY <1>1, <1>2, <1>3, <1>4, <1>5 DEF ReceiverStep, Answer

LEMMA AlignNext == TypeOK /\ TransferInv /\ AlignInv /\ [Next]_vars => AlignInv'
<1> SUFFICES ASSUME TypeOK, TransferInv, AlignInv, [Next]_vars PROVE AlignInv'
  OBVIOUS
<1> USE DEF sendVars, recvVars, linkVars
<1>1. CASE SenderStep /\ UNCHANGED recvVars
  BY <1>1, AlignSender
<1>2. CASE (ReceiverStep \/ Answer) /\ UNCHANGED sendVars
  BY <1>2, AlignReceiver
<1>3. CASE Connect
  BY <1>3
     DEF Connect, StartRecv, AlignInv, OneFrameUnderWay, NoneAhead, AlignedLoops,
         Looping, Saving
<1>4. CASE EditSource \/ SenderCrash \/ LinkTimesOut \/ DiskFails \/ UNCHANGED vars
  BY <1>4, AlignSame DEF EditSource, SenderCrash, LinkTimesOut, DiskFails, vars
<1>5. CASE ReceiverCrash
  BY <1>5
     DEF ReceiverCrash, Die, AlignInv, OneFrameUnderWay, NoneAhead, AlignedLoops,
         Looping, Saving
<1>6. CASE Reset \/ GoSilent
  <2>1. toReceiver' \in CutsOf(toReceiver) /\ UNCHANGED <<sendVars, recvVars>>
    BY <1>6 DEF Reset, GoSilent, Breaks, CutsOf
  <2>2. toReceiver = <<>> => toReceiver' = <<>>
    BY <2>1, CutShort
  <2>3. \A m : toReceiver = <<m>> => toReceiver' \in {<<>>, <<m>>}
    BY <2>1, CutShort, Zenon
  <2>4. CASE toReceiver' \in {toReceiver, <<>>}
    BY <2>1, <2>4, AlignSame
  <2>5. CASE toReceiver' \notin {toReceiver, <<>>}
    <3>1. /\ rpc # "loop" /\ rpc # "offer"
          /\ rpc \notin {"confirm", "open"} \cup Saving
      BY <2>2, <2>3, <2>5 DEF AlignInv, OneFrameUnderWay
    <3> QED
      BY <2>1, <3>1
         DEF AlignInv, OneFrameUnderWay, NoneAhead, AlignedLoops, Looping, Saving
  <2> QED
    BY <2>4, <2>5
<1> QED
  BY <1>1, <1>2, <1>3, <1>4, <1>5, <1>6 DEF Next, Environment

LEMMA AlignInvHolds == Spec => []AlignInv
<1>1. Init => AlignInv
  BY DEF Init, SendInit, RecvInit, AlignInv, OneFrameUnderWay, NoneAhead,
         AlignedLoops, Looping, Saving
<1> QED
  BY <1>1, AlignNext, TransferInvHolds, PTL DEF Spec

\* If the bitmap arrived, the chunk in flight is the one the receiver's loop
\* takes it for.
THEOREM AlignedLoopsHolds == Spec => []AlignedLoops
<1>1. AlignInv => AlignedLoops
  BY DEF AlignInv
<1> QED
  BY <1>1, AlignInvHolds, PTL
-----------------------------------------------------------------------------
(* What resuming promises, when the file that is sent never changes, the   *)
(* receiver's disk takes every write, and no chunk is short enough to stay *)
(* in a stream buffer.  The processes may be killed, the connection may    *)
(* break and frames may be lost to coalesced reads, at any time and any    *)
(* number of times.                                                        *)

Steady == "edit" \notin Faults /\ "disk" \notin Faults /\ Short = {}

\* All that is ever offered is the file as it is.
TheOffer == [hashes |-> src, total |-> Len(src)]
SteadyFrames ==
  {Offer(src, Len(src)), Garbled}
    \cup [type : {"CHUNK_DATA"}, data : Blobs \cup {NoData}]

\* What is marked, in memory or in the resume file, is in the file.
SteadyInv ==
  /\ outOk
  /\ unflushed = NoChunk
  /\ manifest = src
  /\ toReceiver \in Seq(SteadyFrames)
  /\ offer \in {NoOffer, TheOffer}
  /\ rpc \in Looping \cup {"confirm", "open", "remove", "done"} => offer = TheOffer
  /\ \A i \in bitmap : disk[i] = ReadChunk(src, i)
  /\ ResumeSound

LEMMA SteadyInit == ASSUME Init PROVE SteadyInv
BY DEF Init, SendInit, RecvInit, SteadyInv, ResumeSound, Looping, Saving

\* Steps of the receiver that leave the stream closed, the offer and the
\* queue alone, and record nothing new.
LEMMA SteadySame ==
  ASSUME SteadyInv,
         UNCHANGED <<src, manifest, toReceiver, offer, outOk, unflushed, disk>>,
         bitmap' = bitmap,
         resumeFile' \in {resumeFile, NoResume, {}, bitmap},
         rpc' \in Looping \cup {"confirm", "open", "remove", "done"} =>
           rpc \in Looping \cup {"confirm", "open", "remove", "done"}
  PROVE  SteadyInv'
BY DEF SteadyInv, SteadyFrames, TheOffer, ResumeSound, Looping, Saving

LEMMA SteadySender ==
  ASSUME Steady, TypeOK, SteadyInv, SenderStep, UNCHANGED recvVars
  PROVE  SteadyInv'
<1> USE DEF recvVars, sendVars, linkVars
<1>1. CASE SendOffer
  <2>1. toReceiver' \in Seq(SteadyFrames)
    <3>1. Offer(manifest, Len(src)) \in SteadyFrames
      BY DEF SteadyInv, SteadyFrames
    <3> QED
      BY <1>1, <3>1, PutType DEF SendOffer, SteadyInv
  <2> QED
    BY <1>1, <2>1
       DEF SendOffer, SteadyInv, SteadyFrames, TheOffer, ResumeSound
<1>2. CASE SendChunk
  <2>1. PICK i \in Slots : toReceiver' = Put(toReceiver, Chunk(ReadChunk(src, i)))
    BY <1>2 DEF SendChunk
  <2>2. Chunk(ReadChunk(src, i)) \in SteadyFrames
    BY FileFacts DEF TypeOK, SendTypeOK, SteadyFrames, Chunk
  <2>3. toReceiver' \in Seq(SteadyFrames)
    BY <2>1, <2>2, PutType DEF SteadyInv
  <2> QED
    BY <1>2, <2>3
       DEF SendChunk, SteadyInv, SteadyFrames, TheOffer, ResumeSound
<1>3. CASE \/ GenerateManifest \/ ManifestFails \/ RecvResponse \/ RecvBitmap
           \/ BitmapFails \/ SwallowGarbled \/ RecvAck \/ SendDone
           \/ SendLosesPeer
  <2>1. UNCHANGED <<src, toReceiver>> /\ manifest' = src
    BY <1>3
       DEF GenerateManifest, ManifestFails, RecvResponse, RecvBitmap,
           BitmapFails, SwallowGarbled, RecvAck, SendDone, SendLosesPeer,
           StartLoop, SteadyInv
  <2> QED
    BY <2>1 DEF SteadyInv, SteadyFrames, TheOffer, ResumeSound
<1> QED
  BY <1>1, <1>2, <1>3 DEF SenderStep

LEMMA SteadyRecvChunk ==
  ASSUME Steady, TypeOK, TransferInv, SteadyInv, RecvChunk, UNCHANGED sendVars
  PROVE  SteadyInv'
<1> USE DEF sendVars
<1>1. PICK i \in Slots, r \in Reads(toReceiver) :
        /\ HashMatches(r.msg.data, i)
        /\ WriteChunk(i, r.msg.data)
        /\ bitmap' = bitmap \cup {i}
        /\ toReceiver' = r.rest
  BY DEF RecvChunk
<1>2. /\ rpc = "loop"
      /\ rpc' = "save"
      /\ UNCHANGED <<offer, outOk, resumeFile>>
  BY DEF RecvChunk
<1>3. offer = TheOffer
  BY <1>2 DEF SteadyInv, Looping
<1>4. r.msg.data \in Blobs /\ r.msg.data = ReadChunk(src, i)
  BY <1>1, <1>3, VerifiedType DEF TypeOK, TheOffer
<1>5. disk' = [disk EXCEPT ![i] = r.msg.data] /\ unflushed' = NoChunk
  BY <1>1 DEF WriteChunk, Flushed, SteadyInv, Steady
<1>6. \A j \in Slots : disk'[j] = IF j = i THEN ReadChunk(src, i) ELSE disk[j]
  BY <1>4, <1>5 DEF TypeOK, RecvTypeOK
<1>7. toReceiver' \in Seq(SteadyFrames)
  BY <1>1, ReadsType, Garbled \in SteadyFrames DEF SteadyInv, SteadyFrames
<1>8. ResumeSound'
  BY <1>2, <1>6 DEF SteadyInv, ResumeSound, TypeOK, RecvTypeOK
<1>9. \A j \in bitmap' : disk'[j] = ReadChunk(src, j)
  BY <1>1, <1>6 DEF SteadyInv, TypeOK, RecvTypeOK
<1>10. src' = src
  OBVIOUS
<1> QED
  BY <1>2, <1>3, <1>5, <1>7, <1>8, <1>9, <1>10
     DEF SteadyInv, SteadyFrames, TheOffer, Looping, Saving

LEMMA SteadyReceiver ==
  ASSUME Steady, TypeOK, TransferInv, SteadyInv, ReceiverStep \/ Answer,
         UNCHANGED sendVars
  PROVE  SteadyInv'
<1> USE DEF sendVars, linkVars
<1>s. SteadyFrames' = SteadyFrames /\ TheOffer' = TheOffer
  BY DEF SteadyFrames, TheOffer
<1>q. ASSUME NEW r \in Reads(toReceiver)
      PROVE  r.msg \in SteadyFrames /\ r.rest \in Seq(SteadyFrames)
  BY ReadsType, Garbled \in SteadyFrames DEF SteadyInv, SteadyFrames
<1>d. Flushed = disk /\ unflushed = NoChunk
  BY DEF Flushed, SteadyInv
<1>1. CASE RecvOffer
  <2>1. PICK r \in Reads(toReceiver) :
          /\ r.msg.type = "FILE_OFFER"
          /\ offer' = [hashes |-> r.msg.hashes, total |-> r.msg.total]
          /\ toReceiver' = r.rest
    BY <1>1 DEF RecvOffer
  <2>2. r.msg = Offer(src, Len(src))
    BY <2>1, <1>q DEF SteadyFrames, Garbled
  <2>3. offer' = TheOffer
    BY <2>1, <2>2 DEF Offer, TheOffer
  <2> QED
    BY <1>1, <1>s, <1>q, <2>1, <2>3 DEF RecvOffer, SteadyInv, ResumeSound
<1>2. CASE OpenAndResume
  <2>1. bitmap' = Loaded(offer.total) /\ outOk' = TRUE
    BY <1>2 DEF OpenAndResume, Steady
  <2>2. \A i \in bitmap' : disk[i] = ReadChunk(src, i)
    BY <2>1 DEF Loaded, SteadyInv, ResumeSound
  <2> QED
    BY <1>2, <1>s, <2>1, <2>2
       DEF OpenAndResume, SteadyInv, ResumeSound, Looping, Saving
<1>3. CASE RecvChunk
  BY <1>3, SteadyRecvChunk
<1>4. CASE RejectChunk
  <2>1. PICK r \in Reads(toReceiver) : toReceiver' = r.rest
    BY <1>4 DEF RejectChunk
  <2>2. FailRecv \/ Die
    BY <1>4 DEF RejectChunk
  <2>3. /\ rpc' \in {"failed", "crashed"}
        /\ UNCHANGED <<offer, bitmap, outOk, disk, resumeFile>>
        /\ unflushed' = NoChunk
    BY <1>d, <2>2 DEF FailRecv, Die, CloseStream
  <2>4. toReceiver' \in Seq(SteadyFrames')
    BY <1>q, <1>s, <2>1
  <2>5. UNCHANGED <<src, manifest>>
    OBVIOUS
  <2>6. ResumeSound'
    BY <2>3, <2>5 DEF SteadyInv, ResumeSound
  <2>7. offer' \in {NoOffer, TheOffer'}
    BY <1>s, <2>3 DEF SteadyInv
  <2> QED
    BY <2>3, <2>4, <2>5, <2>6, <2>7 DEF SteadyInv, Looping, Saving
<1>5. CASE ConfirmNo \/ RecvLosesPeer
  BY <1>5, <1>d, SteadySame
     DEF ConfirmNo, RecvLosesPeer, FailRecv, CloseStream, Looping, Saving
<1>6. CASE ConfirmYes
  BY <1>6, SteadySame DEF ConfirmYes
<1>7. CASE SaveTruncate
  BY <1>7, SteadySame DEF SaveTruncate, Looping, Saving
<1>8. CASE SaveWrite
  BY <1>8, SteadySame DEF SaveWrite, Looping, Saving
<1>9. CASE SendAck
  BY <1>9, SteadySame DEF SendAck, Looping, Saving
<1>10. CASE CloseFile
  BY <1>10, <1>d, SteadySame DEF CloseFile, CloseStream, SteadyInv, Looping, Saving
<1>11. CASE RemoveResume
  BY <1>11, SteadySame DEF RemoveResume
<1> QED
  BY <1>1, <1>2, <1>3, <1>4, <1>5, <1>6, <1>7, <1>8, <1>9, <1>10, <1>11
     DEF ReceiverStep, Answer

LEMMA SteadyEnvironment ==
  ASSUME Steady, TypeOK, SteadyInv, Environment
  PROVE  SteadyInv'
<1> USE DEF sendVars, recvVars, linkVars
<1>1. CASE Connect
  BY <1>1
     DEF Connect, StartRecv, SteadyInv, SteadyFrames, TheOffer, ResumeSound,
         Looping, Saving
<1>2. CASE SenderCrash \/ LinkTimesOut
  BY <1>2, SteadySame DEF SenderCrash, LinkTimesOut
<1>3. CASE ReceiverCrash
  BY <1>3, SteadySame DEF ReceiverCrash, Die, SteadyInv, Looping, Saving
<1>4. CASE Reset \/ GoSilent
  <2>1. Breaks
    BY <1>4 DEF Reset, GoSilent
  <2>2. toReceiver' \in Seq(SteadyFrames)
    BY <2>1, BreaksType DEF Breaks, SteadyInv
  <2> QED
    BY <2>1, <2>2
       DEF Breaks, SteadyInv, SteadyFrames, TheOffer, ResumeSound
<1>5. ~EditSource /\ ~DiskFails
  BY DEF EditSource, DiskFails, Steady
<1> QED
  BY <1>1, <1>2, <1>3, <1>4, <1>5 DEF Environment

LEMMA SteadyNext ==
  ASSUME Steady, TypeOK, TransferInv, SteadyInv, [Next]_vars
  PROVE  SteadyInv'
<1>1. CASE SenderStep /\ UNCHANGED recvVars
  BY <1>1, SteadySender
<1>2. CASE (ReceiverStep \/ Answer) /\ UNCHANGED sendVars
  BY <1>2, SteadyReceiver
<1>3. CASE Environment
  BY <1>3, SteadyEnvironment
<1>4. CASE UNCHANGED vars
  BY <1>4, SteadySame DEF vars, linkVars, sendVars, recvVars
<1> QED
  BY <1>1, <1>2, <1>3, <1>4 DEF Next

THEOREM SteadyHolds ==
  ASSUME Steady
  PROVE  Spec => [](TypeOK /\ TransferInv /\ SteadyInv)
<1>1. Init => SteadyInv
  BY SteadyInit
<1>2. TypeOK /\ TransferInv /\ SteadyInv /\ [Next]_vars => SteadyInv'
  BY SteadyNext
<1> QED
  BY <1>1, <1>2, TransferInvHolds, PTL DEF Spec

\* What the resume file records is in the downloaded file: after any number
\* of kills and lost connections, a chunk that is skipped is a chunk held.
THEOREM ResumeSoundHolds == Steady => (Spec => []ResumeSound)
<1> SUFFICES ASSUME Steady PROVE Spec => []ResumeSound
  OBVIOUS
<1>1. TypeOK /\ TransferInv /\ SteadyInv => ResumeSound
  BY DEF SteadyInv
<1> QED
  BY <1>1, SteadyHolds, PTL

\* When recvFile returns true the downloaded file has the chunks offered,
\* resumed ones included.
THEOREM DoneMeansOfferedHolds == Steady => (Spec => []DoneMeansOffered)
<1> SUFFICES ASSUME Steady PROVE Spec => []DoneMeansOffered
  OBVIOUS
<1>1. TypeOK /\ TransferInv /\ SteadyInv => DoneMeansOffered
  <2> SUFFICES ASSUME TypeOK, TransferInv, SteadyInv, rpc = "done",
                      NEW i \in 1..offer.total
               PROVE  disk[i] = ReadChunk(offer.hashes, i)
    BY DEF DoneMeansOffered
  <2>1. offer = TheOffer /\ i \in bitmap
    BY DEF SteadyInv, TransferInv, LoopInv
  <2> QED
    BY <2>1 DEF SteadyInv, TheOffer
<1> QED
  BY <1>1, SteadyHolds, PTL
=============================================================================
