-------------------------- MODULE RefinementProofs --------------------------
(***************************************************************************)
(* FileTransfer implements Download, for every file, every number of       *)
(* chunks and every set of faults.                                         *)
(***************************************************************************)
EXTENDS FileTransferProofs, TransferRefinement

Inv == TypeOK /\ TransferInv /\ AlignInv /\ RefinementInv

-----------------------------------------------------------------------------
(* The invariant.                                                          *)

LEMMA RefinementInit == Init => RefinementInv
BY DEF Init, SendInit, RecvInit, RefinementInv

LEMMA RefinementSender ==
  ASSUME Inv, SenderStep, UNCHANGED recvVars
  PROVE  RefinementInv'
<1> USE DEF Inv, recvVars, sendVars, linkVars
<1>1. CASE GenerateManifest
  BY <1>1 DEF GenerateManifest, RefinementInv, TransferInv, SessionInv, BeforeOffer
<1>2. CASE SendOffer
  BY <1>2 DEF SendOffer, RefinementInv
<1>3. CASE SendChunk
  BY <1>3 DEF SendChunk, RefinementInv
<1>4. CASE \/ ManifestFails \/ RecvResponse \/ RecvBitmap \/ BitmapFails
           \/ SwallowGarbled \/ RecvAck \/ SendDone \/ SendLosesPeer
  <2>1. /\ UNCHANGED <<manifest, total, toReceiver>>
        /\ spc' = spc \/ spc' \notin {"manifest", "offer"}
    BY <1>4
       DEF ManifestFails, RecvResponse, RecvBitmap, BitmapFails, StartLoop,
           SwallowGarbled, RecvAck, SendDone, SendLosesPeer
  <2> QED
    BY <2>1 DEF RefinementInv
<1> QED
  BY <1>1, <1>2, <1>3, <1>4 DEF SenderStep

LEMMA BufferedShort ==
  ASSUME NEW i, NEW d, WriteChunk(i, d), RefinementInv
  PROVE  unflushed' # NoChunk => unflushed'.data \in Short
BY DEF WriteChunk, RefinementInv

LEMMA RefinementReceiver ==
  ASSUME Inv, ReceiverStep \/ Answer, UNCHANGED sendVars
  PROVE  RefinementInv'
<1> USE DEF Inv, sendVars, linkVars
<1>1. CASE RecvOffer
  <2>1. spc \notin {"manifest", "offer"}
    BY <1>1, ReadsNone DEF RecvOffer, TransferInv, SessionInv
  <2> QED
    BY <1>1, <2>1 DEF RecvOffer, RefinementInv
<1>2. CASE RecvChunk
  <2>1. PICK i \in Slots, r \in Reads(toReceiver) : WriteChunk(i, r.msg.data)
    BY <1>2 DEF RecvChunk
  <2>2. unflushed' # NoChunk => unflushed'.data \in Short
    BY <2>1, BufferedShort
  <2> QED
    BY <1>2, <2>2 DEF RecvChunk, RefinementInv
<1>3. CASE \/ OpenAndResume \/ RejectChunk \/ SaveTruncate \/ SaveWrite \/ SendAck
           \/ CloseFile \/ RemoveResume \/ RecvLosesPeer \/ ConfirmYes \/ ConfirmNo
  <2>1. /\ offer' = offer
        /\ rpc' # "offer"
        /\ unflushed' \in {unflushed, NoChunk}
    <3>1. CASE RejectChunk
      BY <3>1 DEF RejectChunk, FailRecv, CloseStream, Die
    <3>2. CASE SaveTruncate \/ SaveWrite \/ SendAck \/ RemoveResume
      BY <3>2 DEF SaveTruncate, SaveWrite, SendAck, RemoveResume
    <3>3. CASE OpenAndResume \/ CloseFile \/ ConfirmYes
      BY <3>3 DEF OpenAndResume, CloseFile, CloseStream, ConfirmYes
    <3>4. CASE RecvLosesPeer \/ ConfirmNo
      BY <3>4 DEF RecvLosesPeer, ConfirmNo, FailRecv, CloseStream
    <3> QED
      BY <1>3, <3>1, <3>2, <3>3, <3>4
  <2> QED
    BY <2>1 DEF RefinementInv
<1> QED
  BY <1>1, <1>2, <1>3 DEF ReceiverStep, Answer

LEMMA RefinementNext == Inv /\ [Next]_vars => RefinementInv'
<1> SUFFICES ASSUME Inv, [Next]_vars PROVE RefinementInv'
  OBVIOUS
<1> USE DEF sendVars, recvVars, linkVars
<1>1. CASE SenderStep /\ UNCHANGED recvVars
  BY <1>1, RefinementSender
<1>2. CASE (ReceiverStep \/ Answer) /\ UNCHANGED sendVars
  BY <1>2, RefinementReceiver
<1>3. CASE Connect
  BY <1>3 DEF Connect, StartRecv, RefinementInv
<1>4. CASE EditSource \/ SenderCrash \/ LinkTimesOut \/ Reset \/ GoSilent \/ UNCHANGED vars
  BY <1>4
     DEF EditSource, SenderCrash, LinkTimesOut, Reset, GoSilent, Breaks, vars,
         RefinementInv, Inv
<1>5. CASE ReceiverCrash \/ DiskFails
  BY <1>5 DEF ReceiverCrash, Die, DiskFails, RefinementInv, Inv, Looping, Saving
<1> QED
  BY <1>1, <1>2, <1>3, <1>4, <1>5 DEF Next, Environment

LEMMA InvHolds == Spec => []Inv
<1>1. Inv /\ [Next]_vars => RefinementInv'
  BY RefinementNext
<1> QED
  BY <1>1, RefinementInit, TransferInvHolds, AlignInvHolds, PTL DEF Spec, Inv

-----------------------------------------------------------------------------
(* The steps.                                                              *)

LEMMA SeenSame ==
  ASSUME \A i \in Slots : View(i)' = View(i)
  PROVE  Seen' = Seen
BY DEF Seen

\* What the kill or the full disk takes is the chunk in the stream buffer.
LEMMA SeenLoses ==
  ASSUME Inv, rpc # "crashed", disk' = disk, unflushed' = NoChunk
  PROVE  \/ Seen' = Seen
         \/ \E i \in bitmap \ resumed : \E d \in Blobs \cup {NoData} :
              Seen[i] \in Short /\ Seen' = [Seen EXCEPT ![i] = d]
<1> USE DEF Inv
<1>0. 0 \notin Slots /\ disk \in [Slots -> Blobs \cup {NoData}]
  BY DEF Slots, TypeOK, RecvTypeOK
<1>1. \A i \in Slots : View(i)' = disk[i]
  BY <1>0 DEF View, NoChunk
<1>2. CASE unflushed = NoChunk
  BY <1>0, <1>1, <1>2, SeenSame DEF View, NoChunk
<1>3. CASE unflushed # NoChunk
  <2> DEFINE i == unflushed.idx
  <2>1. i \in bitmap \ resumed /\ unflushed.data \in Short
    BY <1>3 DEF TransferInv, StreamInv, RefinementInv
  <2>2. i \in Slots
    BY <2>1 DEF TypeOK, RecvTypeOK
  <2>3. Seen[i] \in Short
    BY <2>1, <2>2 DEF Seen, View
  <2>4. \A j \in Slots : View(j)' = IF j = i THEN disk[i] ELSE View(j)
    BY <1>1 DEF View
  <2>5. Seen' = [Seen EXCEPT ![i] = disk[i]]
    BY <2>4 DEF Seen
  <2> QED
    BY <1>0, <2>1, <2>2, <2>3, <2>5
<1> QED
  BY <1>2, <1>3

LEMMA SenderRefines ==
  ASSUME Inv, SenderStep, UNCHANGED recvVars
  PROVE  [D!Next]_(D!vars)
<1> USE DEF Inv, recvVars, sendVars, linkVars
<1>0. /\ UNCHANGED <<ReceiverOutcome, offer, resumed, bitmap, resumeFile, outOk>>
      /\ Seen' = Seen
  BY SeenSame DEF ReceiverOutcome, View
<1>1. CASE GenerateManifest \/ SendOffer
  <2>1. /\ offer = NoOffer
        /\ SenderOutcome = "on" /\ SenderOutcome' = "on"
    BY <1>1 DEF GenerateManifest, SendOffer, RefinementInv, SenderOutcome
  <2>2. manifest' \in Files /\ total' \in 0..MaxChunks
    BY <1>1, FileFacts DEF GenerateManifest, SendOffer, TypeOK, SendTypeOK
  <2>3. D!Prepare
    BY <1>0, <2>1, <2>2 DEF D!Prepare, D!Nothing, D!Offers, NoOffer
  <2> QED
    BY <2>3 DEF D!Next
<1>2. CASE SendDone
  <2>1. /\ spc = "loop" /\ spc' = "sent"
        /\ UNCHANGED <<manifest, total>>
        /\ NoneLeft(si, remoteBitmap, total)
    BY <1>2 DEF SendDone
  <2>2. /\ Agreed
        /\ remoteBitmap \subseteq bitmap /\ 1..(si - 1) \subseteq bitmap
    BY <2>1 DEF TransferInv, SessionInv, InLoop
  <2>3. 1..total \subseteq bitmap
    BY <2>1, <2>2 DEF NoneLeft, TypeOK, SendTypeOK
  <2>4. 1..total \subseteq resumed \cup (bitmap \ resumed)
    BY <2>3
  <2>5. D!SenderSucceeds
    BY <1>0, <2>1, <2>2, <2>4 DEF D!SenderSucceeds, D!With, SenderOutcome, Agreed
  <2> QED
    BY <2>5 DEF D!Next
<1>3. CASE \/ ManifestFails \/ RecvResponse \/ RecvBitmap \/ BitmapFails
           \/ SwallowGarbled \/ SendChunk \/ RecvAck \/ SendLosesPeer
  <2>1. /\ UNCHANGED <<manifest, total>>
        /\ SenderOutcome = "on"
        /\ SenderOutcome' \in {"on", "off"}
    BY <1>3
       DEF ManifestFails, RecvResponse, RecvBitmap, BitmapFails, StartLoop,
           SwallowGarbled, SendChunk, RecvAck, SendLosesPeer, SenderOutcome
  <2>2. CASE SenderOutcome' = "on"
    BY <1>0, <2>1, <2>2 DEF D!vars
  <2>3. CASE SenderOutcome' = "off"
    <3>1. D!SenderFails
      BY <1>0, <2>1, <2>3 DEF D!SenderFails
    <3> QED
      BY <3>1 DEF D!Next
  <2> QED
    BY <2>1, <2>2, <2>3
<1> QED
  BY <1>1, <1>2, <1>3 DEF SenderStep

LEMMA TakeRefines ==
  ASSUME Inv, RecvChunk, UNCHANGED sendVars
  PROVE  D!Next
<1> USE DEF Inv, sendVars
<1>1. PICK i \in Slots, r \in Reads(toReceiver) :
        /\ IsNext(i, ri, bitmap, offer.total)
        /\ HashMatches(r.msg.data, i)
        /\ WriteChunk(i, r.msg.data)
        /\ bitmap' = bitmap \cup {i}
  BY DEF RecvChunk
<1>2. /\ rpc = "loop" /\ rpc' = "save"
      /\ UNCHANGED <<offer, resumed, outOk, resumeFile, spc, manifest, total>>
  BY DEF RecvChunk
<1>3. resumed \subseteq bitmap /\ 1..(ri - 1) \subseteq bitmap
  BY <1>2 DEF TransferInv, StreamInv, LoopInv, Looping
<1>4. resumed \cup (bitmap \ resumed) = bitmap
  BY <1>3
<1>5. IsNext(i, 1, bitmap, offer.total)
  <2>1. ri \in 1..(MaxChunks + 1) /\ MaxChunks \in Nat
    BY ChunkedFileAssumption DEF TypeOK, RecvTypeOK
  <2>2. offer.total \in Nat
    BY DEF TypeOK, RecvTypeOK
  <2> QED
    BY <1>1, <1>3, <2>1, <2>2 DEF IsNext, Slots
<1>6. bitmap' \ resumed' = (bitmap \ resumed) \cup {i}
  BY <1>1, <1>2, <1>3 DEF IsNext
<1>7. r.msg.data \in Blobs /\ r.msg.data = ReadChunk(offer.hashes, i)
  BY <1>1, VerifiedType DEF TypeOK
<1>8. Seen' = IF outOk THEN [Seen EXCEPT ![i] = ReadChunk(offer.hashes, i)] ELSE Seen
  <2>1. CASE outOk
    <3>1. \A j \in Slots :
            View(j)' = IF j = i THEN ReadChunk(offer.hashes, i) ELSE View(j)
      BY <1>1, <1>7, <2>1, WriteView DEF TypeOK
    <3> HIDE DEF Inv
    <3> QED
      BY <2>1, <3>1 DEF Seen
  <2>2. CASE ~outOk
    BY <1>1, <2>2, SeenSame DEF WriteChunk, View
  <2> QED
    BY <2>1, <2>2
<1>9. /\ ReceiverOutcome = "on" /\ ReceiverOutcome' = "on"
      /\ SenderOutcome' = SenderOutcome
  BY <1>2 DEF ReceiverOutcome, SenderOutcome
<1>10. D!Take(i)
  BY <1>2, <1>4, <1>5, <1>6, <1>8, <1>9 DEF D!Take, D!With, D!IsNext, IsNext, D!ReadChunk, ReadChunk
<1> QED
  BY <1>10 DEF D!Next, D!Slots, Slots

LEMMA ReceiverRefines ==
  ASSUME Inv, ReceiverStep \/ Answer, UNCHANGED sendVars
  PROVE  [D!Next]_(D!vars)
<1> USE DEF Inv, sendVars, linkVars
<1>0. UNCHANGED <<SenderOutcome, manifest, total>>
  BY DEF SenderOutcome
<1>1. CASE RecvOffer
  <2>1. PICK r \in Reads(toReceiver) :
          /\ offer' = [hashes |-> r.msg.hashes, total |-> r.msg.total]
          /\ r.msg.type = "FILE_OFFER"
    BY <1>1 DEF RecvOffer
  <2>2. /\ rpc = "offer" /\ rpc' = "confirm"
        /\ UNCHANGED <<bitmap, resumed, unflushed, outOk, disk, resumeFile>>
    BY <1>1 DEF RecvOffer
  <2>3. toReceiver = <<Offer(manifest, total)>> /\ offer = NoOffer
    BY <2>1, <2>2, ReadsNone DEF AlignInv, OneFrameUnderWay, RefinementInv
  <2>4. r.msg = Offer(manifest, total)
    BY <2>3, ReadsOne
  <2>5. offer' = [hashes |-> manifest, total |-> total]
    BY <2>1, <2>4 DEF Offer
  <2>6. Seen' = Seen /\ ReceiverOutcome = "on" /\ ReceiverOutcome' = "on"
    BY <2>2, SeenSame DEF View, ReceiverOutcome
  <2>7. D!Agree
    BY <1>0, <2>2, <2>3, <2>5, <2>6 DEF D!Agree, D!Nothing, NoOffer
  <2> QED
    BY <2>7 DEF D!Next
<1>2. CASE OpenAndResume
  <2>1. bitmap = {} /\ resumed = {} /\ rpc = "open" /\ rpc' = "loop"
    BY <1>2 DEF OpenAndResume, TransferInv, StreamInv
  <2>2. /\ outOk' \in BOOLEAN
        /\ resumed' = Loaded(offer.total) /\ bitmap' = Loaded(offer.total)
        /\ UNCHANGED <<offer, unflushed, disk, resumeFile>>
    BY <1>2 DEF OpenAndResume
  <2>3. Seen' = Seen /\ ReceiverOutcome = "on" /\ ReceiverOutcome' = "on"
    BY <2>1, <2>2, SeenSame DEF View, ReceiverOutcome
  <2>4. bitmap' \ resumed' = bitmap \ resumed
    BY <2>1, <2>2
  <2>5. D!Resume
    BY <1>0, <2>1, <2>2, <2>3, <2>4 DEF D!Resume, D!With, Loaded
  <2> QED
    BY <2>5 DEF D!Next
<1>3. CASE RecvChunk
  BY <1>3, TakeRefines
<1>4. CASE SaveTruncate \/ SaveWrite
  <2>1. /\ resumeFile' \in {{}, bitmap, resumeFile}
        /\ ReceiverOutcome = "on" /\ ReceiverOutcome' = "on"
        /\ UNCHANGED <<offer, bitmap, resumed, outOk, unflushed, disk>>
    BY <1>4 DEF SaveTruncate, SaveWrite, ReceiverOutcome
  <2>2. Seen' = Seen
    BY <2>1, SeenSame DEF View
  <2>3. resumed \cup (bitmap \ resumed) = bitmap
    BY DEF TransferInv, StreamInv
  <2>4. CASE resumeFile' = resumeFile
    BY <1>0, <2>1, <2>2, <2>4 DEF D!vars
  <2>5. CASE resumeFile' \in {{}, bitmap}
    <3>1. D!Record
      BY <1>0, <2>1, <2>2, <2>3, <2>5 DEF D!Record, D!With
    <3> QED
      BY <3>1 DEF D!Next
  <2> QED
    BY <2>1, <2>4, <2>5
<1>5. CASE SendAck \/ CloseFile \/ ConfirmYes
  <2>1. /\ ReceiverOutcome = "on" /\ ReceiverOutcome' = "on"
        /\ UNCHANGED <<offer, bitmap, resumed, outOk, resumeFile>>
    BY <1>5 DEF SendAck, CloseFile, ConfirmYes, ReceiverOutcome
  <2>2. \A i \in Slots : View(i)' = View(i)
    <3>1. CASE SendAck \/ ConfirmYes
      BY <3>1 DEF SendAck, ConfirmYes, View
    <3>2. CASE CloseFile
      BY <3>2, CloseKeepsView DEF CloseFile, TypeOK
    <3> QED
      BY <1>5, <3>1, <3>2
  <2> QED
    BY <1>0, <2>1, <2>2, SeenSame DEF D!vars
<1>6. CASE RemoveResume
  <2>1. /\ rpc = "remove" /\ rpc' = "done" /\ resumeFile' = NoResume
        /\ UNCHANGED <<offer, bitmap, resumed, unflushed, outOk, disk>>
    BY <1>6 DEF RemoveResume
  <2>2. 1..offer.total \subseteq resumed \cup (bitmap \ resumed)
    BY <2>1 DEF TransferInv, LoopInv
  <2>3. Seen' = Seen /\ ReceiverOutcome = "on" /\ ReceiverOutcome' = "done"
    BY <2>1, SeenSame DEF View, ReceiverOutcome
  <2>4. D!ReceiverSucceeds
    BY <1>0, <2>1, <2>2, <2>3 DEF D!ReceiverSucceeds, D!With
  <2> QED
    BY <2>4 DEF D!Next
<1>7. CASE RejectChunk \/ RecvLosesPeer \/ ConfirmNo
  <2>1. /\ FailRecv \/ Die
        /\ ReceiverOutcome = "on" /\ rpc # "crashed"
    BY <1>7 DEF RejectChunk, RecvLosesPeer, ConfirmNo, ReceiverOutcome
  <2>2. ReceiverOutcome' = "off" /\ UNCHANGED <<offer, bitmap, resumed, outOk, resumeFile>>
    BY <2>1 DEF FailRecv, Die, ReceiverOutcome
  <2>3. D!LosesAtMostOne
    <3>1. CASE FailRecv
      <4>1. \A i \in Slots : View(i)' = View(i)
        BY <3>1, CloseKeepsView DEF FailRecv, TypeOK
      <4> QED
        BY <4>1, SeenSame DEF D!LosesAtMostOne
    <3>2. CASE Die
      <4>1. disk' = disk /\ unflushed' = NoChunk
        BY <3>2 DEF Die
      <4> QED
        BY <2>1, <4>1, SeenLoses DEF D!LosesAtMostOne, D!Contents
    <3> QED
      BY <2>1, <3>1, <3>2
  <2>4. D!ReceiverFails
    BY <1>0, <2>1, <2>2, <2>3 DEF D!ReceiverFails
  <2> QED
    BY <2>4 DEF D!Next
<1> QED
  BY <1>1, <1>2, <1>3, <1>4, <1>5, <1>6, <1>7 DEF ReceiverStep, Answer

LEMMA EnvironmentRefines ==
  ASSUME Inv, Environment
  PROVE  [D!Next]_(D!vars)
<1> USE DEF Inv, sendVars, recvVars, linkVars
<1>1. CASE Connect
  <2>1. /\ SenderOutcome # "on" /\ SenderOutcome' = "on"
        /\ ReceiverOutcome # "on" /\ ReceiverOutcome' = "on"
    BY <1>1 DEF Connect, StartRecv, SendEnded, RecvEnded, SenderOutcome, ReceiverOutcome
  <2>2. /\ total' = 0 /\ manifest' = manifest
        /\ offer' = NoOffer /\ bitmap' = {} /\ resumed' = {} /\ outOk' = TRUE
        /\ UNCHANGED <<disk, resumeFile>>
    BY <1>1 DEF Connect, StartRecv
  <2>3. unflushed = NoChunk /\ unflushed' = NoChunk
    BY <1>1 DEF Connect, StartRecv, TransferInv, StreamInv, RecvEnded, Looping, Saving
  <2>4. Seen' = Seen
    BY <2>2, <2>3, SeenSame DEF View
  <2>5. [hashes |-> manifest', total |-> total'] \in D!Offers
    BY <2>2, ChunkedFileAssumption DEF D!Offers, TypeOK, SendTypeOK
  <2>6. D!Start
    BY <2>1, <2>2, <2>4, <2>5 DEF D!Start, D!Nothing, NoOffer
  <2> QED
    BY <2>6 DEF D!Next
<1>2. CASE SenderCrash
  <2>1. /\ SenderOutcome = "on" /\ SenderOutcome' = "off"
        /\ UNCHANGED <<manifest, total, recvVars>>
    BY <1>2 DEF SenderCrash, SenderOutcome, SendEnded
  <2>2. Seen' = Seen /\ ReceiverOutcome' = ReceiverOutcome
    BY <2>1, SeenSame DEF View, ReceiverOutcome
  <2>3. D!SenderFails
    BY <2>1, <2>2 DEF D!SenderFails
  <2> QED
    BY <2>3 DEF D!Next
<1>3. CASE ReceiverCrash
  <2>1. /\ ReceiverOutcome = "on" /\ ReceiverOutcome' = "off" /\ rpc # "crashed"
        /\ UNCHANGED <<sendVars, offer, bitmap, resumed, outOk, resumeFile>>
        /\ disk' = disk /\ unflushed' = NoChunk
    BY <1>3 DEF ReceiverCrash, Die, ReceiverOutcome, RecvEnded, TypeOK, RecvTypeOK
  <2>2. D!LosesAtMostOne
    BY <2>1, SeenLoses DEF D!LosesAtMostOne, D!Contents
  <2>3. D!ReceiverFails
    BY <2>1, <2>2 DEF D!ReceiverFails, SenderOutcome
  <2> QED
    BY <2>3 DEF D!Next
<1>4. CASE DiskFails
  <2>1. /\ ReceiverOutcome = "on" /\ ReceiverOutcome' = "on" /\ rpc # "crashed"
        /\ UNCHANGED <<sendVars, offer, bitmap, resumed, resumeFile>>
        /\ outOk = TRUE /\ outOk' = FALSE
        /\ disk' = disk /\ unflushed' = NoChunk
    BY <1>4 DEF DiskFails, ReceiverOutcome, Looping, Saving, TypeOK, RecvTypeOK
  <2>2. D!LosesAtMostOne
    BY <2>1, SeenLoses DEF D!LosesAtMostOne, D!Contents
  <2>3. D!DiskFails
    BY <2>1, <2>2 DEF D!DiskFails, SenderOutcome
  <2> QED
    BY <2>3 DEF D!Next
<1>5. CASE EditSource \/ Reset \/ GoSilent \/ LinkTimesOut
  <2>1. UNCHANGED <<recvVars, spc, manifest, total>>
    BY <1>5 DEF EditSource, Reset, GoSilent, Breaks, LinkTimesOut
  <2>2. Seen' = Seen /\ UNCHANGED <<SenderOutcome, ReceiverOutcome>>
    BY <2>1, SeenSame DEF View, SenderOutcome, ReceiverOutcome
  <2> QED
    BY <2>1, <2>2 DEF D!vars
<1> QED
  BY <1>1, <1>2, <1>3, <1>4, <1>5 DEF Environment

LEMMA StutterRefines ==
  ASSUME UNCHANGED vars
  PROVE  UNCHANGED D!vars
<1>1. UNCHANGED <<recvVars, spc, manifest, total>>
  BY DEF vars, sendVars, recvVars
<1>2. Seen' = Seen /\ UNCHANGED <<SenderOutcome, ReceiverOutcome>>
  BY <1>1, SeenSame DEF View, recvVars, SenderOutcome, ReceiverOutcome
<1> QED
  BY <1>1, <1>2 DEF D!vars, recvVars

LEMMA InitRefines ==
  ASSUME Init
  PROVE  D!Init
<1>1. \A i \in Slots : View(i) = NoData
  BY DEF Init, RecvInit, View, NoChunk, Slots
<1>2. Seen = [i \in Slots |-> NoData]
  BY <1>1 DEF Seen
<1>3. [hashes |-> manifest, total |-> total] \in D!Offers
  BY ChunkedFileAssumption DEF D!Offers, Init, SendInit
<1> QED
  BY <1>2, <1>3
     DEF D!Init, D!Nothing, D!Slots, Slots, NoOffer, Init, SendInit, RecvInit,
         SenderOutcome, ReceiverOutcome

\* sendFile and recvFile, with every fault of FileTransfer, implement the
\* download that their users see.
THEOREM DownloadImplemented == Spec => ImplementsDownload
<1>1. Inv /\ [Next]_vars => [D!Next]_(D!vars)
  <2> SUFFICES ASSUME Inv, [Next]_vars PROVE [D!Next]_(D!vars)
    OBVIOUS
  <2>1. CASE Next
    BY <2>1, SenderRefines, ReceiverRefines, EnvironmentRefines DEF Next
  <2>2. CASE UNCHANGED vars
    BY <2>2, StutterRefines
  <2> QED
    BY <2>1, <2>2
<1> QED
  BY <1>1, InitRefines, InvHolds, PTL DEF Spec, ImplementsDownload, D!Spec
=============================================================================
