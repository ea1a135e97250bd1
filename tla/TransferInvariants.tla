------------------------- MODULE TransferInvariants -------------------------
(***************************************************************************)
(* The inductive invariant behind the safety properties of FileTransfer.   *)
(* FileTransferProofs proves it; the runs check it first.                  *)
(***************************************************************************)
EXTENDS FileTransfer

\* What is in the stream buffer was received in this session and is already
\* marked; before the file is opened nothing is marked.
StreamInv ==
  /\ unflushed # NoChunk =>
       outOk /\ rpc \in Looping /\ unflushed.idx \in bitmap \ resumed
  /\ resumed \subseteq bitmap
  /\ rpc \in {"idle", "offer", "confirm", "open"} =>
       bitmap = {} /\ resumed = {} /\ unflushed = NoChunk /\ ri = 1

\* The receiver's loop has every chunk behind its index.
LoopInv ==
  /\ rpc \in Looping => 1..(ri - 1) \subseteq bitmap
  /\ rpc \in Saving => ri \in bitmap
  /\ rpc \in {"remove", "done"} => 1..offer.total \subseteq bitmap

\* The resume file, unless there is none or it was just emptied, lags behind
\* the bitmap by the chunk that is being handled, and only until it is saved.
RecordInv ==
  outOk /\ resumeFile \notin {NoResume, {}} =>
    /\ rpc \in {"loop", "ack", "remove"} => bitmap \subseteq resumeFile
    /\ rpc \in {"save", "crashed"} => bitmap \ {ri} \subseteq resumeFile
    /\ rpc # "saving"

-----------------------------------------------------------------------------
(* How far the peers can be apart, by the state of the sender.             *)

Agreed == offer = [hashes |-> manifest, total |-> total]

\* No frame of this session has reached the receiver.
BeforeOffer ==
  /\ toSender = <<>>
  /\ rpc \in {"offer", "failed", "crashed"}

\* The receiver has read the offer; it has answered nothing, or something.
AfterOffer ==
  /\ Agreed
  /\ toReceiver = <<>>
  /\ rpc \notin Saving \cup {"idle", "offer"}
  /\ \/ toSender = <<>> /\ (link = "up" => rpc = "confirm")
     \/ toSender = <<Reject>> /\ rpc = "failed"
     \/ toSender = <<Accept>> /\ rpc # "confirm" /\ (link = "up" => rpc = "open")
     \/ \E bits \in SUBSET bitmap :
          toSender = <<Accept, Bitmap(bits)>> /\ rpc \notin {"confirm", "open"}

\* The sender has read the acceptance.
AwaitingBitmap ==
  /\ Agreed
  /\ toReceiver = <<>>
  /\ rpc \notin Saving \cup {"idle", "offer", "confirm"}
  /\ \/ toSender = <<>>
     \/ toSender = <<Garbled>> /\ rpc # "open"
     \/ \E bits \in SUBSET bitmap : toSender = <<Bitmap(bits)>> /\ rpc # "open"

\* The sender is in its loop: everything behind its index is held.
InLoop ==
  /\ Agreed
  /\ rpc \notin {"idle", "offer", "confirm"}
  /\ link = "up" => rpc # "open"
  /\ remoteBitmap \subseteq bitmap
  /\ 1..(si - 1) \subseteq bitmap

\* Nothing is under way between the peers, but for what is left of a bitmap
\* whose beginning was dropped.
Quiet ==
  /\ toSender \in {<<>>, <<Garbled>>}
  /\ toReceiver = <<>>
  /\ rpc \notin Saving

AckUnderWay == toSender \in {<<ChunkAck>>, <<Garbled, ChunkAck>>}

\* At most one of: a chunk in flight, a chunk being stored, an
\* acknowledgement in flight.  In the last two cases chunk si is held.
OneToken ==
  /\ toSender \in {<<>>, <<Garbled>>, <<ChunkAck>>, <<Garbled, ChunkAck>>}
  /\ \/ toReceiver = <<>>
     \/ \E d \in Blobs \cup {NoData} : toReceiver = <<Chunk(d)>>
  /\ AckUnderWay => rpc \notin Saving
  /\ AckUnderWay \/ rpc \in Saving => toReceiver = <<>> /\ si \in bitmap

SessionInv ==
  /\ spc \in {"manifest", "offer"} => BeforeOffer /\ toReceiver = <<>>
  /\ spc = "response" =>
       \/ BeforeOffer /\ toReceiver \in {<<>>, <<Offer(manifest, total)>>}
       \/ AfterOffer
  /\ spc = "bitmap" => AwaitingBitmap
  /\ spc \in {"loop", "ack", "sent"} => InLoop
  /\ spc \in {"loop", "sent"} => Quiet
  /\ spc = "ack" => OneToken
  /\ spc = "sent" => 1..total \subseteq bitmap

TransferInv ==
  /\ StreamInv
  /\ LoopInv
  /\ RecordInv
  /\ SessionInv
  /\ HeldChunksMatch

-----------------------------------------------------------------------------
(* Why the two loops stay aligned; also beyond the end of the sender, whose *)
(* last chunk may still be under way.                                      *)

OneFrameUnderWay ==
  /\ rpc = "offer" => toReceiver \in {<<>>, <<Offer(manifest, total)>>}
  /\ rpc \in {"confirm", "open"} \cup Saving => toReceiver = <<>>
  /\ rpc = "loop" =>
       \/ toReceiver = <<>>
       \/ \E d \in Blobs \cup {NoData} : toReceiver = <<Chunk(d)>>

\* Beyond what was resumed the receiver has no chunk that the sender has not
\* come to.
NoneAhead ==
  rpc \in Looping =>
    /\ spc \in {"response", "bitmap"} => bitmap = resumed
    /\ spc = "loop" /\ remoteBitmap = resumed => bitmap \subseteq resumed \cup 1..(si - 1)
    /\ spc = "ack" /\ remoteBitmap = resumed => bitmap \subseteq resumed \cup 1..si

AlignInv == OneFrameUnderWay /\ NoneAhead /\ AlignedLoops
=============================================================================
