------------------------- MODULE TransferRefinement -------------------------
(***************************************************************************)
(* FileTransfer implements Download.                                       *)
(***************************************************************************)
EXTENDS TransferInvariants

SenderOutcome ==
  CASE spc = "sent" -> "sent" [] spc \in {"idle", "failed"} -> "off" [] OTHER -> "on"

ReceiverOutcome ==
  CASE rpc = "done" -> "done"
    [] rpc \in {"idle", "failed", "crashed"} -> "off"
    [] OTHER -> "on"

\* The download as a reader would see it if the stream were closed.
Seen == [i \in Slots |-> View(i)]

D == INSTANCE Download
       WITH sender <- SenderOutcome, receiver <- ReceiverOutcome,
            offered <- [hashes |-> manifest, total |-> total],
            wanted <- offer, believed <- resumed, taken <- bitmap \ resumed,
            file <- Seen, record <- resumeFile,
            NoRecord <- NoResume, working <- outOk

\* Two loops over frames without an index, two bitmaps, a stream buffer and a
\* resume file (sendFile, recvFile) come to a download in which chunks are
\* taken in order with the contents offered, a kill loses no more than one
\* short chunk, and neither end succeeds before every chunk is there.
ImplementsDownload == D!Spec

\* What the refinement needs beyond TransferInv: only short chunks wait in the
\* stream buffer, and the sender does not change its mind after its offer.
RefinementInv ==
  /\ unflushed # NoChunk => unflushed.data \in Short
  /\ rpc = "offer" \/ spc \in {"manifest", "offer"} => offer = NoOffer
=============================================================================
