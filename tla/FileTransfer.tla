---------------------------- MODULE FileTransfer ----------------------------
(***************************************************************************)
(* One peer sends a file to another, as often as they like: SendFile and   *)
(* RecvFile over TcpLink, the environment they run in, and what a transfer *)
(* promises.  A session begins with the encrypted connection in place.     *)
(*                                                                         *)
(* Faults names what the environment does besides delivering bytes:        *)
(*   "coalesce"  one recv may return bytes of two frames                   *)
(*   "edit"      the user edits the file that is sent, or replaces it      *)
(*   "crash"     a process is killed                                       *)
(*   "reset"     the connection breaks, and both ends are told             *)
(*   "silent"    the connection breaks, and nobody is told                 *)
(*   "disk"      writes start to fail on the receiver's disk               *)
(***************************************************************************)
EXTENDS SendFile, RecvFile

vars == <<linkVars, sendVars, recvVars>>

ToSenderFrames ==
  {Accept, Reject, ChunkAck, Garbled}
    \cup [type : {"RESUME_BITMAP"}, bits : SUBSET Slots]
ToReceiverFrames ==
  [type : {"FILE_OFFER"}, hashes : Files, total : 0..MaxChunks]
    \cup [type : {"CHUNK_DATA"}, data : Blobs \cup {NoData}]
    \cup {Garbled}

TypeOK ==
  /\ SendTypeOK
  /\ RecvTypeOK
  /\ link \in {"none", "up", "closed", "dead"}
  /\ toSender \in Seq(ToSenderFrames)
  /\ toReceiver \in Seq(ToReceiverFrames)

Init ==
  /\ link = "none"
  /\ toSender = <<>>
  /\ toReceiver = <<>>
  /\ SendInit
  /\ RecvInit

-----------------------------------------------------------------------------
(* The environment.                                                        *)

\* A user asks for a transfer; the receiver's listener serves one at a time.
Connect ==
  /\ spc \in SendEnded
  /\ rpc \in RecvEnded
  /\ link' = "up"
  /\ toSender' = <<>>
  /\ toReceiver' = <<>>
  /\ spc' = "manifest"
  /\ total' = 0
  /\ remoteBitmap' = {}
  /\ si' = 1
  /\ StartRecv
  /\ UNCHANGED <<src, manifest>>

EditSource ==
  /\ "edit" \in Faults
  /\ src' \in Files \ {src}
  /\ UNCHANGED <<linkVars, recvVars, spc, manifest, total, remoteBitmap, si>>

SenderCrash ==
  /\ "crash" \in Faults
  /\ spc \notin SendEnded
  /\ spc' = "failed"
  /\ HangUp
  /\ UNCHANGED <<recvVars, src, manifest, total, remoteBitmap, si, toSender, toReceiver>>

ReceiverCrash ==
  /\ "crash" \in Faults
  /\ rpc \notin RecvEnded
  /\ Die
  /\ UNCHANGED <<sendVars, toSender, toReceiver>>

\* Frames in flight are lost from some point on.
Breaks ==
  /\ link = "up"
  /\ toSender' \in {SubSeq(toSender, 1, n) : n \in 0..Len(toSender)}
  /\ toReceiver' \in {SubSeq(toReceiver, 1, n) : n \in 0..Len(toReceiver)}
  /\ UNCHANGED <<sendVars, recvVars>>

Reset == "reset" \in Faults /\ Breaks /\ link' = "closed"
GoSilent == "silent" \in Faults /\ Breaks /\ link' = "dead"

\* TCP may give up on a silent peer, but an end that only waits in recv has
\* nothing to retransmit and need never find out.
LinkTimesOut ==
  /\ link = "dead"
  /\ link' = "closed"
  /\ UNCHANGED <<sendVars, recvVars, toSender, toReceiver>>

\* A buffered chunk cannot be written back any more, nor any later one.
DiskFails ==
  /\ "disk" \in Faults
  /\ rpc \in Looping
  /\ outOk
  /\ outOk' = FALSE
  /\ unflushed' = NoChunk
  /\ UNCHANGED <<linkVars, sendVars, rpc, offer, bitmap, resumed, ri, disk, resumeFile>>

Environment ==
  \/ Connect
  \/ EditSource
  \/ SenderCrash
  \/ ReceiverCrash
  \/ Reset
  \/ GoSilent
  \/ LinkTimesOut
  \/ DiskFails

Next ==
  \/ SenderStep /\ UNCHANGED recvVars
  \/ (ReceiverStep \/ Answer) /\ UNCHANGED sendVars
  \/ Environment

Spec == Init /\ [][Next]_vars

\* Each peer runs one thread per session that keeps running until it blocks
\* in recv.  Nothing is assumed of the users, nor of TCP giving up.
FairSpec ==
  /\ Spec
  /\ WF_vars(SenderStep /\ UNCHANGED recvVars)
  /\ WF_vars(ReceiverStep /\ UNCHANGED sendVars)
-----------------------------------------------------------------------------
(* Safety.  Chunks that were resumed are believed, not verified, so what   *)
(* holds under every fault is about the chunks of the running session.     *)

\* A chunk that was marked in this session is in the file, or in the stream
\* buffer, with the contents the manifest asks for: nothing is marked before
\* it is verified and nothing overwrites it (recvFile, lines 288 to 298).
HeldChunksMatch ==
  outOk /\ rpc # "crashed" =>
    \A i \in bitmap \ resumed : View(i) = ReadChunk(offer.hashes, i)

\* When sendFile returns true every chunk of the file it offered is with the
\* receiver, although acknowledgements and chunks carry no index and the two
\* loops skip by two different bitmaps.
SentMeansHeld ==
  spc = "sent" /\ outOk /\ rpc # "crashed" =>
    \A i \in 1..total : i \in resumed \/ View(i) = ReadChunk(manifest, i)

\* If the bitmap arrived, the chunk in flight is the one the receiver's loop
\* will take it for.
AlignedLoops ==
  rpc = "loop" /\ toReceiver # <<>> /\ remoteBitmap = resumed =>
    IsNext(si, ri, bitmap, offer.total)

\* When the receiver is killed, the resume file is either empty (the kill
\* came while it was being written) or records every chunk it has
\* acknowledged: only chunk ri can be missing (lines 298 to 301).
KillKeepsProgress ==
  rpc = "crashed" /\ outOk /\ resumeFile \notin {NoResume, {}} =>
    bitmap \ {ri} \subseteq resumeFile

\* The downloaded file only ever changes to contents that were verified
\* against the manifest of the running session, at their own place.
VerifiedWritesOnly ==
  [][\A i \in Slots :
       disk'[i] # disk[i] => disk'[i] = ReadChunk(offer.hashes, i)]_vars

\* The resume file is removed only when every chunk of this session has left
\* the stream buffer: lines 312 and 313 in this order.
RemovedOnlyWhenWhole ==
  [][resumeFile # NoResume /\ resumeFile' = NoResume /\ outOk =>
       \A i \in (1..offer.total) \ resumed :
         disk[i] = ReadChunk(offer.hashes, i)]_vars

-----------------------------------------------------------------------------
(* What resuming promises.  These hold when the file never changes, the    *)
(* disk takes every write and no chunk is short enough to stay in the      *)
(* stream buffer, whatever else goes wrong and however often.              *)

\* Every chunk the resume file records is in the downloaded file.
ResumeSound ==
  resumeFile # NoResume =>
    \A i \in resumeFile : disk[i] = ReadChunk(src, i)

\* When recvFile returns true the downloaded file has the chunks offered.
DoneMeansOffered ==
  rpc = "done" =>
    \A i \in 1..offer.total : disk[i] = ReadChunk(offer.hashes, i)

-----------------------------------------------------------------------------
(* Liveness, under FairSpec.                                               *)

BothEnded == spc \in SendEnded /\ rpc \in RecvEnded

\* The call that read FILE_ACCEPT took the bitmap, or its beginning, with it;
\* a call that met the rest of a bitmap may in turn have taken the next
\* acknowledgement.
BitmapLost ==
  /\ spc \in {"bitmap", "ack"} /\ remoteBitmap = {}
  /\ rpc = "loop"
  /\ toSender = <<>> /\ toReceiver = <<>> /\ link = "up"

\* A session the receiver has accepted ends at both peers, unless the
\* bitmap is lost with the frame before it or the peer falls silent.
AcceptedSessionEnds == rpc = "open" ~> (BothEnded \/ BitmapLost \/ link = "dead")

\* A closed connection is noticed by both ends, but for the receiver's
\* unanswered prompt.
HangUpNoticed ==
  link = "closed" ~>
    (spc \in SendEnded /\ rpc \in RecvEnded \cup {"confirm"})

\* When sendFile returns true the receiver completes, unless it is killed.
SentLeadsToDone == spc = "sent" ~> (rpc \in {"done", "crashed"})

\* A kill (a sender that has lost its peer ends all the same), a connection
\* that breaks, or a bitmap that is lost or cut by the read before it.
Disturbance ==
  \/ SenderCrash /\ ~SendLosesPeer
  \/ ReceiverCrash \/ Reset \/ GoSilent
  \/ RecvResponse /\ spc' = "bitmap" /\ toSender' # Tail(toSender)

Delivered ==
  /\ spc = "sent" /\ rpc = "done"
  /\ \A i \in Slots : disk[i] = ReadChunk(src, i)

\* When the file does not change and the disk works, nothing an earlier
\* session leaves behind prevents a later one: once the disturbances stop,
\* every transfer that is accepted, resumed or not, completes at both ends
\* and delivers the file.
TransferCompletes ==
  <>[][~Disturbance]_vars => <>[](rpc = "open" => <>Delivered)
=============================================================================
