------------------------------ MODULE RecvFile ------------------------------
(***************************************************************************)
(* The receiving peer: ProtocolSession::recvFile, handlResumeAsReceiver,   *)
(* ResumeState, and what they leave on disk.  Each action runs from one    *)
(* blocking call, or one effect on the disk, to the next.                  *)
(***************************************************************************)
EXTENDS TcpLink

CONSTANT NoResume  \* there is no <file>.resume

ASSUME NoResumeAssumption == \A bits \in SUBSET Slots : bits # NoResume

VARIABLES
  rpc,         \* where recvFile is
  offer,       \* hashes and totalChunks of the offer that was read
  bitmap,      \* ResumeState::bitmap, as the set of its ones
  resumed,     \* the ones that came from the resume file at the start
  ri,          \* the loop variable of the receiving loop
  unflushed,   \* the chunk in the stream buffer of out; idx 0 for none
  outOk,       \* FALSE once writes fail: a full disk, a file that won't open
  disk,        \* downloads/<file>, chunk by chunk
  resumeFile   \* downloads/<file>.resume

recvVars ==
  <<rpc, offer, bitmap, resumed, ri, unflushed, outOk, disk, resumeFile>>

RecvEnded == {"idle", "done", "failed", "crashed"}
Saving == {"save", "saving", "ack"}
Looping == {"loop"} \cup Saving
RecvStates == RecvEnded \cup Looping \cup {"offer", "confirm", "open", "remove"}

NoChunk == [idx |-> 0, data |-> NoData]
NoOffer == [hashes |-> <<>>, total |-> 0]

RecvTypeOK ==
  /\ rpc \in RecvStates
  /\ offer \in [hashes : Files \cup {<<>>}, total : 0..MaxChunks]
  /\ bitmap \in SUBSET Slots
  /\ resumed \in SUBSET Slots
  /\ ri \in 1..(MaxChunks + 1)
  /\ rpc \in Saving => ri \in Slots
  /\ unflushed \in [idx : Slots, data : Blobs] \cup {NoChunk}
  /\ outOk \in BOOLEAN
  /\ disk \in [Slots -> Blobs \cup {NoData}]
  /\ resumeFile \in (SUBSET Slots) \cup {NoResume}

RecvInit ==
  /\ rpc = "idle"
  /\ offer = NoOffer
  /\ bitmap = {}
  /\ resumed = {}
  /\ ri = 1
  /\ unflushed = NoChunk
  /\ outOk = TRUE
  /\ disk = [i \in Slots |-> NoData]
  /\ resumeFile = NoResume

\* ProtocolSession and the locals of recvFile start afresh; the files stay.
StartRecv ==
  /\ rpc' = "offer"
  /\ offer' = NoOffer
  /\ bitmap' = {}
  /\ resumed' = {}
  /\ ri' = 1
  /\ unflushed' = NoChunk
  /\ outOk' = TRUE
  /\ UNCHANGED <<disk, resumeFile>>

-----------------------------------------------------------------------------
(* The output stream.                                                      *)

\* The file after the stream buffer is written back (seekp, close, ~fstream).
Flushed ==
  IF unflushed = NoChunk THEN disk
  ELSE [disk EXCEPT ![unflushed.idx] = unflushed.data]

\* What a reader of the file would see once the stream is closed.
View(i) == IF unflushed.idx = i THEN unflushed.data ELSE disk[i]

\* Seeded fault: every chunk stays in the stream buffer.
WriteChunkBuffered(i, data) ==
  IF ~outOk THEN UNCHANGED <<disk, unflushed>>
  ELSE disk' = Flushed /\ unflushed' = [idx |-> i, data |-> data]

\* out.seekp, out.write: a short chunk stays in the buffer, a long one is
\* handed to the system at once.  After a failure the stream does nothing.
WriteChunk(i, data) ==
  IF ~outOk THEN UNCHANGED <<disk, unflushed>>
  ELSE IF data \in Short
  THEN disk' = Flushed /\ unflushed' = [idx |-> i, data |-> data]
  ELSE disk' = [Flushed EXCEPT ![i] = data] /\ unflushed' = NoChunk

CloseStream == disk' = Flushed /\ unflushed' = NoChunk

-----------------------------------------------------------------------------
\* recvFile returns false: its locals are destroyed and the socket is closed.
FailRecv ==
  /\ rpc' = "failed"
  /\ CloseStream
  /\ HangUp
  /\ UNCHANGED <<offer, bitmap, resumed, ri, outOk, resumeFile>>

\* The process dies: the stream buffer dies with it, the system closes the
\* socket.  The other variables keep their last value until StartRecv.
Die ==
  /\ rpc' = "crashed"
  /\ unflushed' = NoChunk
  /\ HangUp
  /\ UNCHANGED <<offer, bitmap, resumed, ri, outOk, disk, resumeFile>>

RecvOffer ==
  /\ rpc = "offer"
  /\ \E r \in Reads(toReceiver) :
       /\ r.msg.type = "FILE_OFFER"
       /\ offer' = [hashes |-> r.msg.hashes, total |-> r.msg.total]
       /\ toReceiver' = r.rest
  /\ rpc' = "confirm"
  /\ UNCHANGED <<bitmap, resumed, ri, unflushed, outOk, disk, resumeFile,
                 link, toSender>>

\* The user answers the prompt of confirmFileReceive.
ConfirmYes ==
  /\ rpc = "confirm"
  /\ toSender' = Put(toSender, Accept)
  /\ rpc' = "open"
  /\ UNCHANGED <<offer, bitmap, resumed, ri, unflushed, outOk, disk,
                 resumeFile, link, toReceiver>>

ConfirmNo ==
  /\ rpc = "confirm"
  /\ toSender' = Put(toSender, Reject)
  /\ FailRecv
  /\ UNCHANGED toReceiver

\* ResumeState::load: the ones of the resume file, for the first n chunks.
Loaded(n) == IF resumeFile = NoResume THEN {} ELSE resumeFile \cap 1..n

\* The file is opened without truncation (and created if there is none), the
\* bitmap is read, believed and sent.  Failing to open is noticed by nobody.
OpenAndResume ==
  /\ rpc = "open"
  /\ outOk' \in IF "disk" \in Faults THEN BOOLEAN ELSE {TRUE}
  /\ bitmap' = Loaded(offer.total)
  /\ resumed' = Loaded(offer.total)
  /\ toSender' = Put(toSender, Bitmap(Loaded(offer.total)))
  /\ rpc' = "loop"
  /\ UNCHANGED <<offer, ri, unflushed, disk, resumeFile, link, toReceiver>>

\* Seeded fault: the chunk is not verified.
HashIgnored(data, i) == i <= Len(offer.hashes)

\* The hash of the data is the one the manifest has for chunk i.
HashMatches(data, i) ==
  i <= Len(offer.hashes) /\ data = offer.hashes[i]

\* The payload of the next frame is verified, written and marked.
RecvChunk ==
  /\ rpc = "loop"
  /\ \E i \in Slots, r \in Reads(toReceiver) :
       /\ IsNext(i, ri, bitmap, offer.total)
       /\ HashMatches(r.msg.data, i)
       /\ WriteChunk(i, r.msg.data)
       /\ bitmap' = bitmap \cup {i}
       /\ ri' = i
       /\ toReceiver' = r.rest
  /\ rpc' = "save"
  /\ UNCHANGED <<offer, resumed, outOk, resumeFile, link, toSender>>

\* Seeded fault: the data is written before it is verified.
RejectChunkWritten ==
  /\ rpc = "loop"
  /\ \E i \in Slots, r \in Reads(toReceiver) :
       /\ IsNext(i, ri, bitmap, offer.total)
       /\ ~HashMatches(r.msg.data, i)
       /\ toReceiver' = r.rest
       /\ disk' = [Flushed EXCEPT ![i] = r.msg.data]
  /\ unflushed' = NoChunk
  /\ rpc' = "failed"
  /\ HangUp
  /\ UNCHANGED <<offer, bitmap, resumed, ri, outOk, resumeFile, toSender>>

\* A wrong hash ends the session.  Past the end of the manifest the code
\* reads expectedHashes out of range: some other string, or the process dies.
RejectChunk ==
  /\ rpc = "loop"
  /\ \E i \in Slots, r \in Reads(toReceiver) :
       /\ IsNext(i, ri, bitmap, offer.total)
       /\ ~HashMatches(r.msg.data, i)
       /\ toReceiver' = r.rest
       /\ FailRecv \/ (i > Len(offer.hashes) /\ Die)
  /\ UNCHANGED toSender

\* ResumeState::save opens the file, which empties it ...
SaveTruncate ==
  /\ rpc = "save"
  /\ \/ resumeFile' = {} /\ rpc' = "saving"
     \/ ~outOk /\ rpc' = "ack" /\ UNCHANGED resumeFile
  /\ UNCHANGED <<offer, bitmap, resumed, ri, unflushed, outOk, disk, linkVars>>

\* Seeded fault: only the newest chunk is recorded.
SaveNewestOnly ==
  /\ rpc = "saving"
  /\ resumeFile' = {ri}
  /\ rpc' = "ack"
  /\ UNCHANGED <<offer, bitmap, resumed, ri, unflushed, outOk, disk, linkVars>>

\* ... and writes the bitmap when it is closed.  Errors are ignored.
SaveWrite ==
  /\ rpc = "saving"
  /\ \/ resumeFile' = bitmap
     \/ ~outOk /\ UNCHANGED resumeFile
  /\ rpc' = "ack"
  /\ UNCHANGED <<offer, bitmap, resumed, ri, unflushed, outOk, disk, linkVars>>

\* Seeded fault: the chunk is not acknowledged.
SendNoAck ==
  /\ rpc = "ack"
  /\ ri' = ri + 1
  /\ rpc' = "loop"
  /\ UNCHANGED <<offer, bitmap, resumed, unflushed, outOk, disk, resumeFile,
                 linkVars>>

SendAck ==
  /\ rpc = "ack"
  /\ toSender' = Put(toSender, ChunkAck)
  /\ ri' = ri + 1
  /\ rpc' = "loop"
  /\ UNCHANGED <<offer, bitmap, resumed, unflushed, outOk, disk, resumeFile,
                 link, toReceiver>>

\* Seeded fault: the stream is left to its destructor.
CloseFileLater ==
  /\ rpc = "loop"
  /\ NoneLeft(ri, bitmap, offer.total)
  /\ rpc' = "remove"
  /\ UNCHANGED <<offer, bitmap, resumed, ri, unflushed, outOk, disk,
                 resumeFile, linkVars>>

\* Every chunk is there: out.close() ...
CloseFile ==
  /\ rpc = "loop"
  /\ NoneLeft(ri, bitmap, offer.total)
  /\ CloseStream
  /\ rpc' = "remove"
  /\ UNCHANGED <<offer, bitmap, resumed, ri, outOk, resumeFile, linkVars>>

\* ... and the resume file goes.  The session returns true.
RemoveResume ==
  /\ rpc = "remove"
  /\ resumeFile' = NoResume
  /\ rpc' = "done"
  /\ HangUp
  /\ UNCHANGED <<offer, bitmap, resumed, ri, unflushed, outOk, disk,
                 toSender, toReceiver>>

\* recvEncryptedMessage returns false while the receiver waits for a frame.
RecvLosesPeer ==
  /\ \/ rpc = "offer"
     \/ rpc = "loop" /\ ~NoneLeft(ri, bitmap, offer.total)
  /\ HungUp(toReceiver)
  /\ FailRecv
  /\ UNCHANGED <<toSender, toReceiver>>

\* Steps the receiving thread takes by itself, and the answers of its user.
ReceiverStep ==
  \/ RecvOffer
  \/ OpenAndResume
  \/ RecvChunk
  \/ RejectChunk
  \/ SaveTruncate
  \/ SaveWrite
  \/ SendAck
  \/ CloseFile
  \/ RemoveResume
  \/ RecvLosesPeer

Answer == ConfirmYes \/ ConfirmNo
=============================================================================
