------------------------------ MODULE SendFile ------------------------------
(***************************************************************************)
(* The sending peer: ProtocolSession::sendFile and handleResumeAsSender.   *)
(* Each action runs from one blocking call of the code to the next.        *)
(***************************************************************************)
EXTENDS TcpLink

VARIABLES
  spc,           \* where sendFile is
  src,           \* the file on the sender's disk now
  manifest,      \* the hashes of the manifest file
  total,         \* totalChunks, recomputed after the manifest was written
  remoteBitmap,  \* the chunks the receiver says it holds
  si             \* the loop variable of the sending loop

sendVars == <<spc, src, manifest, total, remoteBitmap, si>>

SendEnded == {"idle", "sent", "failed"}
SendStates ==
  SendEnded \cup {"manifest", "offer", "response", "bitmap", "loop", "ack"}

SendTypeOK ==
  /\ spc \in SendStates
  /\ src \in Files
  /\ manifest \in Files
  /\ total \in 0..MaxChunks
  /\ remoteBitmap \in SUBSET Slots
  /\ si \in 1..(MaxChunks + 1)
  /\ spc = "ack" => si \in Slots

SendInit ==
  /\ spc = "idle"
  /\ src \in Files
  /\ manifest = src
  /\ total = 0
  /\ remoteBitmap = {}
  /\ si = 1

-----------------------------------------------------------------------------
\* generateManifest hashes every chunk of the file as it is now; an empty or
\* missing file has no manifest.
GenerateManifest ==
  /\ spc = "manifest"
  /\ src # <<>>
  /\ manifest' = src
  /\ spc' = "offer"
  /\ UNCHANGED <<src, total, remoteBitmap, si, linkVars>>

\* No manifest: the file is empty, or (a disk fault) the meta file cannot be
\* written or read back.  The session returns.
ManifestFails ==
  /\ spc = "manifest"
  /\ src = <<>> \/ "disk" \in Faults
  /\ spc' = "failed"
  /\ HangUp
  /\ UNCHANGED <<src, manifest, total, remoteBitmap, si, toSender, toReceiver>>

\* The offer joins the manifest with a chunk count taken from a second look
\* at the size of the file.
SendOffer ==
  /\ spc = "offer"
  /\ total' = Len(src)
  /\ toReceiver' = Put(toReceiver, Offer(manifest, Len(src)))
  /\ spc' = "response"
  /\ UNCHANGED <<src, manifest, remoteBitmap, si, link, toSender>>

\* FILE_ACCEPT goes on; FILE_REJECT and anything else ends the session.
RecvResponse ==
  /\ spc = "response"
  /\ \E r \in Reads(toSender) :
       /\ toSender' = r.rest
       /\ \/ r.msg = Accept /\ spc' = "bitmap" /\ UNCHANGED link
          \/ r.msg # Accept /\ spc' = "failed" /\ HangUp
  /\ UNCHANGED <<src, manifest, total, remoteBitmap, si, toReceiver>>

\* The loop over the chunks starts with the bitmap bits.
StartLoop(bits) ==
  /\ remoteBitmap' = bits
  /\ si' = 1
  /\ spc' = "loop"
  /\ UNCHANGED <<src, manifest, total, link, toReceiver>>

\* handleResumeAsSender returns the bitmap of the receiver ...
RecvBitmap ==
  /\ spc = "bitmap"
  /\ \E r \in Reads(toSender) :
       /\ r.msg.type = "RESUME_BITMAP"
       /\ toSender' = r.rest
       /\ StartLoop(r.msg.bits)

\* ... or false, which sendFile ignores: it goes on with an empty bitmap.
\* The tail of a dropped frame may parse as a frame of some other type.
BitmapFails ==
  /\ spc = "bitmap"
  /\ \/ HungUp(toSender) /\ UNCHANGED toSender
     \/ \E r \in Reads(toSender) :
          r.msg.type # "RESUME_BITMAP" /\ toSender' = r.rest
  /\ StartLoop({})

\* The tail of a dropped frame may also parse as a length above the limit,
\* or as one that is never filled: the receive loop keeps waiting.
SwallowGarbled ==
  /\ spc \in {"bitmap", "ack"}
  /\ \E r \in Reads(toSender) : r.msg = Garbled /\ toSender' = r.rest
  /\ UNCHANGED <<sendVars, link, toReceiver>>

\* Seeded fault: the bitmap is not consulted.
SendEveryChunk ==
  /\ spc = "loop"
  /\ si <= total
  /\ toReceiver' = Put(toReceiver, Chunk(ReadChunk(src, si)))
  /\ spc' = "ack"
  /\ UNCHANGED <<src, manifest, total, remoteBitmap, si, link, toSender>>

\* A chunk is read from the file again, at the time it is sent, and carries
\* no index.
SendChunk ==
  /\ spc = "loop"
  /\ \E i \in Slots :
       /\ IsNext(i, si, remoteBitmap, total)
       /\ si' = i
       /\ toReceiver' = Put(toReceiver, Chunk(ReadChunk(src, i)))
  /\ spc' = "ack"
  /\ UNCHANGED <<src, manifest, total, remoteBitmap, link, toSender>>

RecvAck ==
  /\ spc = "ack"
  /\ \E r \in Reads(toSender) :
       /\ toSender' = r.rest
       /\ \/ r.msg = ChunkAck /\ si' = si + 1 /\ spc' = "loop" /\ UNCHANGED link
          \/ r.msg # ChunkAck /\ spc' = "failed" /\ HangUp /\ UNCHANGED si
  /\ UNCHANGED <<src, manifest, total, remoteBitmap, toReceiver>>

\* Seeded fault: the last acknowledgement is not waited for.
SendDoneUnacked ==
  /\ spc \in {"loop", "ack"}
  /\ NoneLeft(si + 1, remoteBitmap, total)
  /\ spc' = "sent"
  /\ HangUp
  /\ UNCHANGED <<src, manifest, total, remoteBitmap, si, toSender, toReceiver>>

\* sendFile returns true; main drops the session, which closes the socket.
SendDone ==
  /\ spc = "loop"
  /\ NoneLeft(si, remoteBitmap, total)
  /\ spc' = "sent"
  /\ HangUp
  /\ UNCHANGED <<src, manifest, total, remoteBitmap, si, toSender, toReceiver>>

\* Seeded fault: the result of recvBytes is ignored while an acknowledgement
\* is awaited, as performKeyExchange ignores it.
SendLosesPeerEarlyOnly ==
  /\ spc = "response"
  /\ HungUp(toSender)
  /\ spc' = "failed"
  /\ UNCHANGED <<src, manifest, total, remoteBitmap, si, linkVars>>

\* recvEncryptedMessage returns false while the sender waits for an answer.
SendLosesPeer ==
  /\ spc \in {"response", "ack"}
  /\ HungUp(toSender)
  /\ spc' = "failed"
  /\ UNCHANGED <<src, manifest, total, remoteBitmap, si, linkVars>>

SenderStep ==
  \/ GenerateManifest
  \/ ManifestFails
  \/ SendOffer
  \/ RecvResponse
  \/ RecvBitmap
  \/ BitmapFails
  \/ SwallowGarbled
  \/ SendChunk
  \/ RecvAck
  \/ SendDone
  \/ SendLosesPeer
=============================================================================
