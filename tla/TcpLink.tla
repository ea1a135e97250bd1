------------------------------ MODULE TcpLink ------------------------------
(***************************************************************************)
(* The TCP connection under one ProtocolSession, one entry per frame:      *)
(* TcpConnection, and the send and receive loops of sendEncryptedMessage   *)
(* and recvEncryptedMessage.                                               *)
(*                                                                         *)
(* recvEncryptedMessage collects bytes in a buffer that is LOCAL to the    *)
(* call.  recv returns whatever has arrived, so the call that completes a  *)
(* frame may already hold bytes of the next one, and drops them when it    *)
(* returns.  Next to its head a queue of two frames therefore loses        *)
(* nothing, all, or a part of what follows.                                *)
(***************************************************************************)
EXTENDS ChunkedFile

CONSTANT
  Faults  \* what the environment does: see FileTransfer, and "coalesce":
          \* one recv may return bytes of two frames

ASSUME FaultsAssumption ==
  Faults \subseteq {"coalesce", "edit", "crash", "reset", "silent", "disk"}

VARIABLES
  link,        \* "none", "up", "closed" (by either end), "dead" (peer silent)
  toSender,    \* frames on their way to the sending peer
  toReceiver   \* frames on their way to the receiving peer

linkVars == <<link, toSender, toReceiver>>

\* Seeded fault: fileSize / chunkSize + 1 chunks, also for a whole number.
OfferOneMore(hashes, n) ==
  [type |-> "FILE_OFFER", hashes |-> hashes, total |-> n + 1]

Offer(hashes, n) == [type |-> "FILE_OFFER", hashes |-> hashes, total |-> n]
Accept == [type |-> "FILE_ACCEPT"]
Reject == [type |-> "FILE_REJECT"]
Bitmap(bits) == [type |-> "RESUME_BITMAP", bits |-> bits]
Chunk(data) == [type |-> "CHUNK_DATA", data |-> data]
ChunkAck == [type |-> "CHUNK_ACK"]

\* The end of a frame whose beginning an earlier call has dropped.  A header
\* read out of its middle gives any type and any length.
Garbled == [type |-> "GARBLED"]

\* sendBytes: its result is ignored by every caller, so a frame written to
\* a connection that is gone disappears.
Put(q, m) == IF link = "up" THEN Append(q, m) ELSE q

\* What can be left of the queue t behind the frame that was just decoded.
Leftovers(t) ==
  IF t = <<>> \/ "coalesce" \notin Faults
  THEN {t}
  ELSE {t, Tail(t), <<Garbled>> \o Tail(t)}

\* Decode the frame at the head of q: the message and what stays in q.  What
\* passes for a frame in a garbled one may end before it does.
Reads(q) ==
  IF q = <<>> THEN {}
  ELSE [msg  : {Head(q)},
        rest : Leftovers(Tail(q)) \cup (IF Head(q) = Garbled THEN {q} ELSE {})]

\* recv returns 0 or an error: everything sent before has been read.
HungUp(q) == q = <<>> /\ link = "closed"

\* TcpConnection::close, by the destructor of a session that returns or by
\* the death of its process.  What is in flight still arrives.
HangUp == link' = IF link = "up" THEN "closed" ELSE link
=============================================================================
