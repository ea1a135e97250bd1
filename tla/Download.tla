------------------------------ MODULE Download ------------------------------
(***************************************************************************)
(* What sendFile and recvFile promise together, without frames, prompts,   *)
(* loop indices and stream buffers: a file is offered and agreed on, its   *)
(* chunks are taken one after the other, verified, and an end succeeds     *)
(* only when all of them are with the receiver.                            *)
(***************************************************************************)
EXTENDS ChunkedFile

CONSTANT NoRecord  \* there is no record of an earlier session

VARIABLES
  sender, receiver,  \* each end: "off", "on", or how it succeeded
  offered,           \* what the sender's manifest says
  wanted,            \* what the receiver has read
  believed,          \* chunks recorded by an earlier session
  taken,             \* chunks verified in this session
  file,              \* the download, chunk by chunk
  record,            \* the chunks recorded for a later session
  working            \* the disk takes writes

vars == <<sender, receiver, offered, wanted, believed, taken, file, record, working>>

Offers == [hashes : Files \cup {<<>>}, total : 0..MaxChunks]
Nothing == [hashes |-> <<>>, total |-> 0]
Contents == Blobs \cup {NoData}

With == believed \cup taken

Init ==
  /\ sender = "off" /\ receiver = "off"
  /\ offered \in Offers /\ wanted = Nothing
  /\ believed = {} /\ taken = {}
  /\ file = [i \in Slots |-> NoData]
  /\ record = NoRecord
  /\ working = TRUE

Start ==
  /\ sender # "on" /\ receiver # "on"
  /\ sender' = "on" /\ receiver' = "on"
  /\ offered' \in Offers /\ wanted' = Nothing
  /\ believed' = {} /\ taken' = {}
  /\ working' = TRUE
  /\ UNCHANGED <<file, record>>

\* The sender makes up its mind; not after the receiver has read the offer.
Prepare ==
  /\ sender = "on" /\ wanted = Nothing
  /\ offered' \in Offers
  /\ UNCHANGED <<sender, receiver, wanted, believed, taken, file, record, working>>

Agree ==
  /\ receiver = "on" /\ wanted = Nothing
  /\ wanted' = offered
  /\ UNCHANGED <<sender, receiver, offered, believed, taken, file, record, working>>

\* What is recorded is believed; the file may not open.
Resume ==
  /\ receiver = "on" /\ With = {}
  /\ believed' = IF record = NoRecord THEN {} ELSE record \cap 1..wanted.total
  /\ working' \in BOOLEAN
  /\ UNCHANGED <<sender, receiver, offered, wanted, taken, file, record>>

\* Chunks are taken in order, each with the contents agreed on.
Take(i) ==
  /\ receiver = "on"
  /\ IsNext(i, 1, With, wanted.total)
  /\ taken' = taken \cup {i}
  /\ file' = IF working THEN [file EXCEPT ![i] = ReadChunk(wanted.hashes, i)] ELSE file
  /\ UNCHANGED <<sender, receiver, offered, wanted, believed, record, working>>

\* The record is emptied and written again.
Record ==
  /\ receiver = "on"
  /\ record' \in {{}, With}
  /\ UNCHANGED <<sender, receiver, offered, wanted, believed, taken, file, working>>

\* A short chunk of this session may never have left the process.
LosesAtMostOne ==
  \/ UNCHANGED file
  \/ \E i \in taken : \E d \in Contents :
       file[i] \in Short /\ file' = [file EXCEPT ![i] = d]

DiskFails ==
  /\ receiver = "on" /\ working
  /\ working' = FALSE
  /\ LosesAtMostOne
  /\ UNCHANGED <<sender, receiver, offered, wanted, believed, taken, record>>

SenderSucceeds ==
  /\ sender = "on" /\ sender' = "sent"
  /\ wanted = offered /\ 1..offered.total \subseteq With
  /\ UNCHANGED <<receiver, offered, wanted, believed, taken, file, record, working>>

ReceiverSucceeds ==
  /\ receiver = "on" /\ receiver' = "done"
  /\ 1..wanted.total \subseteq With
  /\ record' = NoRecord
  /\ UNCHANGED <<sender, offered, wanted, believed, taken, file, working>>

SenderFails ==
  /\ sender = "on" /\ sender' = "off"
  /\ UNCHANGED <<receiver, offered, wanted, believed, taken, file, record, working>>

ReceiverFails ==
  /\ receiver = "on" /\ receiver' = "off"
  /\ LosesAtMostOne
  /\ UNCHANGED <<sender, offered, wanted, believed, taken, record, working>>

Next ==
  \/ Start \/ Prepare \/ Agree \/ Resume
  \/ \E i \in Slots : Take(i)
  \/ Record \/ DiskFails
  \/ SenderSucceeds \/ ReceiverSucceeds \/ SenderFails \/ ReceiverFails

Spec == Init /\ [][Next]_vars
=============================================================================
