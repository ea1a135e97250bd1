---------------------------- MODULE FrameChannel ----------------------------
(***************************************************************************)
(* What TcpLink takes one direction of a connection for: frames are put at *)
(* the end of the queue toSender, and a call of recvEncryptedMessage takes *)
(* them as Reads says.                                                     *)
(***************************************************************************)
EXTENDS TcpLink

CONSTANT Nothing  \* no message has been received

VARIABLE received  \* the message the last successful call returned

ChannelInit ==
  /\ toSender = <<>>
  /\ received = Nothing

\* A whole frame.
SendFrame ==
  /\ toSender' # <<>>
  /\ LET m == toSender'[Len(toSender')]
     IN  m # Garbled /\ toSender' = Append(toSender, m)
  /\ UNCHANGED received

ReceiveFrame ==
  \E r \in Reads(toSender) : toSender' = r.rest /\ received' = r.msg

\* The call goes on after it dropped what it could not decode.
SwallowFrame ==
  \E r \in Reads(toSender) :
    r.msg = Garbled /\ toSender' = r.rest /\ UNCHANGED received

\* The next session has a connection of its own.
NewConnection ==
  /\ toSender' = <<>>
  /\ received' = Nothing

ChannelNext == SendFrame \/ ReceiveFrame \/ SwallowFrame \/ NewConnection

ChannelSpec == ChannelInit /\ [][ChannelNext]_<<toSender, received>>
=============================================================================
