---------------------------- MODULE SessionSetup ----------------------------
(***************************************************************************)
(* How two peers come to a session: main.cpp and the first half of         *)
(* ProtocolSession.  Every process runs a listener thread, which serves    *)
(* one connection at a time; one that was started to send also runs a main *)
(* thread, the client of one connection at a time.                         *)
(*                                                                         *)
(*   client                        listener                                *)
(*   connect, HELLO        ---->   accept, recvHello                       *)
(*   recvHelloAck          <----   HELLO_ACK, then "Allow? (y/n)"          *)
(*   KEY                   ---->                                           *)
(*                         <----   KEY, once the user has said yes         *)
(*   "Enter File Path"             waits for an offer                      *)
(*   FILE_OFFER            ---->   recvFile                                *)
(*                                                                         *)
(* What happens from the offer on is FileTransfer; here a transfer either  *)
(* delivers (Sent stands for the last acknowledgement) or it does not.     *)
(***************************************************************************)
EXTENDS Naturals, Sequences

CONSTANTS
  Peers,        \* processes, one per machine or per config file
  Senders,      \* those whose user may choose "Send File"
  Version,      \* PROTOCOL_VERSION of each peer's build
  Conns,        \* names for connections: a bound, see Dial
  Backlog,      \* connections that wait to be accepted: listen(listenSock, 1)
  SetupFaults,  \* "coalesce", "kill" a process, "reset" a connection
  None          \* no connection, no key

ASSUME SetupAssumption ==
  /\ Senders \subseteq Peers
  /\ Version \in [Peers -> Nat]
  /\ Backlog \in Nat \ {0}
  /\ None \notin Peers \cup Conns
  /\ SetupFaults \subseteq {"coalesce", "kill", "reset"}

VARIABLES
  client,    \* main thread: where it is, its connection, the key it took
  listener,  \* listener thread: the same
  backlog,   \* connections to a peer that its listener has not accepted
  wire       \* what is known of each connection

vars == <<client, listener, backlog, wire>>

Hello(p) == [type |-> "HELLO", of |-> p]
HelloAck(p) == [type |-> "HELLO_ACK", of |-> p]
Key(p) == [type |-> "KEY", of |-> p]
Offer(p) == [type |-> "OFFER", of |-> p]
Sent(p) == [type |-> "SENT", of |-> p]
Frames == [type : {"HELLO", "HELLO_ACK", "KEY", "OFFER", "SENT"}, of : Peers]

ClientStates ==
  {"off", "select", "hello", "key", "path", "transfer", "again", "exit"}
ListenerStates ==
  {"off", "accept", "hello", "prompt", "key", "offer", "transfer"}

Thread(states) == [pc : states, conn : Conns \cup {None}, key : Peers \cup {None}]
Idle(pc) == [pc |-> pc, conn |-> None, key |-> None]

\* ends: the peers whose socket is open; in: frames on their way to a peer.
Wires ==
  [client : Peers \cup {None}, server : Peers \cup {None}, ends : SUBSET Peers,
   broken : BOOLEAN, in : [Peers -> Seq(Frames)]]
Silence == [p \in Peers |-> <<>>]
NoWire ==
  [client |-> None, server |-> None, ends |-> {}, broken |-> FALSE, in |-> Silence]

TypeOK ==
  /\ client \in [Peers -> Thread(ClientStates)]
  /\ listener \in [Peers -> Thread(ListenerStates)]
  /\ backlog \in [Peers -> Seq(Conns)]
  /\ \A p \in Peers : Len(backlog[p]) <= Backlog
  /\ wire \in [Conns -> Wires]

Init ==
  /\ client = [p \in Peers |-> Idle("off")]
  /\ listener = [p \in Peers |-> Idle("off")]
  /\ backlog = [p \in Peers |-> <<>>]
  /\ wire = [c \in Conns |-> NoWire]

-----------------------------------------------------------------------------
(* Sockets.                                                                *)

\* sendBytes: nobody looks at its result.
SentTo(w, p, frame) ==
  IF p \in w.ends /\ ~w.broken THEN [w EXCEPT !.in[p] = Append(@, frame)] ELSE w

\* The loops of recvHello, recvHelloAck and performKeyExchange keep their
\* buffer in a local variable: what was read with the first frame is lost,
\* and a frame of which the first bytes are lost is taken to be lost whole.
\* (In the code its other bytes still come; in the middle of a key they would
\* have to hold three zeros in a row, where a length would be, to be decoded.)
ReadBy(w, p) ==
  {[w EXCEPT !.in[p] = rest] :
     rest \in {Tail(w.in[p])} \cup (IF "coalesce" \in SetupFaults THEN {<<>>} ELSE {})}

Prefixes(s) == {SubSeq(s, 1, n) : n \in 0..Len(s)}

Arrived(p, c) == wire[c].in[p] # <<>>

\* recv returns 0 or an error.
HungUp(p, c) == ~Arrived(p, c) /\ (wire[c].broken \/ wire[c].ends = {p})

\* deriveSharedKey finds no key in a frame of another type.
KeyIn(frame) == IF frame.type = "KEY" THEN frame.of ELSE None

\* The destructor of TcpConnection; what this end sent still arrives.
ClosedBy(w, p) ==
  IF w.ends \subseteq {p}
  THEN NoWire
  ELSE [w EXCEPT !.ends = @ \ {p}, !.in[p] = <<>>]

CloseAs(p, c) == wire' = [wire EXCEPT ![c] = ClosedBy(@, p)]
-----------------------------------------------------------------------------
(* The main thread of a sending process.                                   *)

\* Which of them is taken makes no difference.
Free == {c \in Conns : wire[c] = NoWire}

\* Seeded fault: a backlog of n takes n + 1.
HasRoomForMore(q) == Len(backlog[q]) <= Backlog

HasRoom(q) == Len(backlog[q]) < Backlog

\* connectTo succeeds while the backlog of the other peer has room, and
\* sendHello follows at once.
Dial(p, q) ==
  /\ client[p].pc = "select"
  /\ q # p
  /\ listener[q].pc # "off"
  /\ HasRoom(q)
  /\ Free # {}
  /\ LET c == CHOOSE d \in Free : TRUE IN
       /\ wire' = [wire EXCEPT ![c] =
            [client |-> p, server |-> q, ends |-> {p, q}, broken |-> FALSE,
             in |-> [Silence EXCEPT ![q] = <<Hello(p)>>]]]
       /\ client' = [client EXCEPT ![p] = [Idle("hello") EXCEPT !.conn = c]]
       /\ backlog' = [backlog EXCEPT ![q] = Append(@, c)]
  /\ UNCHANGED listener

DialFails(p, q) ==
  /\ client[p].pc = "select"
  /\ q # p
  /\ listener[q].pc = "off" \/ ~HasRoom(q)
  /\ client' = [client EXCEPT ![p].pc = "again"]
  /\ UNCHANGED <<listener, backlog, wire>>

\* The session is over for the client: "Press Enter to continue".
ClientGivesUp(p) ==
  /\ CloseAs(p, client[p].conn)
  /\ client' = [client EXCEPT ![p] = Idle("again")]
  /\ UNCHANGED <<listener, backlog>>

Greeted(p, frame, type) == frame.type = type /\ Version[frame.of] = Version[p]

\* recvHelloAck, and performKeyExchange up to its loop.
RecvHelloAck(p) ==
  LET c == client[p].conn IN
  /\ client[p].pc = "hello"
  /\ Arrived(p, c)
  /\ IF Greeted(p, Head(wire[c].in[p]), "HELLO_ACK")
     THEN /\ \E w \in ReadBy(wire[c], p) :
               wire' = [wire EXCEPT ![c] = SentTo(w, wire[c].server, Key(p))]
          /\ client' = [client EXCEPT ![p].pc = "key"]
          /\ UNCHANGED <<listener, backlog>>
     ELSE ClientGivesUp(p)

\* performKeyExchange takes the first frame that comes, whatever its type.
\* If recv fails instead, the loop tries again, for ever: no step.
ClientRecvKey(p) ==
  LET c == client[p].conn IN
  /\ client[p].pc = "key"
  /\ Arrived(p, c)
  /\ \E w \in ReadBy(wire[c], p) : wire' = [wire EXCEPT ![c] = w]
  /\ client' = [client EXCEPT ![p] =
       [@ EXCEPT !.pc = "path", !.key = KeyIn(Head(wire[c].in[p]))]]
  /\ UNCHANGED <<listener, backlog>>

\* askFilePath, and sendFile up to its offer.
EnterPath(p) ==
  LET c == client[p].conn IN
  /\ client[p].pc = "path"
  /\ wire' = [wire EXCEPT ![c] = SentTo(@, wire[c].server, Offer(p))]
  /\ client' = [client EXCEPT ![p].pc = "transfer"]
  /\ UNCHANGED <<listener, backlog>>

\* sendFile cannot read the file.
EnterBadPath(p) == client[p].pc = "path" /\ ClientGivesUp(p)

ClientLosesPeer(p) ==
  /\ client[p].pc \in {"hello", "transfer"}
  /\ HungUp(p, client[p].conn)
  /\ ClientGivesUp(p)

\* sendFile returns true: main leaves its loop.
FileSent(p) ==
  LET c == client[p].conn IN
  /\ client[p].pc = "transfer"
  /\ Arrived(p, c)
  /\ CloseAs(p, c)
  /\ client' = [client EXCEPT ![p] = Idle("exit")]
  /\ UNCHANGED <<listener, backlog>>

PressEnter(p) ==
  /\ client[p].pc = "again"
  /\ client' = [client EXCEPT ![p].pc = "select"]
  /\ UNCHANGED <<listener, backlog, wire>>

\* The user picks no peer.
Cancel(p) ==
  /\ client[p].pc = "select"
  /\ client' = [client EXCEPT ![p].pc = "exit"]
  /\ UNCHANGED <<listener, backlog, wire>>
-----------------------------------------------------------------------------
(* The listener thread of every process.                                   *)

ListenerMoves(q, pc) ==
  /\ listener' = [listener EXCEPT ![q].pc = pc]
  /\ UNCHANGED <<client, backlog>>

\* The connection is closed with its session; back to acceptClient.
ListenerHangsUp(q) ==
  /\ CloseAs(q, listener[q].conn)
  /\ listener' = [listener EXCEPT ![q] = Idle("accept")]
  /\ UNCHANGED <<client, backlog>>

AcceptClient(q) ==
  /\ listener[q].pc = "accept"
  /\ backlog[q] # <<>>
  /\ listener' = [listener EXCEPT ![q] = [Idle("hello") EXCEPT !.conn = Head(backlog[q])]]
  /\ backlog' = [backlog EXCEPT ![q] = Tail(@)]
  /\ UNCHANGED <<client, wire>>

\* Seeded fault: the key goes out with HELLO_ACK.
RecvHelloEager(q) ==
  LET c == listener[q].conn IN
  /\ listener[q].pc = "hello"
  /\ Arrived(q, c)
  /\ Greeted(q, Head(wire[c].in[q]), "HELLO")
  /\ \E w \in ReadBy(wire[c], q) :
       wire' = [wire EXCEPT ![c] =
         SentTo(SentTo(w, wire[c].client, HelloAck(q)), wire[c].client, Key(q))]
  /\ ListenerMoves(q, "prompt")

\* Seeded fault: HELLO_ACK is sent twice.
RecvHelloTwice(q) ==
  LET c == listener[q].conn IN
  /\ listener[q].pc = "hello"
  /\ Arrived(q, c)
  /\ Greeted(q, Head(wire[c].in[q]), "HELLO")
  /\ \E w \in ReadBy(wire[c], q) :
       wire' = [wire EXCEPT ![c] =
         SentTo(SentTo(w, wire[c].client, HelloAck(q)), wire[c].client, HelloAck(q))]
  /\ ListenerMoves(q, "prompt")

\* performServerHandshake, up to the prompt.
RecvHello(q) ==
  LET c == listener[q].conn IN
  /\ listener[q].pc = "hello"
  /\ Arrived(q, c)
  /\ Greeted(q, Head(wire[c].in[q]), "HELLO")
  /\ \E w \in ReadBy(wire[c], q) :
       wire' = [wire EXCEPT ![c] = SentTo(w, wire[c].client, HelloAck(q))]
  /\ ListenerMoves(q, "prompt")

RefuseHello(q) ==
  LET c == listener[q].conn IN
  /\ listener[q].pc = "hello"
  /\ Arrived(q, c)
  /\ ~Greeted(q, Head(wire[c].in[q]), "HELLO")
  /\ ListenerHangsUp(q)

\* The user answers y: performKeyExchange up to its loop.
Allow(q) ==
  LET c == listener[q].conn IN
  /\ listener[q].pc = "prompt"
  /\ wire' = [wire EXCEPT ![c] = SentTo(@, wire[c].client, Key(q))]
  /\ ListenerMoves(q, "key")

\* Seeded fault: the session is left without closing its connection.
RefuseKeepsOpen(q) ==
  /\ listener[q].pc = "prompt"
  /\ listener' = [listener EXCEPT ![q] = Idle("accept")]
  /\ UNCHANGED <<client, backlog, wire>>

Refuse(q) == listener[q].pc = "prompt" /\ ListenerHangsUp(q)

ListenerRecvKey(q) ==
  LET c == listener[q].conn IN
  /\ listener[q].pc = "key"
  /\ Arrived(q, c)
  /\ \E w \in ReadBy(wire[c], q) : wire' = [wire EXCEPT ![c] = w]
  /\ listener' = [listener EXCEPT ![q] =
       [@ EXCEPT !.pc = "offer", !.key = KeyIn(Head(wire[c].in[q]))]]
  /\ UNCHANGED <<client, backlog>>

\* recvFile reads the offer; a frame of another type would end it.
RecvOffer(q) ==
  LET c == listener[q].conn IN
  /\ listener[q].pc = "offer"
  /\ Arrived(q, c)
  /\ IF Head(wire[c].in[q]).type = "OFFER"
     THEN /\ \E w \in ReadBy(wire[c], q) : wire' = [wire EXCEPT ![c] = w]
          /\ ListenerMoves(q, "transfer")
     ELSE ListenerHangsUp(q)

\* recvFile returns, whether the file was delivered or not.
RecvFileReturns(q) ==
  LET c == listener[q].conn IN
  /\ listener[q].pc = "transfer"
  /\ \E w \in {wire[c], SentTo(wire[c], wire[c].client, Sent(q))} :
       wire' = [wire EXCEPT ![c] = ClosedBy(w, q)]
  /\ listener' = [listener EXCEPT ![q] = Idle("accept")]
  /\ UNCHANGED <<client, backlog>>

\* Seeded fault: recvFile does not look at the result of its receive.
ListenerLosesPeerEarlyOnly(q) ==
  /\ listener[q].pc = "hello"
  /\ HungUp(q, listener[q].conn)
  /\ ListenerHangsUp(q)

ListenerLosesPeer(q) ==
  /\ listener[q].pc \in {"hello", "offer"}
  /\ HungUp(q, listener[q].conn)
  /\ ListenerHangsUp(q)
-----------------------------------------------------------------------------
(* Processes and the network.                                              *)

Start(p) ==
  /\ listener[p].pc = "off"
  /\ \E pc \in {"off"} \cup (IF p \in Senders THEN {"select"} ELSE {}) :
       client' = [client EXCEPT ![p] = Idle(pc)]
  /\ listener' = [listener EXCEPT ![p] = Idle("accept")]
  /\ UNCHANGED <<backlog, wire>>

\* The process ends, and takes its threads and sockets with it.
Ends(p) ==
  /\ client' = [client EXCEPT ![p] = Idle("off")]
  /\ listener' = [listener EXCEPT ![p] = Idle("off")]
  /\ backlog' = [backlog EXCEPT ![p] = <<>>]
  /\ wire' = [c \in Conns |->
       IF p \in wire[c].ends THEN ClosedBy(wire[c], p) ELSE wire[c]]

\* main returns.  The listener was detached and is not waited for.
Exit(p) == client[p].pc = "exit" /\ Ends(p)

Kill(p) == "kill" \in SetupFaults /\ listener[p].pc # "off" /\ Ends(p)

\* Frames in flight are lost from some point on, and both ends are told.
Reset(c) ==
  /\ "reset" \in SetupFaults
  /\ wire[c].ends # {}
  /\ ~wire[c].broken
  /\ \E s \in Prefixes(wire[c].in[wire[c].client]),
        t \in Prefixes(wire[c].in[wire[c].server]) :
       wire' = [wire EXCEPT
         ![c].broken = TRUE,
         ![c].in = [Silence EXCEPT ![wire[c].client] = s, ![wire[c].server] = t]]
  /\ UNCHANGED <<client, listener, backlog>>

ClientThread(p) ==
  \/ RecvHelloAck(p)
  \/ ClientRecvKey(p)
  \/ ClientLosesPeer(p)
  \/ FileSent(p)
  \/ Exit(p)

ListenerThread(q) ==
  \/ AcceptClient(q)
  \/ RecvHello(q)
  \/ RefuseHello(q)
  \/ ListenerRecvKey(q)
  \/ RecvOffer(q)
  \/ ListenerLosesPeer(q)

\* What waits for a user, or for the transfer.
User(p) ==
  \/ \E q \in Peers : Dial(p, q) \/ DialFails(p, q)
  \/ EnterPath(p)
  \/ EnterBadPath(p)
  \/ PressEnter(p)
  \/ Cancel(p)
  \/ Allow(p)
  \/ Refuse(p)
  \/ RecvFileReturns(p)
  \/ Start(p)
  \/ Kill(p)

Next ==
  \/ \E p \in Peers : ClientThread(p) \/ ListenerThread(p) \/ User(p)
  \/ \E c \in Conns : Reset(c)

Spec == Init /\ [][Next]_vars

\* A thread that is not blocked keeps running.  Nothing is assumed of users.
FairSpec ==
  /\ Spec
  /\ \A p \in Peers : WF_vars(ClientThread(p)) /\ WF_vars(ListenerThread(p))
-----------------------------------------------------------------------------
(* Safety.                                                                 *)

\* A client is asked for a file only after the user of the peer it has called
\* said yes to this very connection: as long as the peer keeps it open, its
\* listener is past the prompt, and past it with this connection (main.cpp,
\* lines 34 to 42).
ConsentFirst ==
  \A p \in Peers :
    client[p].pc \in {"path", "transfer"} =>
      LET c == client[p].conn  q == wire[c].server IN
      q \in wire[c].ends =>
        listener[q].conn = c /\ listener[q].pc \in {"key", "offer", "transfer"}

\* What the two ends of a connection took for each other's public key was
\* that, although performKeyExchange looks at no type: they agree on a key
\* whenever both are past the exchange.
KeysAgree ==
  \A p, q \in Peers :
    /\ client[p].conn # None
    /\ client[p].conn = listener[q].conn
    /\ client[p].pc \in {"path", "transfer"}
    /\ listener[q].pc \in {"offer", "transfer"}
    => client[p].key = q /\ listener[q].key = p

\* An open socket belongs to the thread whose session is on it, or waits in
\* the backlog: no path of main.cpp leaves a session and loses its socket.
NoSocketLost ==
  \A c \in Conns : \A p \in wire[c].ends :
    \/ p = wire[c].client /\ client[p].conn = c
    \/ p = wire[c].server /\ listener[p].conn = c
    \/ p = wire[c].server /\ \E i \in DOMAIN backlog[p] : backlog[p][i] = c

-----------------------------------------------------------------------------
(* Liveness.                                                               *)

\* The client has gone and left no key: performKeyExchange never returns.
Spins(pc, p, c) == pc = "key" /\ HungUp(p, c)

\* The client of a listener that waits for an offer has no key and none is on
\* its way: it was read with HELLO_ACK and dropped (recvHelloAck).
KeyLost(p, c) ==
  "coalesce" \in SetupFaults /\ client[p].pc = "key" /\ ~Arrived(p, c)

\* It has sent its offer and none is on its way: it was read with the key and
\* dropped (performKeyExchange, lines 72 to 75).
OfferLost(p, q, c) ==
  "coalesce" \in SetupFaults /\ client[p].pc = "transfer" /\ ~Arrived(q, c)

\* The listener comes back to accept unless it
\*   - waits for a user, at its own prompts (or in a transfer) or for the path
\*     that the client's user has to type, or
\*   - is held by one of the three ways the code has to hang before a transfer:
\*     the key of a client that has gone, a key or an offer that was dropped.
ListenerComesBack ==
  \A q \in Peers :
    listener[q].pc # "accept" ~>
      LET c == listener[q].conn  p == wire[c].client IN
      \/ listener[q].pc \in {"off", "accept", "prompt", "transfer"}
      \/ Spins(listener[q].pc, q, c)
      \/ /\ listener[q].pc = "offer" /\ client[p].conn = c
         /\ client[p].pc = "path" \/ KeyLost(p, c) \/ OfferLost(p, q, c)

\* main.cpp, line 127, "Connection was rejected by the remote peer": a client
\* whose peer has refused, or gone, finds out.
RejectionNoticed ==
  \A p \in Peers :
    (client[p].pc = "key" /\ HungUp(p, client[p].conn)) ~> client[p].pc # "key"
=============================================================================
