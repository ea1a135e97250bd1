-------------------------- MODULE SetupInvariants --------------------------
(***************************************************************************)
(* The inductive invariant behind the safety properties of SessionSetup.   *)
(***************************************************************************)
EXTENDS SessionSetup

Calling == {"hello", "key", "path", "transfer"}
Serving == {"hello", "prompt", "key", "offer", "transfer"}

Waits(q, c) == \E i \in DOMAIN backlog[q] : backlog[q][i] = c

\* A connection joins two peers, and is forgotten when neither holds it.
WireInv ==
  \A c \in Conns :
    LET w == wire[c] IN
    w # NoWire =>
      /\ w.client \in Peers
      /\ w.server \in Peers \ {w.client}
      /\ w.ends # {}
      /\ w.ends \subseteq {w.client, w.server}

\* A main thread has its own end of the connection it is the client of, and
\* lives no longer than its process.
ClientInv ==
  \A p \in Peers :
    /\ listener[p].pc = "off" => client[p].pc = "off"
    /\ client[p].pc \notin Calling => client[p].conn = None
    /\ client[p].pc \in Calling =>
         /\ client[p].conn \in Conns
         /\ wire[client[p].conn].client = p
         /\ p \in wire[client[p].conn].ends

\* So has a listener thread, of the one it serves.
ListenerInv ==
  \A q \in Peers :
    /\ listener[q].pc \notin Serving => listener[q].conn = None
    /\ listener[q].pc \in Serving =>
         /\ listener[q].conn \in Conns
         /\ wire[listener[q].conn].server = q
         /\ q \in wire[listener[q].conn].ends
         /\ ~Waits(q, listener[q].conn)

\* And a running listener, of those in its backlog, each of which is there
\* once.
BacklogInv ==
  \A q \in Peers :
    /\ listener[q].pc = "off" => backlog[q] = <<>>
    /\ \A i \in DOMAIN backlog[q] :
         /\ wire[backlog[q][i]].server = q
         /\ q \in wire[backlog[q][i]].ends
         /\ \A j \in DOMAIN backlog[q] : backlog[q][i] = backlog[q][j] => i = j

\* Who owns which end of a connection.
OwnersInv == WireInv /\ ClientInv /\ ListenerInv /\ BacklogInv /\ NoSocketLost

-----------------------------------------------------------------------------
(* How far the two ends of a connection can be apart, while both are open: *)
(* the listener q is at s with connection w, the client is p.              *)

\* The frames of s are on their way to p, or as many of them as a broken
\* connection has left.
OnTheirWay(s, w, p) ==
  \/ w.in[p] = s
  \/ w.broken /\ w.in[p] \in Prefixes(s)

Greeting(s, w, p, q) ==
  \/ /\ s \in {"waiting", "hello"}
     /\ OnTheirWay(<<>>, w, p)
     /\ OnTheirWay(<<Hello(p)>>, w, q)
  \/ /\ s = "prompt"
     /\ OnTheirWay(<<HelloAck(q)>>, w, p)
     /\ OnTheirWay(<<>>, w, q)
  \/ /\ s = "key"
     /\ OnTheirWay(<<HelloAck(q), Key(q)>>, w, p)
     /\ OnTheirWay(<<>>, w, q)

\* The client sends its key before the other user is asked, the listener
\* only after; a key read together with HELLO_ACK is lost.
Exchanging(s, w, p, q) ==
  \/ s = "prompt" /\ w.in[p] = <<>> /\ OnTheirWay(<<Key(p)>>, w, q)
  \/ s = "key" /\ w.in[p] \in {<<>>, <<Key(q)>>} /\ OnTheirWay(<<Key(p)>>, w, q)
  \/ /\ s = "offer"
     /\ w.in[p] \in {<<>>, <<Key(q)>>}
     /\ w.in[q] = <<>>
     /\ listener[q].key = p

Choosing(s, w, p, q) ==
  /\ client[p].key = q
  /\ w.in[p] = <<>>
  /\ \/ s = "key" /\ OnTheirWay(<<Key(p)>>, w, q)
     \/ s = "offer" /\ w.in[q] = <<>> /\ listener[q].key = p

Transferring(s, w, p, q) ==
  /\ client[p].key = q
  /\ w.in[p] = <<>>
  /\ \/ s = "key" /\ OnTheirWay(<<Key(p), Offer(p)>>, w, q)
     \/ s = "offer" /\ w.in[q] \in {<<>>, <<Offer(p)>>} /\ listener[q].key = p
     \/ s = "transfer" /\ w.in[q] = <<>> /\ listener[q].key = p

Stage(c, q) == IF listener[q].conn = c THEN listener[q].pc ELSE "waiting"

InStep(s, w, p, q) ==
  \/ client[p].pc = "hello" /\ Greeting(s, w, p, q)
  \/ client[p].pc = "key" /\ Exchanging(s, w, p, q)
  \/ client[p].pc = "path" /\ Choosing(s, w, p, q)
  \/ client[p].pc = "transfer" /\ Transferring(s, w, p, q)

InStepAt(c) ==
  LET w == wire[c]  p == w.client  q == w.server IN
  w.ends = {p, q} => InStep(Stage(c, q), w, p, q)

StageInv == \A c \in Conns : InStepAt(c)

\* The invariant of set-up as a whole: every thread holds its own end of the
\* connection it works on and no other, and while both ends of a connection
\* are open, the listener (performServerHandshake, performKeyExchange, recvFile)
\* is no further from the client than the frames under way between them allow.
SetupInv ==
  /\ TypeOK
  /\ OwnersInv
  /\ StageInv
=============================================================================
