----------------------------- MODULE SetupProofs -----------------------------
(***************************************************************************)
(* The safety properties of SessionSetup, for any peers, builds, numbers   *)
(* of connections, backlog and faults.                                     *)
(***************************************************************************)
EXTENDS SetupInvariants, ShortSequences

-----------------------------------------------------------------------------
(* Sockets.                                                                *)

LEMMA FramesTyped ==
  ASSUME NEW p \in Peers
  PROVE  {Hello(p), HelloAck(p), Key(p), Offer(p), Sent(p)} \subseteq Frames
BY DEF Frames, Hello, HelloAck, Key, Offer, Sent

LEMMA NoWireTyped == NoWire \in Wires
BY DEF NoWire, Wires, Silence

\* w and v are the same connection, but for the frames on their way.
SameEnds(w, v) ==
  /\ v.client = w.client
  /\ v.server = w.server
  /\ v.ends = w.ends

\* w with another queue on its way to p.
WithQueue(w, p, x) == [w EXCEPT !.in[p] = x]

LEMMA QueueReplaced ==
  ASSUME NEW w \in Wires, NEW p \in Peers, NEW x \in Seq(Frames)
  PROVE  /\ WithQueue(w, p, x) \in Wires
         /\ SameEnds(w, WithQueue(w, p, x))
        /\ WithQueue(w, p, x).broken = w.broken
         /\ WithQueue(w, p, x).broken = w.broken
         /\ \A r \in Peers : WithQueue(w, p, x).in[r] = IF r = p THEN x ELSE w.in[r]
<1> DEFINE f == [w.in EXCEPT ![p] = x]
           v == WithQueue(w, p, x)
<1>1. /\ f \in [Peers -> Seq(Frames)]
      /\ \A r \in Peers : f[r] = IF r = p THEN x ELSE w.in[r]
  BY DEF Wires
<1>2. v = [w EXCEPT !.in = f]
  BY DEF WithQueue
<1> HIDE DEF f, v
<1>3. v.in = f /\ v \in Wires /\ SameEnds(w, v) /\ v.broken = w.broken
  BY <1>1, <1>2 DEF Wires, SameEnds
<1> QED
  BY <1>1, <1>3 DEF v

LEMMA SentToFields ==
  ASSUME NEW w \in Wires, NEW p \in Peers, NEW f \in Frames
  PROVE  /\ SentTo(w, p, f) \in Wires
         /\ SameEnds(w, SentTo(w, p, f))
         /\ \A r \in Peers : r # p => SentTo(w, p, f).in[r] = w.in[r]
         /\ SentTo(w, p, f).broken = w.broken
         /\ p \in w.ends => SentTo(w, p, f).in[p] = IF w.broken THEN w.in[p]
                                                   ELSE Append(w.in[p], f)
<1> DEFINE u == SentTo(w, p, f)
           x == Append(w.in[p], f)
<1> HIDE DEF u, x
<1>1. CASE p \in w.ends /\ ~w.broken
  <2>1. u = WithQueue(w, p, x)
    BY <1>1 DEF SentTo, WithQueue, u, x
  <2>2. x \in Seq(Frames)
    BY DEF Wires, x
  <2>3. /\ u \in Wires /\ SameEnds(w, u)
        /\ u.broken = w.broken
        /\ \A r \in Peers : u.in[r] = IF r = p THEN x ELSE w.in[r]
    BY <2>1, <2>2, QueueReplaced
  <2> QED
    BY <1>1, <2>3 DEF u, x
<1>2. CASE ~(p \in w.ends /\ ~w.broken)
  <2>1. u = w
    BY <1>2 DEF SentTo, u
  <2> QED
    BY <1>2, <2>1 DEF SameEnds, u, x
<1> QED
  BY <1>1, <1>2

LEMMA ReadByFields ==
  ASSUME NEW w \in Wires, NEW p \in Peers, w.in[p] # <<>>, NEW v \in ReadBy(w, p)
  PROVE  /\ v \in Wires
         /\ SameEnds(w, v)
         /\ \A r \in Peers : r # p => v.in[r] = w.in[r]
         /\ v.broken = w.broken
         /\ v.in[p] \in {Tail(w.in[p]), <<>>}
<1>1. PICK rest \in {Tail(w.in[p]), <<>>} : v = WithQueue(w, p, rest)
  BY DEF ReadBy, WithQueue
<1>2. rest \in Seq(Frames)
  <2>1. w.in[p] \in Seq(Frames)
    BY DEF Wires
  <2>2. Tail(w.in[p]) \in Seq(Frames)
    BY <2>1, HeadTailProperties
  <2>3. <<>> \in Seq(Frames)
    OBVIOUS
  <2> QED
    BY <2>2, <2>3, Zenon
<1>3. /\ WithQueue(w, p, rest) \in Wires
      /\ SameEnds(w, WithQueue(w, p, rest))
      /\ WithQueue(w, p, rest).broken = w.broken
      /\ \A r \in Peers :
           WithQueue(w, p, rest).in[r] = IF r = p THEN rest ELSE w.in[r]
  BY <1>2, QueueReplaced
<1> DEFINE t == Tail(w.in[p])
<1> HIDE DEF t
<1>4. rest \in {t, <<>>}
  BY <1>1 DEF t
<1>5. v.in[p] \in {t, <<>>}
  BY <1>1, <1>3, <1>4
<1> QED
  BY <1>1, <1>3, <1>5 DEF t

LEMMA PrefixesOfFew ==
  /\ Prefixes(<<>>) = {<<>>}
  /\ \A a : Prefixes(<<a>>) = {<<>>, <<a>>}
  /\ \A a, b : Prefixes(<<a, b>>) = {<<>>, <<a>>, <<a, b>>}
BY CutShort, Zenon DEF Prefixes, CutsOf

\* What a frame sent adds to those on their way.
LEMMA Sending ==
  ASSUME NEW w \in Wires, NEW p \in Peers, p \in w.ends, NEW f \in Frames
  PROVE  /\ OnTheirWay(<<>>, w, p) => OnTheirWay(<<f>>, SentTo(w, p, f), p)
         /\ \A a : OnTheirWay(<<a>>, w, p) => OnTheirWay(<<a, f>>, SentTo(w, p, f), p)
         /\ \A s : \A r \in Peers \ {p} :
              OnTheirWay(s, w, r) => OnTheirWay(s, SentTo(w, p, f), r)
<1> DEFINE v == SentTo(w, p, f)
<1>1. /\ v.broken = w.broken
      /\ v.in[p] = IF w.broken THEN w.in[p] ELSE Append(w.in[p], f)
      /\ \A r \in Peers \ {p} : v.in[r] = w.in[r]
  BY SentToFields
<1> HIDE DEF v
<1>2. OnTheirWay(<<>>, w, p) => OnTheirWay(<<f>>, v, p)
  BY <1>1, OneElement, PrefixesOfFew DEF OnTheirWay
<1>3. ASSUME NEW a, OnTheirWay(<<a>>, w, p) PROVE OnTheirWay(<<a, f>>, v, p)
  <2>1. w.in[p] = <<a>> \/ (w.broken /\ w.in[p] \in {<<>>, <<a>>})
    BY <1>3, PrefixesOfFew DEF OnTheirWay
  <2>2. v.in[p] = <<a, f>> \/ (v.broken /\ v.in[p] \in {<<>>, <<a>>, <<a, f>>})
    BY <1>1, <2>1, TwoElements
  <2> QED
    BY <2>2, PrefixesOfFew DEF OnTheirWay
<1>4. ASSUME NEW s, NEW r \in Peers \ {p}, OnTheirWay(s, w, r) PROVE OnTheirWay(s, v, r)
  BY <1>1, <1>4 DEF OnTheirWay
<1> QED
  BY <1>2, <1>3, <1>4 DEF v

\* What is read, and left, of those on their way.
LEMMA Reading ==
  ASSUME NEW w \in Wires, NEW p \in Peers, w.in[p] # <<>>, NEW v \in ReadBy(w, p)
  PROVE  /\ ~OnTheirWay(<<>>, w, p)
         /\ \A a : OnTheirWay(<<a>>, w, p) => Head(w.in[p]) = a /\ v.in[p] = <<>>
         /\ \A a, b : OnTheirWay(<<a, b>>, w, p) =>
                     Head(w.in[p]) = a /\ v.in[p] \in {<<>>, <<b>>}
         /\ \A s : \A r \in Peers \ {p} : OnTheirWay(s, w, r) => OnTheirWay(s, v, r)
<1>1. /\ v.broken = w.broken
      /\ v.in[p] \in {Tail(w.in[p]), <<>>}
      /\ \A r \in Peers \ {p} : v.in[r] = w.in[r]
  BY ReadByFields
<1>2. ~OnTheirWay(<<>>, w, p)
  BY PrefixesOfFew DEF OnTheirWay
<1>3. ASSUME NEW a, OnTheirWay(<<a>>, w, p)
      PROVE  Head(w.in[p]) = a /\ v.in[p] = <<>>
  <2>1. w.in[p] = <<a>>
    BY <1>3, PrefixesOfFew DEF OnTheirWay
  <2> QED
    BY <1>1, <2>1, OneElement
<1>4. ASSUME NEW a, NEW b, OnTheirWay(<<a, b>>, w, p)
      PROVE  Head(w.in[p]) = a /\ v.in[p] \in {<<>>, <<b>>}
  <2>1. w.in[p] \in {<<a>>, <<a, b>>}
    BY <1>4, PrefixesOfFew DEF OnTheirWay
  <2>2. CASE w.in[p] = <<a>>
    BY <1>1, <2>2, OneElement
  <2>3. CASE w.in[p] = <<a, b>>
    BY <1>1, <2>3, TwoElements
  <2> QED
    BY <2>1, <2>2, <2>3
<1>5. ASSUME NEW s, NEW r \in Peers \ {p}, OnTheirWay(s, w, r) PROVE OnTheirWay(s, v, r)
  BY <1>1, <1>5 DEF OnTheirWay
<1> QED
  BY <1>2, <1>3, <1>4, <1>5

LEMMA ClosedByFields ==
  ASSUME NEW w \in Wires, NEW p \in Peers
  PROVE  /\ ClosedBy(w, p) \in Wires
         /\ ClosedBy(w, p).ends = w.ends \ {p}
         /\ \/ ClosedBy(w, p) = NoWire
            \/ /\ ClosedBy(w, p).client = w.client
               /\ ClosedBy(w, p).server = w.server
               /\ ClosedBy(w, p).ends # {}
<1>1. CASE w.ends \subseteq {p}
  BY <1>1, NoWireTyped DEF ClosedBy, NoWire
<1>2. CASE ~(w.ends \subseteq {p})
  <2> DEFINE u == [w EXCEPT !.ends = w.ends \ {p}]
  <2>1. /\ u \in Wires
        /\ u.ends = w.ends \ {p}
        /\ u.client = w.client
        /\ u.server = w.server
    BY DEF Wires
  <2>2. ClosedBy(w, p) = WithQueue(u, p, <<>>)
    BY <1>2 DEF ClosedBy, WithQueue
  <2> HIDE DEF u
  <2>3. WithQueue(u, p, <<>>) \in Wires /\ SameEnds(u, WithQueue(u, p, <<>>))
    BY <2>1, QueueReplaced, <<>> \in Seq(Frames)
  <2> QED
    BY <1>2, <2>1, <2>2, <2>3 DEF SameEnds
<1> QED
  BY <1>1, <1>2

-----------------------------------------------------------------------------
(* Owners of sockets.                                                      *)

\* A thread is on one connection before and after a step, or on none.
SamePlace(t, u, open) == u.conn = t.conn /\ (u.pc \in open <=> t.pc \in open)

\* A step that opens and closes nothing.
KeepsSockets ==
  /\ UNCHANGED backlog
  /\ \A c \in Conns :
       SameEnds(wire[c], wire'[c]) /\ (wire[c] = NoWire => wire'[c] = NoWire)
  /\ \A p \in Peers :
       /\ SamePlace(client[p], client'[p], Calling)
       /\ SamePlace(listener[p], listener'[p], Serving)
       /\ client[p].pc = "off" => client'[p].pc = "off"
       /\ listener'[p].pc = "off" => listener[p].pc = "off"

LEMMA SameOwners ==
  ASSUME TypeOK, OwnersInv, TypeOK', KeepsSockets
  PROVE  OwnersInv'
<1>1. /\ \A c \in Conns : /\ wire'[c].client = wire[c].client
                         /\ wire'[c].server = wire[c].server
                         /\ wire'[c].ends = wire[c].ends
      /\ \A p \in Peers : /\ client'[p].conn = client[p].conn
                         /\ (client'[p].pc \in Calling <=> client[p].pc \in Calling)
      /\ \A q \in Peers : /\ listener'[q].conn = listener[q].conn
                         /\ (listener'[q].pc \in Serving <=> listener[q].pc \in Serving)
      /\ \A q \in Peers : client[q].pc = "off" => client'[q].pc = "off"
      /\ \A q \in Peers : listener'[q].pc = "off" => listener[q].pc = "off"
      /\ backlog' = backlog
  BY DEF KeepsSockets, SameEnds, SamePlace
<1>2. WireInv'
  BY <1>1 DEF KeepsSockets, OwnersInv, WireInv
<1>3. ClientInv'
  <2>1. ASSUME NEW p \in Peers, client[p].pc \in Calling
        PROVE  /\ client'[p].conn \in Conns
               /\ wire'[client'[p].conn].client = p
               /\ p \in wire'[client'[p].conn].ends
    BY <1>1, <2>1 DEF OwnersInv, ClientInv
  <2>2. ASSUME NEW p \in Peers, client[p].pc \notin Calling
        PROVE  client'[p].conn = None
    BY <1>1, <2>2 DEF OwnersInv, ClientInv
  <2>3. \A p \in Peers : listener'[p].pc = "off" => client'[p].pc = "off"
    BY <1>1 DEF OwnersInv, ClientInv
  <2> QED
    BY <1>1, <2>1, <2>2, <2>3 DEF ClientInv
<1>4. ListenerInv'
  <2>1. ASSUME NEW q \in Peers, listener[q].pc \in Serving
        PROVE  /\ listener'[q].conn \in Conns
               /\ wire'[listener'[q].conn].server = q
               /\ q \in wire'[listener'[q].conn].ends
               /\ ~Waits(q, listener[q].conn)
    BY <1>1, <2>1 DEF OwnersInv, ListenerInv
  <2>2. ASSUME NEW q \in Peers, listener[q].pc \notin Serving
        PROVE  listener'[q].conn = None
    BY <1>1, <2>2 DEF OwnersInv, ListenerInv
  <2>3. \A q \in Peers : Waits(q, listener[q].conn)' <=> Waits(q, listener[q].conn)
    BY <1>1 DEF Waits
  <2> QED
    BY <1>1, <2>1, <2>2, <2>3 DEF ListenerInv
<1>5. BacklogInv'
  <2>1. \A q \in Peers : \A i \in DOMAIN backlog[q] : backlog[q][i] \in Conns
    BY DEF TypeOK
  <2> QED
    BY <1>1, <2>1 DEF KeepsSockets, OwnersInv, BacklogInv
<1>6. NoSocketLost'
  <2>1. \A c \in Conns : wire[c].ends \subseteq Peers
    BY DEF TypeOK, Wires
  <2> QED
    BY <1>1, <2>1 DEF OwnersInv, NoSocketLost
<1> QED
  BY <1>2, <1>3, <1>4, <1>5, <1>6 DEF OwnersInv

\* Who is on a connection that has both its ends.
LEMMA OpenConnection ==
  ASSUME TypeOK, OwnersInv, NEW c \in Conns,
         wire[c].ends = {wire[c].client, wire[c].server}
  PROVE  /\ wire[c].client \in Peers
         /\ wire[c].server \in Peers
         /\ wire[c].client # wire[c].server
         /\ client[wire[c].client].conn = c
         /\ client[wire[c].client].pc \in Calling
         /\ wire[c] # NoWire
<1>1. wire[c] # NoWire
  BY DEF NoWire
<1>2. /\ wire[c].client \in Peers
      /\ wire[c].server \in Peers
      /\ wire[c].client # wire[c].server
  BY <1>1 DEF OwnersInv, WireInv
<1>3. client[wire[c].client].conn = c
  BY <1>2 DEF OwnersInv, NoSocketLost
<1>4. client[wire[c].client].pc \in Calling
  BY <1>2, <1>3, SetupAssumption DEF OwnersInv, ClientInv
<1> QED
  BY <1>1, <1>2, <1>3, <1>4

-----------------------------------------------------------------------------
(* Stages.                                                                 *)

\* Nothing happens to connection d or to those who are on it.
LEMMA StageKept ==
  ASSUME NEW d \in Conns, InStepAt(d), wire'[d] = wire[d],
         client'[wire[d].client] = client[wire[d].client],
         \/ listener'[wire[d].server] = listener[wire[d].server]
         \/ listener[wire[d].server].conn # d /\ listener'[wire[d].server].conn # d
  PROVE  InStepAt(d)'
<1> DEFINE w == wire[d]
           p == w.client
           q == w.server
<1>1. CASE listener'[q] = listener[q]
  BY <1>1 DEF InStepAt, InStep, Stage, Greeting, Exchanging, Choosing, Transferring
<1>2. CASE listener[q].conn # d /\ listener'[q].conn # d
  <2>1. Stage(d, q) = "waiting" /\ Stage(d, q)' = "waiting"
    BY <1>2 DEF Stage
  <2> QED
    BY <2>1 DEF InStepAt, InStep, Greeting, Exchanging, Choosing, Transferring
<1> QED
  BY <1>1, <1>2

\* A step is about connection c: threads come from it, and go to it.
IsAbout(c) ==
  /\ \A d \in Conns \ {c} : wire'[d] = wire[d]
  /\ \A p \in Peers : client'[p] = client[p] \/ client[p].conn \in {None, c}
  /\ \A q \in Peers :
       \/ listener'[q] = listener[q]
       \/ listener[q].conn \in {None, c} /\ listener'[q].conn \in {None, c}

LEMMA OthersInStep ==
  ASSUME TypeOK, OwnersInv, StageInv, NEW c, IsAbout(c), NEW d \in Conns, d # c
  PROVE  InStepAt(d)'
<1> DEFINE p == wire[d].client
           q == wire[d].server
<1>1. wire'[d] = wire[d] /\ InStepAt(d)
  BY DEF IsAbout, StageInv
<1>2. CASE wire[d].ends # {p, q}
  BY <1>1, <1>2 DEF InStepAt
<1>3. CASE wire[d].ends = {p, q}
  <2>1. p \in Peers /\ q \in Peers /\ client[p].conn = d
    BY <1>3, OpenConnection
  <2>2. client'[p] = client[p]
    BY <2>1, SetupAssumption DEF IsAbout
  <2>3. \/ listener'[q] = listener[q]
        \/ listener[q].conn # d /\ listener'[q].conn # d
    BY <2>1, SetupAssumption DEF IsAbout
  <2> QED
    BY <1>1, <2>2, <2>3, StageKept
<1> QED
  BY <1>2, <1>3

LEMMA OneInStep ==
  ASSUME SetupInv, TypeOK', OwnersInv', NEW c, IsAbout(c), c \in Conns => InStepAt(c)'
  PROVE  SetupInv'
<1>1. \A d \in Conns : InStepAt(d)'
  BY OthersInStep DEF SetupInv
<1> QED
  BY <1>1 DEF SetupInv, StageInv

\* The connection a client is on.
LEMMA ClientOn ==
  ASSUME TypeOK, OwnersInv, NEW p \in Peers, client[p].pc \in Calling
  PROVE  /\ client[p].conn \in Conns
         /\ wire[client[p].conn] \in Wires
         /\ wire[client[p].conn].client = p
         /\ wire[client[p].conn].server \in Peers \ {p}
         /\ p \in wire[client[p].conn].ends
         /\ wire[client[p].conn] # NoWire
<1> DEFINE c == client[p].conn
<1>1. c \in Conns /\ wire[c].client = p /\ p \in wire[c].ends
  BY DEF OwnersInv, ClientInv
<1>2. wire[c] # NoWire
  BY <1>1 DEF NoWire
<1> QED
  BY <1>1, <1>2 DEF OwnersInv, WireInv, TypeOK

LEMMA ListenerOn ==
  ASSUME TypeOK, OwnersInv, NEW q \in Peers, listener[q].pc \in Serving
  PROVE  /\ listener[q].conn \in Conns
         /\ wire[listener[q].conn] \in Wires
         /\ wire[listener[q].conn].server = q
         /\ wire[listener[q].conn].client \in Peers \ {q}
         /\ q \in wire[listener[q].conn].ends
         /\ wire[listener[q].conn] # NoWire
<1> DEFINE c == listener[q].conn
<1>1. c \in Conns /\ wire[c].server = q /\ q \in wire[c].ends
  BY DEF OwnersInv, ListenerInv
<1>2. wire[c] # NoWire
  BY <1>1 DEF NoWire
<1> QED
  BY <1>1, <1>2 DEF OwnersInv, WireInv, TypeOK

\* A thread that goes on with its connection.
ClientMoves(p, c, t, v) ==
  /\ client' = [client EXCEPT ![p] = t]
  /\ wire' = [wire EXCEPT ![c] = v]
  /\ UNCHANGED <<listener, backlog>>

ListenerSteps(q, c, t, v) ==
  /\ listener' = [listener EXCEPT ![q] = t]
  /\ wire' = [wire EXCEPT ![c] = v]
  /\ UNCHANGED <<client, backlog>>

LEMMA ClientGoesOn ==
  ASSUME TypeOK, OwnersInv, NEW p \in Peers, client[p].pc \in Calling,
         NEW c \in Conns, c = client[p].conn,
         NEW t \in Thread(ClientStates), t.conn = c, t.pc \in Calling,
         NEW v \in Wires, SameEnds(wire[c], v),
         ClientMoves(p, c, t, v)
  PROVE  /\ TypeOK' /\ OwnersInv' /\ IsAbout(c)
         /\ wire'[c] = v
         /\ client'[p] = t
<1>1. wire[c] # NoWire
  BY ClientOn
<1>2. /\ client' \in [Peers -> Thread(ClientStates)]
      /\ wire' \in [Conns -> Wires]
      /\ wire'[c] = v
      /\ client'[p] = t
      /\ \A r \in Peers \ {p} : client'[r] = client[r]
      /\ \A d \in Conns \ {c} : wire'[d] = wire[d]
      /\ UNCHANGED <<listener, backlog>>
  BY <1>1 DEF ClientMoves, TypeOK
<1>3. TypeOK'
  BY <1>2 DEF TypeOK
<1>4. KeepsSockets
  BY <1>1, <1>2 DEF KeepsSockets, SameEnds, SamePlace, Calling
<1>5. OwnersInv'
  BY <1>3, <1>4, SameOwners
<1>6. IsAbout(c)
  BY <1>2 DEF IsAbout
<1> QED
  BY <1>2, <1>3, <1>5, <1>6

LEMMA ListenerGoesOn ==
  ASSUME TypeOK, OwnersInv, NEW q \in Peers, listener[q].pc \in Serving,
         NEW c \in Conns, c = listener[q].conn,
         NEW t \in Thread(ListenerStates), t.conn = c, t.pc \in Serving,
         NEW v \in Wires, SameEnds(wire[c], v),
         ListenerSteps(q, c, t, v)
  PROVE  /\ TypeOK' /\ OwnersInv' /\ IsAbout(c)
         /\ wire'[c] = v
         /\ listener'[q] = t
<1>1. wire[c] # NoWire
  BY ListenerOn
<1>2. /\ listener' \in [Peers -> Thread(ListenerStates)]
      /\ wire' \in [Conns -> Wires]
      /\ wire'[c] = v
      /\ listener'[q] = t
      /\ \A r \in Peers \ {q} : listener'[r] = listener[r]
      /\ \A d \in Conns \ {c} : wire'[d] = wire[d]
      /\ UNCHANGED <<client, backlog>>
  BY <1>1 DEF ListenerSteps, TypeOK
<1>3. TypeOK'
  BY <1>2 DEF TypeOK
<1>4. KeepsSockets
  BY <1>1, <1>2 DEF KeepsSockets, SameEnds, SamePlace, Serving
<1>5. OwnersInv'
  BY <1>3, <1>4, SameOwners
<1>6. IsAbout(c)
  BY <1>2 DEF IsAbout
<1> QED
  BY <1>2, <1>3, <1>5, <1>6

\* One end of a connection is closed.
LEMMA EndClosed ==
  ASSUME NEW w \in Wires, NEW v \in Wires, SameEnds(w, v), NEW p \in Peers,
         NEW u, u = ClosedBy(v, p)
  PROVE  /\ u \in Wires
         /\ u.ends = w.ends \ {p}
         /\ u # NoWire => u.ends # {}
         /\ u.ends # {} => u.client = w.client /\ u.server = w.server
<1>1. /\ u \in Wires
      /\ u.ends = v.ends \ {p}
      /\ \/ u = NoWire
         \/ u.client = v.client /\ u.server = v.server /\ u.ends # {}
  BY ClosedByFields
<1>2. NoWire.ends = {}
  BY DEF NoWire
<1> QED
  BY <1>1, <1>2 DEF SameEnds

\* A client that closes its connection.
LEMMA ClientLeaves ==
  ASSUME SetupInv, NEW p \in Peers, client[p].pc \in Calling,
         NEW pc \in ClientStates \ Calling,
         NEW v \in Wires, SameEnds(wire[client[p].conn], v),
         client' = [client EXCEPT ![p] = Idle(pc)],
         wire' = [wire EXCEPT ![client[p].conn] = ClosedBy(v, p)],
         UNCHANGED <<listener, backlog>>
  PROVE  SetupInv'
<1>0. TypeOK /\ OwnersInv
  BY DEF SetupInv
<1>c. PICK c \in Conns : c = client[p].conn
  BY <1>0, ClientOn
<1> DEFINE q == wire[c].server
<1>1. /\ c \in Conns
      /\ wire[c] \in Wires
      /\ wire[c].client = p
      /\ q \in Peers \ {p}
      /\ p \in wire[c].ends
      /\ wire[c] # NoWire
      /\ SameEnds(wire[c], v)
  BY <1>0, <1>c, ClientOn
<1>2. wire[c].ends \subseteq {p, q}
  BY <1>0, <1>1 DEF OwnersInv, WireInv
<1>3. wire'[c] = ClosedBy(v, p)
  BY <1>0, <1>c, <1>1 DEF TypeOK
<1>4. /\ wire'[c] \in Wires
      /\ wire'[c].ends = wire[c].ends \ {p}
      /\ wire'[c] # NoWire => wire'[c].ends # {}
      /\ wire'[c].ends # {} => wire'[c].client = p /\ wire'[c].server = q
  BY <1>1, <1>3, EndClosed
<1>5. /\ \A r \in Peers \ {p} : client'[r] = client[r]
      /\ \A d \in Conns \ {c} : wire'[d] = wire[d]
      /\ listener' = listener /\ backlog' = backlog
  BY <1>0, <1>c, <1>1 DEF TypeOK
<1>6. client'[p].pc = pc /\ client'[p].conn = None /\ Idle(pc) \in Thread(ClientStates)
  BY <1>0 DEF TypeOK, Idle, Thread
<1>7. TypeOK'
  <2>1. client' \in [Peers -> Thread(ClientStates)]
    BY <1>0, <1>6 DEF TypeOK
  <2>2. wire' \in [Conns -> Wires]
    BY <1>0, <1>3, <1>4 DEF TypeOK
  <2> QED
    BY <1>0, <1>5, <2>1, <2>2 DEF TypeOK
<1>8. OwnersInv'
  <2>1. WireInv'
    BY <1>0, <1>1, <1>2, <1>4, <1>5 DEF OwnersInv, WireInv
  <2>2. ClientInv'
    <3>1. ASSUME NEW r \in Peers, r # p, client[r].pc \in Calling
          PROVE  client[r].conn \in Conns \ {c}
      BY <1>0, <1>1, <3>1 DEF OwnersInv, ClientInv
    <3>2. listener[p].pc # "off"
      BY <1>0 DEF OwnersInv, ClientInv, Calling
    <3> QED
      BY <1>0, <1>5, <1>6, <3>1, <3>2 DEF OwnersInv, ClientInv
  <2>3. ListenerInv'
    <3>1. \A r \in Peers : Waits(r, listener[r].conn)' <=> Waits(r, listener[r].conn)
      BY <1>5 DEF Waits
    <3> QED
      BY <1>0, <1>1, <1>4, <1>5, <3>1 DEF OwnersInv, ListenerInv
  <2>4. BacklogInv'
    <3>1. \A r \in Peers : \A i \in DOMAIN backlog[r] : backlog[r][i] \in Conns
      BY <1>0 DEF TypeOK
    <3> QED
      BY <1>0, <1>1, <1>4, <1>5, <3>1 DEF OwnersInv, BacklogInv
  <2>5. NoSocketLost'
    <3>1. \A d \in Conns : wire[d].ends \subseteq Peers
      BY <1>0 DEF TypeOK, Wires
    <3>2. ASSUME NEW r \in wire'[c].ends
          PROVE  r = q /\ (listener[r].conn = c \/ \E i \in DOMAIN backlog[r] : backlog[r][i] = c)
      BY <1>0, <1>1, <1>2, <1>4 DEF OwnersInv, NoSocketLost
    <3>3. ASSUME NEW d \in Conns \ {c}, NEW r \in wire'[d].ends
          PROVE  \/ r = wire[d].client /\ client'[r].conn = d
                 \/ r = wire[d].server /\ listener[r].conn = d
                 \/ r = wire[d].server /\ \E i \in DOMAIN backlog[r] : backlog[r][i] = d
      BY <1>0, <1>c, <1>1, <1>5, <3>1 DEF OwnersInv, NoSocketLost
    <3> QED
      BY <1>4, <1>5, <3>2, <3>3 DEF NoSocketLost
  <2> QED
    BY <2>1, <2>2, <2>3, <2>4, <2>5 DEF OwnersInv
<1>9. IsAbout(c)
  BY <1>5, <1>c DEF IsAbout
<1>10. InStepAt(c)'
  <2>1. wire'[c].ends # {wire'[c].client, wire'[c].server}
    BY <1>1, <1>4
  <2> QED
    BY <2>1 DEF InStepAt
<1> QED
  BY <1>7, <1>8, <1>9, <1>10, OneInStep

\* A listener that closes its connection.
LEMMA ListenerLeaves ==
  ASSUME SetupInv, NEW q \in Peers, listener[q].pc \in Serving,
         NEW v \in Wires, SameEnds(wire[listener[q].conn], v),
         listener' = [listener EXCEPT ![q] = Idle("accept")],
         wire' = [wire EXCEPT ![listener[q].conn] = ClosedBy(v, q)],
         UNCHANGED <<client, backlog>>
  PROVE  SetupInv'
<1>0. TypeOK /\ OwnersInv
  BY DEF SetupInv
<1>c. PICK c \in Conns : c = listener[q].conn
  BY <1>0, ListenerOn
<1> DEFINE p == wire[c].client
<1>1. /\ c \in Conns
      /\ wire[c] \in Wires
      /\ wire[c].server = q
      /\ p \in Peers \ {q}
      /\ q \in wire[c].ends
      /\ wire[c] # NoWire
      /\ SameEnds(wire[c], v)
      /\ ~Waits(q, c)
  BY <1>0, <1>c, ListenerOn DEF OwnersInv, ListenerInv
<1>2. wire[c].ends \subseteq {p, q}
  BY <1>0, <1>1 DEF OwnersInv, WireInv
<1>3. wire'[c] = ClosedBy(v, q)
  BY <1>0, <1>c, <1>1 DEF TypeOK
<1>4. /\ wire'[c] \in Wires
      /\ wire'[c].ends = wire[c].ends \ {q}
      /\ wire'[c] # NoWire => wire'[c].ends # {}
      /\ wire'[c].ends # {} => wire'[c].client = p /\ wire'[c].server = q
  BY <1>1, <1>3, EndClosed
<1>5. /\ \A r \in Peers \ {q} : listener'[r] = listener[r]
      /\ \A d \in Conns \ {c} : wire'[d] = wire[d]
      /\ client' = client /\ backlog' = backlog
  BY <1>0, <1>c, <1>1 DEF TypeOK
<1>6. /\ listener'[q].pc = "accept" /\ listener'[q].conn = None
      /\ Idle("accept") \in Thread(ListenerStates)
      /\ "accept" \notin Serving
  BY <1>0 DEF TypeOK, Idle, Thread, ListenerStates, Serving
<1>7. TypeOK'
  <2>1. listener' \in [Peers -> Thread(ListenerStates)]
    BY <1>0, <1>6 DEF TypeOK
  <2>2. wire' \in [Conns -> Wires]
    BY <1>0, <1>3, <1>4 DEF TypeOK
  <2> QED
    BY <1>0, <1>5, <2>1, <2>2 DEF TypeOK
<1>8. OwnersInv'
  <2>1. WireInv'
    BY <1>0, <1>1, <1>2, <1>4, <1>5 DEF OwnersInv, WireInv
  <2>2. ClientInv'
    BY <1>0, <1>1, <1>4, <1>5, <1>6 DEF OwnersInv, ClientInv
  <2>3. ListenerInv'
    <3>1. ASSUME NEW r \in Peers, r # q, listener[r].pc \in Serving
          PROVE  listener[r].conn \in Conns \ {c} /\ ~Waits(r, listener[r].conn)
      BY <1>0, <1>1, <3>1 DEF OwnersInv, ListenerInv
    <3>2. \A r \in Peers \ {q} : Waits(r, listener[r].conn)' <=> Waits(r, listener[r].conn)
      BY <1>5 DEF Waits
    <3> QED
      BY <1>0, <1>5, <1>6, <3>1, <3>2 DEF OwnersInv, ListenerInv
  <2>4. BacklogInv'
    <3>1. /\ \A r \in Peers : \A i \in DOMAIN backlog[r] : backlog[r][i] \in Conns
          /\ \A i \in DOMAIN backlog[q] : backlog[q][i] # c
      BY <1>0, <1>1 DEF TypeOK, Waits
    <3>2. \A r \in Peers : \A i \in DOMAIN backlog[r] : backlog[r][i] # c
      BY <1>0, <1>1, <3>1 DEF OwnersInv, BacklogInv
    <3>3. listener[q].pc # "off" /\ listener'[q].pc # "off"
      BY <1>6 DEF Serving
    <3> QED
      BY <1>0, <1>5, <3>1, <3>2, <3>3 DEF OwnersInv, BacklogInv
  <2>5. NoSocketLost'
    <3>1. \A d \in Conns : wire[d].ends \subseteq Peers
      BY <1>0 DEF TypeOK, Wires
    <3>2. ASSUME NEW r \in wire'[c].ends
          PROVE  r = p /\ client[r].conn = c
      BY <1>0, <1>1, <1>2, <1>4 DEF OwnersInv, NoSocketLost
    <3>3. ASSUME NEW d \in Conns \ {c}, NEW r \in wire'[d].ends
          PROVE  \/ r = wire[d].client /\ client[r].conn = d
                 \/ r = wire[d].server /\ listener'[r].conn = d
                 \/ r = wire[d].server /\ \E i \in DOMAIN backlog[r] : backlog[r][i] = d
      BY <1>0, <1>c, <1>1, <1>5, <3>1 DEF OwnersInv, NoSocketLost
    <3> QED
      BY <1>4, <1>5, <3>2, <3>3 DEF NoSocketLost
  <2> QED
    BY <2>1, <2>2, <2>3, <2>4, <2>5 DEF OwnersInv
<1>9. IsAbout(c)
  BY <1>5, <1>6, <1>c DEF IsAbout
<1>10. InStepAt(c)'
  <2>1. wire'[c].ends # {wire'[c].client, wire'[c].server}
    BY <1>1, <1>4
  <2> QED
    BY <2>1 DEF InStepAt
<1> QED
  BY <1>7, <1>8, <1>9, <1>10, OneInStep

-----------------------------------------------------------------------------
(* Steps of the main thread.                                               *)

LEMMA SameItself == ASSUME NEW w PROVE SameEnds(w, w)
BY DEF SameEnds

LEMMA GivesUpKeepsInv ==
  ASSUME SetupInv, NEW p \in Peers, client[p].pc \in Calling, ClientGivesUp(p)
  PROVE  SetupInv'
<1>1. wire[client[p].conn] \in Wires
  BY ClientOn DEF SetupInv
<1>2. client[p].conn \in Conns
  BY ClientOn DEF SetupInv
<1>3. wire' = [wire EXCEPT ![client[p].conn] = ClosedBy(wire[client[p].conn], p)]
  BY <1>2 DEF ClientGivesUp, CloseAs, SetupInv, TypeOK
<1>4. "again" \in ClientStates \ Calling
  BY DEF ClientStates, Calling
<1>5. client' = [client EXCEPT ![p] = Idle("again")] /\ UNCHANGED <<listener, backlog>>
  BY DEF ClientGivesUp
<1> QED
  BY <1>1, <1>3, <1>4, <1>5, SameItself, ClientLeaves

LEMMA RecvHelloAckKeepsInv ==
  ASSUME SetupInv, NEW p \in Peers, RecvHelloAck(p)
  PROVE  SetupInv'
<1>0. TypeOK /\ OwnersInv /\ StageInv
  BY DEF SetupInv
<1>1. client[p].pc = "hello" /\ client[p].pc \in Calling
  BY DEF RecvHelloAck, Calling
<1>2. PICK c \in Conns : c = client[p].conn
  BY <1>0, <1>1, ClientOn
<1>3. PICK q \in Peers \ {p} : q = wire[c].server
  BY <1>0, <1>1, <1>2, ClientOn
<1>4. wire[c] \in Wires /\ wire[c].client = p /\ wire[c].in[p] # <<>>
  BY <1>0, <1>1, <1>2, ClientOn DEF RecvHelloAck, Arrived
<1>5. CASE ~Greeted(p, Head(wire[c].in[p]), "HELLO_ACK")
  BY <1>1, <1>2, <1>5, GivesUpKeepsInv DEF RecvHelloAck
<1>6. CASE Greeted(p, Head(wire[c].in[p]), "HELLO_ACK")
  <2>1. PICK w \in ReadBy(wire[c], p) :
          wire' = [wire EXCEPT ![c] = SentTo(w, q, Key(p))]
    BY <1>2, <1>3, <1>6 DEF RecvHelloAck
  <2>2. Key(p) \in Frames
    BY FramesTyped
  <2>3. PICK v : v = SentTo(w, q, Key(p))
    OBVIOUS
  <2>4. w \in Wires /\ SameEnds(wire[c], w)
    BY <1>4, ReadByFields
  <2>5. v \in Wires /\ SameEnds(wire[c], v) /\ v.in[p] = w.in[p]
    BY <1>3, <2>2, <2>3, <2>4, SentToFields DEF SameEnds
  <2>6. PICK t : t = [client[p] EXCEPT !.pc = "key"]
    OBVIOUS
  <2>7. /\ t \in Thread(ClientStates) /\ t.conn = c /\ t.pc = "key" /\ t.pc \in Calling
    BY <1>0, <1>2, <2>6 DEF TypeOK, Thread, ClientStates, Calling
  <2>8. ClientMoves(p, c, t, v)
    BY <1>2, <1>6, <2>1, <2>3, <2>6 DEF RecvHelloAck, ClientMoves
  <2>9. TypeOK' /\ OwnersInv' /\ IsAbout(c) /\ wire'[c] = v /\ client'[p] = t
    BY <1>0, <1>1, <1>2, <2>5, <2>7, <2>8, ClientGoesOn
  <2>10. InStepAt(c)'
    <3>0. PICK s : s = Stage(c, q) /\ s = Stage(c, q)'
      BY <2>8 DEF Stage, ClientMoves
    <3>1. SUFFICES ASSUME v.ends = {p, q}
                   PROVE  Exchanging(s, v, p, q)'
      BY <1>3, <1>4, <2>5, <2>7, <2>9, <3>0 DEF InStepAt, InStep, SameEnds
    <3>2. Greeting(s, wire[c], p, q)
      BY <1>0, <1>1, <1>3, <1>4, <2>5, <3>1, <3>0 DEF StageInv, InStepAt, InStep, SameEnds
    <3>3. ~OnTheirWay(<<>>, wire[c], p)
      BY <1>4, <2>1, Reading
    <3>4. OnTheirWay(<<>>, wire[c], q) => OnTheirWay(<<Key(p)>>, v, q)
      <4>1. q \in w.ends
        BY <2>4, <2>5, <3>1 DEF SameEnds
      <4>2. OnTheirWay(<<>>, wire[c], q) => OnTheirWay(<<>>, w, q)
        BY <1>3, <1>4, <2>1, Reading
      <4> QED
        BY <1>3, <2>2, <2>3, <2>4, <4>1, <4>2, Sending
    <3>5. /\ OnTheirWay(<<HelloAck(q)>>, wire[c], p) => v.in[p] = <<>>
          /\ OnTheirWay(<<HelloAck(q), Key(q)>>, wire[c], p) => v.in[p] \in {<<>>, <<Key(q)>>}
      BY <1>4, <2>1, <2>5, Reading
    <3> QED
      BY <3>2, <3>3, <3>4, <3>5 DEF Greeting, Exchanging
  <2> QED
    BY <2>9, <2>10, OneInStep
<1> QED
  BY <1>5, <1>6

LEMMA ClientRecvKeyKeepsInv ==
  ASSUME SetupInv, NEW p \in Peers, ClientRecvKey(p)
  PROVE  SetupInv'
<1>0. TypeOK /\ OwnersInv /\ StageInv
  BY DEF SetupInv
<1>1. client[p].pc = "key" /\ client[p].pc \in Calling
  BY DEF ClientRecvKey, Calling
<1>2. PICK c \in Conns : c = client[p].conn
  BY <1>0, <1>1, ClientOn
<1>3. PICK q \in Peers \ {p} : q = wire[c].server
  BY <1>0, <1>1, <1>2, ClientOn
<1>4. wire[c] \in Wires /\ wire[c].client = p /\ wire[c].in[p] # <<>>
  BY <1>0, <1>1, <1>2, ClientOn DEF ClientRecvKey, Arrived
<1>5. PICK v \in ReadBy(wire[c], p) : wire' = [wire EXCEPT ![c] = v]
  BY <1>2 DEF ClientRecvKey
<1>6. v \in Wires /\ SameEnds(wire[c], v)
  BY <1>4, ReadByFields
<1>7. PICK t : t = [client[p] EXCEPT !.pc = "path", !.key = KeyIn(Head(wire[c].in[p]))]
  OBVIOUS
<1>8. /\ t \in Thread(ClientStates) /\ t.conn = c /\ t.pc = "path" /\ t.pc \in Calling
      /\ t.key = KeyIn(Head(wire[c].in[p]))
  <2>1. Head(wire[c].in[p]) \in Frames
    BY <1>4, HeadTailProperties DEF Wires
  <2>2. KeyIn(Head(wire[c].in[p])) \in Peers \cup {None}
    BY <2>1 DEF KeyIn, Frames
  <2> QED
    BY <1>0, <1>2, <1>7, <2>2 DEF TypeOK, Thread, ClientStates, Calling
<1>9. ClientMoves(p, c, t, v)
  BY <1>2, <1>5, <1>7 DEF ClientRecvKey, ClientMoves
<1>10. TypeOK' /\ OwnersInv' /\ IsAbout(c) /\ wire'[c] = v /\ client'[p] = t
  BY <1>0, <1>1, <1>2, <1>6, <1>8, <1>9, ClientGoesOn
<1>11. InStepAt(c)'
  <2>0. PICK s : s = Stage(c, q) /\ s = Stage(c, q)'
    BY <1>9 DEF Stage, ClientMoves
  <2>1. SUFFICES ASSUME v.ends = {p, q}
                 PROVE  Choosing(s, v, p, q)'
    BY <1>3, <1>4, <1>6, <1>8, <1>10, <2>0 DEF InStepAt, InStep, SameEnds
  <2>2. Exchanging(s, wire[c], p, q)
    BY <1>0, <1>1, <1>3, <1>4, <1>6, <2>0, <2>1 DEF StageInv, InStepAt, InStep, SameEnds
  <2>3. wire[c].in[p] = <<Key(q)>>
    BY <1>4, <2>2 DEF Exchanging
  <2>4. v.in[p] = <<>> /\ Head(wire[c].in[p]) = Key(q)
    <3>1. OnTheirWay(<<Key(q)>>, wire[c], p)
      BY <2>3 DEF OnTheirWay
    <3> QED
      BY <1>4, <1>5, <3>1, Reading
  <2>5. /\ v.in[q] = wire[c].in[q]
        /\ OnTheirWay(<<Key(p)>>, wire[c], q) => OnTheirWay(<<Key(p)>>, v, q)
    BY <1>3, <1>4, <1>5, Reading, ReadByFields
  <2>6. client'[p].key = q
    BY <1>8, <1>10, <2>4 DEF KeyIn, Key
  <2>7. listener' = listener
    BY <1>9 DEF ClientMoves
  <2>8. s \in {"key", "offer"}
    BY <1>4, <2>2 DEF Exchanging
  <2> QED
    BY <2>2, <2>4, <2>5, <2>6, <2>7, <2>8 DEF Exchanging, Choosing
<1> QED
  BY <1>10, <1>11, OneInStep

LEMMA EnterPathKeepsInv ==
  ASSUME SetupInv, NEW p \in Peers, EnterPath(p)
  PROVE  SetupInv'
<1>0. TypeOK /\ OwnersInv /\ StageInv
  BY DEF SetupInv
<1>1. client[p].pc = "path" /\ client[p].pc \in Calling
  BY DEF EnterPath, Calling
<1>2. PICK c \in Conns : c = client[p].conn
  BY <1>0, <1>1, ClientOn
<1>3. PICK q \in Peers \ {p} : q = wire[c].server
  BY <1>0, <1>1, <1>2, ClientOn
<1>4. wire[c] \in Wires /\ wire[c].client = p
  BY <1>0, <1>1, <1>2, ClientOn
<1>5. PICK v : v = SentTo(wire[c], q, Offer(p))
  OBVIOUS
<1>6. v \in Wires /\ SameEnds(wire[c], v) /\ v.in[p] = wire[c].in[p]
  <2>1. Offer(p) \in Frames
    BY FramesTyped
  <2> QED
    BY <1>3, <1>4, <1>5, <2>1, SentToFields
<1>7. PICK t : t = [client[p] EXCEPT !.pc = "transfer"]
  OBVIOUS
<1>8. /\ t \in Thread(ClientStates) /\ t.conn = c /\ t.pc = "transfer"
      /\ t.pc \in Calling /\ t.key = client[p].key
  BY <1>0, <1>2, <1>7 DEF TypeOK, Thread, ClientStates, Calling
<1>9. ClientMoves(p, c, t, v)
  BY <1>0, <1>2, <1>3, <1>5, <1>7 DEF EnterPath, ClientMoves, TypeOK
<1>10. TypeOK' /\ OwnersInv' /\ IsAbout(c) /\ wire'[c] = v /\ client'[p] = t
  BY <1>0, <1>1, <1>2, <1>6, <1>8, <1>9, ClientGoesOn
<1>11. InStepAt(c)'
  <2>0. PICK s : s = Stage(c, q) /\ s = Stage(c, q)'
    BY <1>9 DEF Stage, ClientMoves
  <2>1. SUFFICES ASSUME v.ends = {p, q}
                 PROVE  Transferring(s, v, p, q)'
    BY <1>3, <1>4, <1>6, <1>8, <1>10, <2>0 DEF InStepAt, InStep, SameEnds
  <2>2. Choosing(s, wire[c], p, q)
    BY <1>0, <1>1, <1>3, <1>4, <1>6, <2>0, <2>1 DEF StageInv, InStepAt, InStep, SameEnds
  <2>3. q \in wire[c].ends
    BY <1>6, <2>1 DEF SameEnds
  <2>4. OnTheirWay(<<Key(p)>>, wire[c], q) => OnTheirWay(<<Key(p), Offer(p)>>, v, q)
    BY <1>3, <1>4, <1>5, <2>3, FramesTyped, Sending
  <2>5. wire[c].in[q] = <<>> => v.in[q] \in {<<>>, <<Offer(p)>>}
    <3>1. PICK f \in Frames : f = Offer(p)
      BY FramesTyped
    <3>2. v.in[q] = IF wire[c].broken THEN wire[c].in[q] ELSE Append(wire[c].in[q], f)
      BY <1>3, <1>4, <1>5, <2>3, <3>1, SentToFields
    <3> QED
      BY <3>1, <3>2, OneElement
  <2>6. listener' = listener /\ client'[p].key = client[p].key
    BY <1>8, <1>9, <1>10 DEF ClientMoves
  <2> QED
    BY <1>6, <2>2, <2>4, <2>5, <2>6 DEF Choosing, Transferring
<1> QED
  BY <1>10, <1>11, OneInStep

LEMMA FileSentKeepsInv ==
  ASSUME SetupInv, NEW p \in Peers, FileSent(p)
  PROVE  SetupInv'
<1>1. client[p].pc \in Calling
  BY DEF FileSent, Calling
<1>2. wire[client[p].conn] \in Wires /\ client[p].conn \in Conns
  BY <1>1, ClientOn DEF SetupInv
<1>3. wire' = [wire EXCEPT ![client[p].conn] = ClosedBy(wire[client[p].conn], p)]
  BY <1>2 DEF FileSent, CloseAs, SetupInv, TypeOK
<1>4. "exit" \in ClientStates \ Calling
  BY DEF ClientStates, Calling
<1>5. client' = [client EXCEPT ![p] = Idle("exit")] /\ UNCHANGED <<listener, backlog>>
  BY DEF FileSent
<1> QED
  BY <1>1, <1>2, <1>3, <1>4, <1>5, SameItself, ClientLeaves

LEMMA SessionEndsKeepInv ==
  ASSUME SetupInv, NEW p \in Peers, EnterBadPath(p) \/ ClientLosesPeer(p)
  PROVE  SetupInv'
<1>1. client[p].pc \in Calling /\ ClientGivesUp(p)
  BY DEF EnterBadPath, ClientLosesPeer, Calling
<1> QED
  BY <1>1, GivesUpKeepsInv

\* Steps of a main thread between two connections.
LEMMA NotCalling ==
  ASSUME SetupInv, NEW p \in Peers, NEW pc \in ClientStates \ Calling,
         client[p].pc \notin Calling \cup {"off"}, client' = [client EXCEPT ![p].pc = pc],
         UNCHANGED <<listener, backlog, wire>>
  PROVE  SetupInv'
<1>0. TypeOK /\ OwnersInv
  BY DEF SetupInv
<1>1. client[p].conn = None
  BY <1>0 DEF OwnersInv, ClientInv
<1>2. /\ client'[p].pc = pc /\ client'[p].conn = client[p].conn
      /\ \A r \in Peers \ {p} : client'[r] = client[r]
      /\ client' \in [Peers -> Thread(ClientStates)]
  BY <1>0 DEF TypeOK, Thread
<1>3. TypeOK'
  BY <1>0, <1>2 DEF TypeOK
<1>4. KeepsSockets
  BY <1>2 DEF KeepsSockets, SameEnds, SamePlace
<1>5. OwnersInv'
  BY <1>0, <1>3, <1>4, SameOwners
<1>6. IsAbout(None)
  BY <1>1, <1>2 DEF IsAbout
<1> QED
  BY <1>3, <1>5, <1>6, OneInStep, SetupAssumption

LEMMA NotCallingKeepsInv ==
  ASSUME SetupInv, NEW p \in Peers,
         PressEnter(p) \/ Cancel(p) \/ \E q \in Peers : DialFails(p, q)
  PROVE  SetupInv'
<1>1. CASE PressEnter(p)
  BY <1>1, NotCalling DEF PressEnter, ClientStates, Calling
<1>2. CASE Cancel(p)
  BY <1>2, NotCalling DEF Cancel, ClientStates, Calling
<1>3. CASE \E q \in Peers : DialFails(p, q)
  BY <1>3, NotCalling DEF DialFails, ClientStates, Calling
<1> QED
  BY <1>1, <1>2, <1>3

LEMMA DialKeepsInv ==
  ASSUME SetupInv, NEW p \in Peers, NEW q \in Peers, Dial(p, q)
  PROVE  SetupInv'
<1>0. TypeOK /\ OwnersInv
  BY DEF SetupInv
<1>1. PICK c \in Free : c = CHOOSE d \in Free : TRUE
  BY DEF Dial
<1>2. c \in Conns /\ wire[c] = NoWire /\ wire[c].ends = {} /\ p # q
  <2>1. c \in Conns /\ wire[c] = NoWire
    BY DEF Free
  <2>2. p # q
    BY DEF Dial
  <2> QED
    BY <2>1, <2>2 DEF NoWire
<1>3. PICK v : v = [client |-> p, server |-> q, ends |-> {p, q}, broken |-> FALSE,
                    in |-> [Silence EXCEPT ![q] = <<Hello(p)>>]]
  OBVIOUS
<1>4. PICK t : t = [Idle("hello") EXCEPT !.conn = c]
  OBVIOUS
<1>5. /\ wire' = [wire EXCEPT ![c] = v]
      /\ client' = [client EXCEPT ![p] = t]
      /\ backlog' = [backlog EXCEPT ![q] = Append(@, c)]
      /\ UNCHANGED listener
      /\ client[p].pc = "select" /\ listener[q].pc # "off" /\ Len(backlog[q]) < Backlog
  BY <1>1, <1>3, <1>4 DEF Dial, HasRoom
<1>6. /\ v \in Wires /\ v # NoWire
      /\ v.client = p /\ v.server = q /\ v.ends = {p, q}
      /\ v.in[p] = <<>> /\ v.in[q] = <<Hello(p)>>
  <2>1. <<Hello(p)>> \in Seq(Frames) /\ <<>> \in Seq(Frames)
    BY FramesTyped
  <2>2. [Silence EXCEPT ![q] = <<Hello(p)>>] \in [Peers -> Seq(Frames)]
    BY <2>1 DEF Silence
  <2>3. v.in[p] = <<>> /\ v.in[q] = <<Hello(p)>>
    BY <1>2, <1>3 DEF Silence
  <2> QED
    BY <1>3, <2>2, <2>3 DEF Wires, NoWire
<1>7. /\ t \in Thread(ClientStates) /\ t.pc = "hello" /\ t.conn = c
      /\ t.pc \in Calling /\ client[p].pc \notin Calling
  BY <1>2, <1>4, <1>5 DEF Thread, ClientStates, Idle, Calling
<1>8. /\ wire'[c] = v /\ client'[p] = t
      /\ \A d \in Conns \ {c} : wire'[d] = wire[d]
      /\ \A r \in Peers \ {p} : client'[r] = client[r]
      /\ \A r \in Peers \ {q} : backlog'[r] = backlog[r]
      /\ backlog'[q] = Append(backlog[q], c)
      /\ listener' = listener
  BY <1>0, <1>2, <1>5 DEF TypeOK
\* Nobody was on c.
<1>9. /\ \A r \in Peers : client[r].conn # c /\ listener[r].conn # c
      /\ client[p].conn = None
  BY <1>0, <1>2, <1>7, SetupAssumption DEF OwnersInv, ClientInv, ListenerInv
<1>10. \A r \in Peers : /\ backlog[r] \in Seq(Conns)
                        /\ \A i \in DOMAIN backlog[r] : backlog[r][i] \in Conns \ {c}
  <2>1. ASSUME NEW r \in Peers, NEW i \in DOMAIN backlog[r]
        PROVE  backlog[r][i] # c
    BY <1>0, <1>2 DEF OwnersInv, BacklogInv
  <2>2. ASSUME NEW r \in Peers, NEW i \in DOMAIN backlog[r]
        PROVE  backlog[r] \in Seq(Conns) /\ backlog[r][i] \in Conns
    BY <1>0 DEF TypeOK
  <2>3. \A r \in Peers : backlog[r] \in Seq(Conns)
    BY <1>0 DEF TypeOK
  <2> QED
    BY <2>1, <2>2, <2>3
<1>11. PICK n : n = Len(backlog[q])
  OBVIOUS
<1>12. /\ n \in Nat
       /\ backlog'[q] \in Seq(Conns)
       /\ Len(backlog'[q]) = n + 1
       /\ DOMAIN backlog[q] = 1..n
       /\ DOMAIN backlog'[q] = 1..(n + 1)
       /\ backlog'[q][n + 1] = c
       /\ \A i \in 1..n : backlog'[q][i] = backlog[q][i]
  BY <1>2, <1>8, <1>10, <1>11
<1>13. TypeOK'
  <2>1. backlog' \in [Peers -> Seq(Conns)]
    BY <1>0, <1>5, <1>8, <1>12 DEF TypeOK
  <2>2. \A r \in Peers : Len(backlog'[r]) <= Backlog
    BY <1>0, <1>5, <1>8, <1>11, <1>12, SetupAssumption DEF TypeOK
  <2> QED
    BY <1>0, <1>2, <1>5, <1>6, <1>7, <2>1, <2>2 DEF TypeOK
<1>14. OwnersInv'
  <2>1. WireInv'
    <3>1. /\ wire'[c].client \in Peers
          /\ wire'[c].server \in Peers \ {wire'[c].client}
          /\ wire'[c].ends # {}
          /\ wire'[c].ends \subseteq {wire'[c].client, wire'[c].server}
      BY <1>2, <1>6, <1>8
    <3> QED
      BY <1>0, <1>8, <3>1 DEF OwnersInv, WireInv
  <2>2. ClientInv'
    <3>1. ASSUME NEW r \in Peers \ {p}, client[r].pc \in Calling
          PROVE  /\ client[r].conn \in Conns \ {c}
                 /\ wire[client[r].conn].client = r
                 /\ r \in wire[client[r].conn].ends
      BY <1>0, <1>9, <3>1 DEF OwnersInv, ClientInv
    <3>2. listener[p].pc # "off"
      BY <1>0, <1>5 DEF OwnersInv, ClientInv
    <3>3. ASSUME NEW r \in Peers \ {p}
          PROVE  /\ listener[r].pc = "off" => client[r].pc = "off"
                 /\ client[r].pc \notin Calling => client[r].conn = None
      BY <1>0 DEF OwnersInv, ClientInv
    <3>4. /\ listener'[p].pc # "off"
          /\ client'[p].pc \in Calling
          /\ client'[p].conn \in Conns
          /\ wire'[client'[p].conn].client = p
          /\ p \in wire'[client'[p].conn].ends
      BY <1>2, <1>6, <1>7, <1>8, <3>2
    <3>5. ASSUME NEW r \in Peers \ {p}, client'[r].pc \in Calling
          PROVE  /\ client'[r].conn \in Conns
                 /\ wire'[client'[r].conn].client = r
                 /\ r \in wire'[client'[r].conn].ends
      BY <1>8, <3>1, <3>5
    <3>6. ASSUME NEW r \in Peers \ {p}
          PROVE  /\ listener'[r].pc = "off" => client'[r].pc = "off"
                 /\ client'[r].pc \notin Calling => client'[r].conn = None
      BY <1>8, <3>3
    <3> QED
      BY <3>4, <3>5, <3>6 DEF ClientInv
  <2>3. ListenerInv'
    <3>1. ASSUME NEW r \in Peers, listener[r].pc \in Serving
          PROVE  listener[r].conn \in Conns \ {c} /\ ~Waits(r, listener[r].conn)'
      BY <1>0, <1>8, <1>9, <1>12, <3>1 DEF OwnersInv, ListenerInv, Waits
    <3> QED
      BY <1>0, <1>8, <3>1 DEF OwnersInv, ListenerInv
  <2>4. BacklogInv'
    <3>1. ASSUME NEW r \in Peers \ {q}, NEW i \in DOMAIN backlog[r]
          PROVE  /\ wire'[backlog[r][i]].server = r
                 /\ r \in wire'[backlog[r][i]].ends
                 /\ \A j \in DOMAIN backlog[r] : backlog[r][i] = backlog[r][j] => i = j
      BY <1>0, <1>8, <1>10 DEF OwnersInv, BacklogInv
    <3>2. ASSUME NEW i \in 1..n
          PROVE  /\ wire'[backlog'[q][i]].server = q
                 /\ q \in wire'[backlog'[q][i]].ends
                 /\ \A j \in 1..(n + 1) : backlog'[q][i] = backlog'[q][j] => i = j
      BY <1>0, <1>8, <1>10, <1>12 DEF OwnersInv, BacklogInv
    <3>3. /\ wire'[backlog'[q][n + 1]].server = q
          /\ q \in wire'[backlog'[q][n + 1]].ends
          /\ \A j \in 1..(n + 1) : backlog'[q][n + 1] = backlog'[q][j] => n + 1 = j
      BY <1>6, <1>8, <1>10, <1>12
    <3>4. 1..(n + 1) = 1..n \cup {n + 1}
      BY <1>12
    <3> QED
      BY <1>0, <1>5, <1>8, <1>12, <3>1, <3>2, <3>3, <3>4 DEF OwnersInv, BacklogInv
  <2>5. NoSocketLost'
    <3>1. \A d \in Conns : wire[d].ends \subseteq Peers
      BY <1>0 DEF TypeOK, Wires
    <3>2. \E i \in DOMAIN backlog'[q] : backlog'[q][i] = c
      BY <1>12
    <3>3. ASSUME NEW d \in Conns \ {c}, NEW r \in wire[d].ends
          PROVE  \/ r = wire[d].client /\ client'[r].conn = d
                 \/ r = wire[d].server /\ listener[r].conn = d
                 \/ r = wire[d].server /\ \E i \in DOMAIN backlog[r] : backlog[r][i] = d
      BY <1>0, <1>8, <1>9, <3>1, SetupAssumption DEF OwnersInv, NoSocketLost
    <3>4. ASSUME NEW r \in Peers, NEW d, NEW i \in DOMAIN backlog[r], backlog[r][i] = d
          PROVE  \E j \in DOMAIN backlog'[r] : backlog'[r][j] = d
      <4>1. CASE r = q
        <5>1. i \in DOMAIN backlog'[r] /\ backlog'[r][i] = d
          BY <1>12, <3>4, <4>1
        <5> QED
          BY <5>1
      <4>2. CASE r # q
        BY <1>8, <3>4, <4>2
      <4> QED
        BY <4>1, <4>2
    <3> QED
      BY <1>6, <1>7, <1>8, <3>1, <3>2, <3>3, <3>4 DEF NoSocketLost
  <2> QED
    BY <2>1, <2>2, <2>3, <2>4, <2>5 DEF OwnersInv
<1>15. IsAbout(c)
  BY <1>8, <1>9 DEF IsAbout
<1>16. InStepAt(c)'
  <2>1. Stage(c, q)' = "waiting"
    BY <1>8, <1>9 DEF Stage
  <2>2. Greeting("waiting", v, p, q)
    BY <1>6 DEF Greeting, OnTheirWay
  <2> QED
    BY <1>6, <1>7, <1>8, <2>1, <2>2 DEF InStepAt, InStep, Greeting
<1> QED
  BY <1>13, <1>14, <1>15, <1>16, OneInStep

-----------------------------------------------------------------------------
(* Steps of the listener thread.                                           *)

LEMMA HangsUpKeepsInv ==
  ASSUME SetupInv, NEW q \in Peers, listener[q].pc \in Serving, ListenerHangsUp(q)
  PROVE  SetupInv'
<1>1. wire[listener[q].conn] \in Wires /\ listener[q].conn \in Conns
  BY ListenerOn DEF SetupInv
<1>2. wire' = [wire EXCEPT ![listener[q].conn] = ClosedBy(wire[listener[q].conn], q)]
  BY <1>1 DEF ListenerHangsUp, CloseAs, SetupInv, TypeOK
<1>3. listener' = [listener EXCEPT ![q] = Idle("accept")] /\ UNCHANGED <<client, backlog>>
  BY DEF ListenerHangsUp
<1> QED
  BY <1>1, <1>2, <1>3, SameItself, ListenerLeaves

LEMMA ListenerEndsKeepInv ==
  ASSUME SetupInv, NEW q \in Peers,
         RefuseHello(q) \/ Refuse(q) \/ ListenerLosesPeer(q)
  PROVE  SetupInv'
<1>1. listener[q].pc \in Serving /\ ListenerHangsUp(q)
  BY DEF RefuseHello, Refuse, ListenerLosesPeer, Serving
<1> QED
  BY <1>1, HangsUpKeepsInv

LEMMA RecvFileReturnsKeepsInv ==
  ASSUME SetupInv, NEW q \in Peers, RecvFileReturns(q)
  PROVE  SetupInv'
<1>1. listener[q].pc \in Serving
  BY DEF RecvFileReturns, Serving
<1>2. PICK c \in Conns : c = listener[q].conn
  BY <1>1, ListenerOn DEF SetupInv
<1>3. wire[c] \in Wires /\ wire[c].client \in Peers
  BY <1>1, <1>2, ListenerOn DEF SetupInv
<1>4. PICK v \in {wire[c], SentTo(wire[c], wire[c].client, Sent(q))} :
        wire' = [wire EXCEPT ![c] = ClosedBy(v, q)]
  BY <1>2 DEF RecvFileReturns
<1>5. Sent(q) \in Frames
  BY FramesTyped
<1>6. v \in Wires /\ SameEnds(wire[c], v)
  BY <1>3, <1>4, <1>5, SameItself, SentToFields
<1>7. listener' = [listener EXCEPT ![q] = Idle("accept")] /\ UNCHANGED <<client, backlog>>
  BY DEF RecvFileReturns
<1> QED
  BY <1>1, <1>2, <1>4, <1>6, <1>7, ListenerLeaves

LEMMA RecvHelloKeepsInv ==
  ASSUME SetupInv, NEW q \in Peers, RecvHello(q)
  PROVE  SetupInv'
<1>0. TypeOK /\ OwnersInv /\ StageInv
  BY DEF SetupInv
<1>1. listener[q].pc = "hello" /\ listener[q].pc \in Serving
  BY DEF RecvHello, Serving
<1>2. PICK c \in Conns : c = listener[q].conn
  BY <1>0, <1>1, ListenerOn
<1>3. PICK p \in Peers \ {q} : p = wire[c].client
  BY <1>0, <1>1, <1>2, ListenerOn
<1>4. wire[c] \in Wires /\ wire[c].server = q /\ wire[c].in[q] # <<>>
  BY <1>0, <1>1, <1>2, ListenerOn DEF RecvHello, Arrived
<1>5. PICK w \in ReadBy(wire[c], q) : wire' = [wire EXCEPT ![c] = SentTo(w, p, HelloAck(q))]
  BY <1>2, <1>3 DEF RecvHello
<1>6. HelloAck(q) \in Frames
  BY FramesTyped
<1>7. PICK v : v = SentTo(w, p, HelloAck(q))
  OBVIOUS
<1>8. w \in Wires /\ SameEnds(wire[c], w)
  BY <1>4, ReadByFields
<1>9. v \in Wires /\ SameEnds(wire[c], v) /\ v.in[q] = w.in[q]
  BY <1>3, <1>6, <1>7, <1>8, SentToFields DEF SameEnds
<1>10. PICK t : t = [listener[q] EXCEPT !.pc = "prompt"]
  OBVIOUS
<1>11. /\ t \in Thread(ListenerStates) /\ t.conn = c /\ t.pc = "prompt" /\ t.pc \in Serving
  BY <1>0, <1>2, <1>10 DEF TypeOK, Thread, ListenerStates, Serving
<1>12. ListenerSteps(q, c, t, v)
  BY <1>5, <1>7, <1>10 DEF RecvHello, ListenerMoves, ListenerSteps
<1>13. TypeOK' /\ OwnersInv' /\ IsAbout(c) /\ wire'[c] = v /\ listener'[q] = t
  BY <1>0, <1>1, <1>2, <1>9, <1>11, <1>12, ListenerGoesOn
<1>14. InStepAt(c)'
  <2>0. Stage(c, q) = "hello" /\ Stage(c, q)' = "prompt"
    BY <1>1, <1>2, <1>11, <1>13 DEF Stage
  <2>1. SUFFICES ASSUME v.ends = {p, q}
                 PROVE  client'[p].pc = "hello" /\ Greeting("prompt", v, p, q)
    BY <1>3, <1>4, <1>9, <1>13, <2>0 DEF InStepAt, InStep, SameEnds, Greeting
  <2>2. client[p].pc = "hello" /\ Greeting("hello", wire[c], p, q)
    BY <1>0, <1>3, <1>4, <1>9, <2>0, <2>1
       DEF StageInv, InStepAt, InStep, SameEnds, Exchanging, Choosing, Transferring
  <2>3. OnTheirWay(<<>>, wire[c], p) /\ OnTheirWay(<<Hello(p)>>, wire[c], q)
    BY <2>2 DEF Greeting
  <2>4. p \in w.ends
    BY <1>8, <1>9, <2>1 DEF SameEnds
  <2>5. OnTheirWay(<<>>, w, p) /\ w.in[q] = <<>>
    BY <1>3, <1>4, <1>5, <2>3, Reading
  <2>6. OnTheirWay(<<HelloAck(q)>>, v, p)
    BY <1>3, <1>6, <1>7, <1>8, <2>4, <2>5, Sending
  <2>7. OnTheirWay(<<>>, v, q)
    BY <1>9, <2>5 DEF OnTheirWay
  <2>8. client' = client
    BY <1>12 DEF ListenerSteps
  <2> QED
    BY <2>2, <2>6, <2>7, <2>8 DEF Greeting
<1> QED
  BY <1>13, <1>14, OneInStep

LEMMA AllowKeepsInv ==
  ASSUME SetupInv, NEW q \in Peers, Allow(q)
  PROVE  SetupInv'
<1>0. TypeOK /\ OwnersInv /\ StageInv
  BY DEF SetupInv
<1>1. listener[q].pc = "prompt" /\ listener[q].pc \in Serving
  BY DEF Allow, Serving
<1>2. PICK c \in Conns : c = listener[q].conn
  BY <1>0, <1>1, ListenerOn
<1>3. PICK p \in Peers \ {q} : p = wire[c].client
  BY <1>0, <1>1, <1>2, ListenerOn
<1>4. wire[c] \in Wires /\ wire[c].server = q
  BY <1>0, <1>1, <1>2, ListenerOn
<1>5. PICK f \in Frames : f = Key(q)
  BY FramesTyped
<1>6. PICK v : v = SentTo(wire[c], p, f)
  OBVIOUS
<1>7. v \in Wires /\ SameEnds(wire[c], v) /\ v.in[q] = wire[c].in[q]
  BY <1>3, <1>4, <1>6, SentToFields
<1>8. PICK t : t = [listener[q] EXCEPT !.pc = "key"]
  OBVIOUS
<1>9. /\ t \in Thread(ListenerStates) /\ t.conn = c /\ t.pc = "key" /\ t.pc \in Serving
  BY <1>0, <1>2, <1>8 DEF TypeOK, Thread, ListenerStates, Serving
<1>10. ListenerSteps(q, c, t, v)
  BY <1>0, <1>2, <1>3, <1>5, <1>6, <1>8 DEF Allow, ListenerMoves, ListenerSteps, TypeOK
<1>11. TypeOK' /\ OwnersInv' /\ IsAbout(c) /\ wire'[c] = v /\ listener'[q] = t
  BY <1>0, <1>1, <1>2, <1>7, <1>9, <1>10, ListenerGoesOn
<1>12. InStepAt(c)'
  <2>0. Stage(c, q) = "prompt" /\ Stage(c, q)' = "key"
    BY <1>1, <1>2, <1>9, <1>11 DEF Stage
  <2>1. SUFFICES ASSUME v.ends = {p, q}
                 PROVE  InStep("key", v, p, q)'
    BY <1>3, <1>4, <1>7, <1>11, <2>0 DEF InStepAt, SameEnds
  <2>2. InStep("prompt", wire[c], p, q)
    BY <1>0, <1>3, <1>4, <1>7, <2>0, <2>1 DEF StageInv, InStepAt, SameEnds
  <2>3. p \in wire[c].ends
    BY <1>7, <2>1 DEF SameEnds
  <2>4. client' = client
    BY <1>10 DEF ListenerSteps
  <2>5. CASE client[p].pc = "hello" /\ Greeting("prompt", wire[c], p, q)
    <3>1. OnTheirWay(<<HelloAck(q)>>, wire[c], p) /\ OnTheirWay(<<>>, wire[c], q)
      BY <2>5 DEF Greeting
    <3>2. OnTheirWay(<<HelloAck(q), Key(q)>>, v, p) /\ OnTheirWay(<<>>, v, q)
      BY <1>3, <1>4, <1>5, <1>6, <2>3, <3>1, Sending
    <3> QED
      BY <2>4, <2>5, <3>2 DEF InStep, Greeting
  <2>6. CASE client[p].pc = "key" /\ Exchanging("prompt", wire[c], p, q)
    <3>1. wire[c].in[p] = <<>> /\ OnTheirWay(<<Key(p)>>, wire[c], q)
      BY <2>6 DEF Exchanging
    <3>2. OnTheirWay(<<Key(p)>>, v, q)
      BY <1>3, <1>4, <1>6, <2>3, <3>1, Sending
    <3>3. v.in[p] = IF wire[c].broken THEN wire[c].in[p] ELSE Append(wire[c].in[p], f)
      BY <1>3, <1>4, <1>6, <2>3, SentToFields
    <3>4. v.in[p] \in {<<>>, <<Key(q)>>}
      BY <1>5, <3>1, <3>3, OneElement
    <3> QED
      BY <2>4, <2>6, <3>2, <3>4 DEF InStep, Exchanging
  <2> QED
    BY <2>2, <2>5, <2>6 DEF InStep, Choosing, Transferring
<1> QED
  BY <1>11, <1>12, OneInStep

LEMMA ListenerRecvKeyKeepsInv ==
  ASSUME SetupInv, NEW q \in Peers, ListenerRecvKey(q)
  PROVE  SetupInv'
<1>0. TypeOK /\ OwnersInv /\ StageInv
  BY DEF SetupInv
<1>1. listener[q].pc = "key" /\ listener[q].pc \in Serving
  BY DEF ListenerRecvKey, Serving
<1>2. PICK c \in Conns : c = listener[q].conn
  BY <1>0, <1>1, ListenerOn
<1>3. PICK p \in Peers \ {q} : p = wire[c].client
  BY <1>0, <1>1, <1>2, ListenerOn
<1>4. wire[c] \in Wires /\ wire[c].server = q /\ wire[c].in[q] # <<>>
  BY <1>0, <1>1, <1>2, ListenerOn DEF ListenerRecvKey, Arrived
<1>5. PICK v \in ReadBy(wire[c], q) : wire' = [wire EXCEPT ![c] = v]
  BY <1>2 DEF ListenerRecvKey
<1>6. v \in Wires /\ SameEnds(wire[c], v) /\ v.in[p] = wire[c].in[p]
  BY <1>3, <1>4, ReadByFields
<1>7. PICK t : t = [listener[q] EXCEPT !.pc = "offer", !.key = KeyIn(Head(wire[c].in[q]))]
  OBVIOUS
<1>8. /\ t \in Thread(ListenerStates) /\ t.conn = c /\ t.pc = "offer" /\ t.pc \in Serving
      /\ t.key = KeyIn(Head(wire[c].in[q]))
  <2>1. Head(wire[c].in[q]) \in Frames
    BY <1>4, HeadTailProperties DEF Wires
  <2>2. KeyIn(Head(wire[c].in[q])) \in Peers \cup {None}
    BY <2>1 DEF KeyIn, Frames
  <2> QED
    BY <1>0, <1>2, <1>7, <2>2 DEF TypeOK, Thread, ListenerStates, Serving
<1>9. ListenerSteps(q, c, t, v)
  BY <1>2, <1>5, <1>7 DEF ListenerRecvKey, ListenerSteps
<1>10. TypeOK' /\ OwnersInv' /\ IsAbout(c) /\ wire'[c] = v /\ listener'[q] = t
  BY <1>0, <1>1, <1>2, <1>6, <1>8, <1>9, ListenerGoesOn
<1>11. InStepAt(c)'
  <2>0. Stage(c, q) = "key" /\ Stage(c, q)' = "offer"
    BY <1>1, <1>2, <1>8, <1>10 DEF Stage
  <2>1. SUFFICES ASSUME v.ends = {p, q}
                 PROVE  InStep("offer", v, p, q)'
    BY <1>3, <1>4, <1>6, <1>10, <2>0 DEF InStepAt, SameEnds
  <2>2. InStep("key", wire[c], p, q)
    BY <1>0, <1>3, <1>4, <1>6, <2>0, <2>1 DEF StageInv, InStepAt, SameEnds
  <2>3. client' = client
    BY <1>9 DEF ListenerSteps
  <2>4. Head(wire[c].in[q]) = Key(p) => listener'[q].key = p
    BY <1>8, <1>10 DEF KeyIn, Key
  <2>5. CASE client[p].pc = "hello" /\ Greeting("key", wire[c], p, q)
    BY <1>4, <1>5, <2>5, Reading DEF Greeting
  <2>6. CASE client[p].pc = "key" /\ Exchanging("key", wire[c], p, q)
    <3>1. wire[c].in[p] \in {<<>>, <<Key(q)>>} /\ OnTheirWay(<<Key(p)>>, wire[c], q)
      BY <2>6 DEF Exchanging
    <3>2. Head(wire[c].in[q]) = Key(p) /\ v.in[q] = <<>>
      BY <1>4, <1>5, <3>1, Reading
    <3> QED
      BY <1>6, <2>3, <2>4, <2>6, <3>1, <3>2 DEF InStep, Exchanging
  <2>7. CASE client[p].pc = "path" /\ Choosing("key", wire[c], p, q)
    <3>1. client[p].key = q /\ wire[c].in[p] = <<>> /\ OnTheirWay(<<Key(p)>>, wire[c], q)
      BY <2>7 DEF Choosing
    <3>2. Head(wire[c].in[q]) = Key(p) /\ v.in[q] = <<>>
      BY <1>4, <1>5, <3>1, Reading
    <3> QED
      BY <1>6, <2>3, <2>4, <2>7, <3>1, <3>2 DEF InStep, Choosing
  <2>8. CASE client[p].pc = "transfer" /\ Transferring("key", wire[c], p, q)
    <3>1. /\ client[p].key = q /\ wire[c].in[p] = <<>>
          /\ OnTheirWay(<<Key(p), Offer(p)>>, wire[c], q)
      BY <2>8 DEF Transferring
    <3>2. Head(wire[c].in[q]) = Key(p) /\ v.in[q] \in {<<>>, <<Offer(p)>>}
      BY <1>4, <1>5, <3>1, Reading
    <3> QED
      BY <1>6, <2>3, <2>4, <2>8, <3>1, <3>2 DEF InStep, Transferring
  <2> QED
    BY <2>2, <2>5, <2>6, <2>7, <2>8 DEF InStep
<1> QED
  BY <1>10, <1>11, OneInStep

LEMMA RecvOfferKeepsInv ==
  ASSUME SetupInv, NEW q \in Peers, RecvOffer(q)
  PROVE  SetupInv'
<1>0. TypeOK /\ OwnersInv /\ StageInv
  BY DEF SetupInv
<1>1. listener[q].pc = "offer" /\ listener[q].pc \in Serving
  BY DEF RecvOffer, Serving
<1>2. PICK c \in Conns : c = listener[q].conn
  BY <1>0, <1>1, ListenerOn
<1>3. PICK p \in Peers \ {q} : p = wire[c].client
  BY <1>0, <1>1, <1>2, ListenerOn
<1>4. wire[c] \in Wires /\ wire[c].server = q /\ wire[c].in[q] # <<>>
  BY <1>0, <1>1, <1>2, ListenerOn DEF RecvOffer, Arrived
<1>5. CASE Head(wire[c].in[q]).type # "OFFER"
  BY <1>1, <1>2, <1>5, HangsUpKeepsInv DEF RecvOffer
<1>6. CASE Head(wire[c].in[q]).type = "OFFER"
  <2>1. PICK v \in ReadBy(wire[c], q) : wire' = [wire EXCEPT ![c] = v]
    BY <1>2, <1>6 DEF RecvOffer
  <2>2. v \in Wires /\ SameEnds(wire[c], v) /\ v.in[p] = wire[c].in[p]
    BY <1>3, <1>4, ReadByFields
  <2>3. PICK t : t = [listener[q] EXCEPT !.pc = "transfer"]
    OBVIOUS
  <2>4. /\ t \in Thread(ListenerStates) /\ t.conn = c /\ t.pc = "transfer"
        /\ t.pc \in Serving /\ t.key = listener[q].key
    BY <1>0, <1>2, <2>3 DEF TypeOK, Thread, ListenerStates, Serving
  <2>5. ListenerSteps(q, c, t, v)
    BY <1>2, <1>6, <2>1, <2>3 DEF RecvOffer, ListenerMoves, ListenerSteps
  <2>6. TypeOK' /\ OwnersInv' /\ IsAbout(c) /\ wire'[c] = v /\ listener'[q] = t
    BY <1>0, <1>1, <1>2, <2>2, <2>4, <2>5, ListenerGoesOn
  <2>7. InStepAt(c)'
    <3>0. Stage(c, q) = "offer" /\ Stage(c, q)' = "transfer"
      BY <1>1, <1>2, <2>4, <2>6 DEF Stage
    <3>1. SUFFICES ASSUME v.ends = {p, q}
                   PROVE  client'[p].pc = "transfer" /\ Transferring("transfer", v, p, q)'
      BY <1>3, <1>4, <2>2, <2>6, <3>0 DEF InStepAt, InStep, SameEnds
    <3>2. InStep("offer", wire[c], p, q)
      BY <1>0, <1>3, <1>4, <2>2, <3>0, <3>1 DEF StageInv, InStepAt, SameEnds
    <3>3. /\ client[p].pc = "transfer" /\ client[p].key = q
          /\ wire[c].in[p] = <<>> /\ wire[c].in[q] = <<Offer(p)>>
          /\ listener[q].key = p
      BY <1>4, <3>2 DEF InStep, Greeting, Exchanging, Choosing, Transferring
    <3>4. v.in[q] = <<>>
      <4>1. OnTheirWay(<<Offer(p)>>, wire[c], q)
        BY <3>3 DEF OnTheirWay
      <4> QED
        BY <1>4, <2>1, <4>1, Reading
    <3>5. client' = client
      BY <2>5 DEF ListenerSteps
    <3> QED
      BY <2>2, <2>4, <2>6, <3>3, <3>4, <3>5 DEF Transferring
  <2> QED
    BY <2>6, <2>7, OneInStep
<1> QED
  BY <1>5, <1>6

LEMMA AcceptClientKeepsInv ==
  ASSUME SetupInv, NEW q \in Peers, AcceptClient(q)
  PROVE  SetupInv'
<1>0. TypeOK /\ OwnersInv /\ StageInv
  BY DEF SetupInv
<1>1. /\ listener[q].pc = "accept" /\ listener[q].pc \notin Serving
      /\ listener[q].conn = None /\ backlog[q] \in Seq(Conns) /\ backlog[q] # <<>>
  BY <1>0 DEF AcceptClient, Serving, OwnersInv, ListenerInv, TypeOK
<1>2. PICK n \in Nat : n + 1 = Len(backlog[q])
  <2>1. Len(backlog[q]) \in Nat \ {0}
    BY <1>1, EmptySeq
  <2> QED
    BY <2>1
<1>3. PICK c \in Conns : c = Head(backlog[q])
  BY <1>1, HeadTailProperties
<1>4. PICK rest \in Seq(Conns) : rest = Tail(backlog[q])
  BY <1>1, HeadTailProperties
<1>5. /\ DOMAIN backlog[q] = 1..(n + 1) /\ DOMAIN rest = 1..n
      /\ backlog[q][1] = c
      /\ \A i \in 1..n : rest[i] = backlog[q][i + 1]
      /\ Len(rest) = n
  BY <1>1, <1>2, <1>3, <1>4, HeadTailProperties, LenProperties
<1>6. PICK t : t = [Idle("hello") EXCEPT !.conn = c]
  OBVIOUS
<1>7. t \in Thread(ListenerStates) /\ t.pc = "hello" /\ t.pc \in Serving /\ t.conn = c
  BY <1>6 DEF Thread, ListenerStates, Idle, Serving
<1>8. /\ listener'[q] = t /\ backlog'[q] = rest
      /\ \A r \in Peers \ {q} : listener'[r] = listener[r] /\ backlog'[r] = backlog[r]
      /\ listener' \in [Peers -> Thread(ListenerStates)]
      /\ backlog' \in [Peers -> Seq(Conns)]
      /\ client' = client /\ wire' = wire
  BY <1>0, <1>3, <1>4, <1>6, <1>7 DEF AcceptClient, TypeOK
<1>9. TypeOK'
  <2>1. \A r \in Peers : Len(backlog'[r]) <= Backlog
    <3>1. Len(backlog[q]) <= Backlog /\ Backlog \in Nat
      BY <1>0, SetupAssumption DEF TypeOK
    <3>2. Len(backlog'[q]) <= Backlog
      BY <1>2, <1>5, <1>8, <3>1
    <3> QED
      BY <1>0, <1>8, <3>2 DEF TypeOK
  <2> QED
    BY <1>0, <1>8, <2>1 DEF TypeOK
<1>10. /\ wire[c].server = q /\ q \in wire[c].ends
       /\ \A i \in 1..n : rest[i] # c
  <2>1. 1 \in 1..(n + 1) /\ \A i \in 1..n : i + 1 \in 1..(n + 1) /\ i + 1 # 1
    BY <1>2
  <2> QED
    BY <1>0, <1>5, <2>1 DEF OwnersInv, BacklogInv
<1>11. OwnersInv'
  <2>1. WireInv'
    BY <1>0, <1>8 DEF OwnersInv, WireInv
  <2>2. ClientInv'
    BY <1>0, <1>1, <1>7, <1>8 DEF OwnersInv, ClientInv
  <2>3. ListenerInv'
    <3>1. ~Waits(q, c)'
      BY <1>5, <1>8, <1>10 DEF Waits
    <3>2. \A r \in Peers \ {q} : Waits(r, listener[r].conn)' <=> Waits(r, listener[r].conn)
      BY <1>8 DEF Waits
    <3>3. \A r \in Peers \ {q} :
            /\ listener'[r].pc \notin Serving => listener'[r].conn = None
            /\ listener'[r].pc \in Serving =>
                 /\ listener'[r].conn \in Conns
                 /\ wire'[listener'[r].conn].server = r
                 /\ r \in wire'[listener'[r].conn].ends
                 /\ ~Waits(r, listener[r].conn)'
      BY <1>0, <1>8, <3>2 DEF OwnersInv, ListenerInv
    <3> QED
      BY <1>7, <1>8, <1>10, <3>1, <3>3 DEF ListenerInv, Waits
  <2>4. BacklogInv'
    <3>1. \A i \in 1..n : i + 1 \in 1..(n + 1)
      BY <1>2
    <3>2. ASSUME NEW i \in 1..n
          PROVE  /\ wire[rest[i]].server = q
                 /\ q \in wire[rest[i]].ends
                 /\ \A j \in 1..n : rest[i] = rest[j] => i = j
      <4>1. rest[i] = backlog[q][i + 1] /\ i + 1 \in DOMAIN backlog[q]
        BY <1>5, <3>1
      <4>2. wire[rest[i]].server = q /\ q \in wire[rest[i]].ends
        BY <1>0, <4>1 DEF OwnersInv, BacklogInv
      <4>3. ASSUME NEW j \in 1..n, rest[i] = rest[j] PROVE i = j
        <5>1. rest[j] = backlog[q][j + 1] /\ j + 1 \in DOMAIN backlog[q]
          BY <1>5, <3>1
        <5>2. i + 1 = j + 1
          BY <1>0, <4>1, <4>3, <5>1 DEF OwnersInv, BacklogInv
        <5> QED
          BY <5>2
      <4> QED
        BY <4>2, <4>3
    <3>3. listener'[q].pc # "off"
      BY <1>7, <1>8
    <3>4. ASSUME NEW r \in Peers \ {q}
          PROVE  /\ listener[r].pc = "off" => backlog[r] = <<>>
                 /\ \A i \in DOMAIN backlog[r] :
                      /\ wire[backlog[r][i]].server = r
                      /\ r \in wire[backlog[r][i]].ends
                      /\ \A j \in DOMAIN backlog[r] : backlog[r][i] = backlog[r][j] => i = j
      BY <1>0 DEF OwnersInv, BacklogInv
    <3>5. ASSUME NEW r \in Peers
          PROVE  /\ listener'[r].pc = "off" => backlog'[r] = <<>>
                 /\ \A i \in DOMAIN backlog'[r] :
                      /\ wire'[backlog'[r][i]].server = r
                      /\ r \in wire'[backlog'[r][i]].ends
                      /\ \A j \in DOMAIN backlog'[r] : backlog'[r][i] = backlog'[r][j] => i = j
      <4>1. CASE r = q
        BY <1>5, <1>8, <3>2, <3>3, <4>1
      <4>2. CASE r # q
        BY <1>8, <3>4, <4>2
      <4> QED
        BY <4>1, <4>2
    <3> QED
      BY <3>5 DEF BacklogInv
  <2>5. NoSocketLost'
    <3>1. \A d \in Conns : wire[d].ends \subseteq Peers
      BY <1>0 DEF TypeOK, Wires
    <3>2. ASSUME NEW d \in Conns \ {c}, NEW i \in 1..(n + 1), backlog[q][i] = d
          PROVE  \E j \in DOMAIN backlog'[q] : backlog'[q][j] = d
      <4>1. i # 1
        BY <1>5, <3>2
      <4>2. i - 1 \in 1..n /\ (i - 1) + 1 = i
        BY <1>2, <4>1
      <4>3. rest[i - 1] = d
        BY <1>5, <3>2, <4>2
      <4> QED
        BY <1>5, <1>8, <4>2, <4>3
    <3>3. ASSUME NEW d \in Conns, NEW r \in wire[d].ends
          PROVE  \/ r = wire[d].client /\ client[r].conn = d
                 \/ r = wire[d].server /\ listener'[r].conn = d
                 \/ r = wire[d].server /\ \E i \in DOMAIN backlog'[r] : backlog'[r][i] = d
      <4>1. CASE r = wire[d].client /\ client[r].conn = d
        BY <4>1
      <4>2. CASE r = wire[d].server /\ listener[r].conn = d
        BY <1>1, <1>8, <3>1, <4>2, SetupAssumption
      <4>3. CASE r = wire[d].server /\ \E i \in DOMAIN backlog[r] : backlog[r][i] = d
        <5>1. CASE r # q
          BY <1>8, <3>1, <4>3, <5>1
        <5>2. CASE r = q /\ d = c
          BY <1>7, <1>8, <4>3, <5>2
        <5>3. CASE r = q /\ d # c
          BY <1>5, <3>2, <4>3, <5>3
        <5> QED
          BY <5>1, <5>2, <5>3
      <4> QED
        BY <1>0, <4>1, <4>2, <4>3 DEF OwnersInv, NoSocketLost
    <3> QED
      BY <1>8, <3>3 DEF NoSocketLost
  <2> QED
    BY <2>1, <2>2, <2>3, <2>4, <2>5 DEF OwnersInv
<1>12. IsAbout(c)
  BY <1>1, <1>7, <1>8 DEF IsAbout
<1>13. InStepAt(c)'
  <2>1. Stage(c, q) = "waiting" /\ Stage(c, q)' = "hello"
    BY <1>1, <1>7, <1>8, SetupAssumption DEF Stage
  <2>2. InStepAt(c)
    BY <1>0 DEF StageInv
  <2> QED
    BY <1>8, <1>10, <2>1, <2>2
       DEF InStepAt, InStep, Greeting, Exchanging, Choosing, Transferring
<1> QED
  BY <1>9, <1>11, <1>12, <1>13, OneInStep

-----------------------------------------------------------------------------
(* Processes and the network.                                              *)

LEMMA InitInv == Init => SetupInv
<1> SUFFICES ASSUME Init PROVE SetupInv
  OBVIOUS
<1>1. \A pc : Idle(pc).pc = pc /\ Idle(pc).conn = None
  BY DEF Idle
<1>2. Idle("off") \in Thread(ClientStates) /\ Idle("off") \in Thread(ListenerStates)
  BY DEF Idle, Thread, ClientStates, ListenerStates
<1>3. TypeOK
  <2>1. \A p \in Peers : backlog[p] = <<>> /\ Len(backlog[p]) <= Backlog
    <3>1. 0 <= Backlog /\ Len(<<>>) = 0
      BY SetupAssumption
    <3> QED
      BY <3>1 DEF Init
  <2> QED
    BY <1>2, <2>1, NoWireTyped DEF Init, TypeOK
<1>4. \A c \in Conns : wire[c] = NoWire /\ wire[c].ends = {}
  BY DEF Init, NoWire
<1>5. \A p \in Peers : /\ client[p].pc = "off" /\ client[p].conn = None
                      /\ listener[p].pc = "off" /\ listener[p].conn = None
                      /\ backlog[p] = <<>>
  BY <1>1 DEF Init
<1>6. WireInv /\ ClientInv /\ ListenerInv /\ BacklogInv
  BY <1>4, <1>5 DEF WireInv, ClientInv, ListenerInv, BacklogInv, Calling, Serving
<1>7. NoSocketLost
  BY <1>4 DEF NoSocketLost
<1>8. StageInv
  BY <1>4 DEF StageInv, InStepAt
<1> QED
  BY <1>3, <1>6, <1>7, <1>8 DEF SetupInv, OwnersInv

LEMMA StartKeepsInv ==
  ASSUME SetupInv, NEW p \in Peers, Start(p)
  PROVE  SetupInv'
<1>0. TypeOK /\ OwnersInv /\ StageInv
  BY DEF SetupInv
<1>1. /\ listener[p].pc = "off" /\ listener[p].conn = None
      /\ client[p].pc = "off" /\ client[p].conn = None
      /\ backlog[p] = <<>>
  BY <1>0 DEF Start, OwnersInv, ListenerInv, ClientInv, BacklogInv, Serving, Calling
<1>2. PICK pc \in {"off", "select"} : client' = [client EXCEPT ![p] = Idle(pc)]
  BY DEF Start
<1>3. /\ Idle(pc).pc = pc /\ Idle(pc).conn = None /\ Idle(pc) \in Thread(ClientStates)
      /\ Idle("accept").pc = "accept" /\ Idle("accept").conn = None
      /\ Idle("accept") \in Thread(ListenerStates)
  BY DEF Idle, Thread, ClientStates, ListenerStates
<1>4. /\ client' \in [Peers -> Thread(ClientStates)]
      /\ listener' \in [Peers -> Thread(ListenerStates)]
      /\ client'[p] = Idle(pc) /\ listener'[p] = Idle("accept")
      /\ \A r \in Peers \ {p} : client'[r] = client[r] /\ listener'[r] = listener[r]
      /\ backlog' = backlog /\ wire' = wire
  BY <1>0, <1>2, <1>3 DEF Start, TypeOK
<1>5. TypeOK'
  BY <1>0, <1>4 DEF TypeOK
<1>6. OwnersInv'
  <2>1. WireInv'
    BY <1>0, <1>4 DEF OwnersInv, WireInv
  <2>2. ClientInv'
    BY <1>0, <1>3, <1>4 DEF OwnersInv, ClientInv, Calling
  <2>3. ListenerInv'
    <3>1. \A r \in Peers : Waits(r, listener[r].conn)' <=> Waits(r, listener'[r].conn)
      BY <1>4 DEF Waits
    <3>2. \A r \in Peers \ {p} :
            /\ listener'[r].pc \notin Serving => listener'[r].conn = None
            /\ listener'[r].pc \in Serving =>
                 /\ listener'[r].conn \in Conns
                 /\ wire'[listener'[r].conn].server = r
                 /\ r \in wire'[listener'[r].conn].ends
                 /\ ~Waits(r, listener'[r].conn)
      BY <1>0, <1>4 DEF OwnersInv, ListenerInv
    <3> QED
      BY <1>3, <1>4, <3>1, <3>2 DEF ListenerInv, Serving
  <2>4. BacklogInv'
    BY <1>0, <1>1, <1>3, <1>4 DEF OwnersInv, BacklogInv
  <2>5. NoSocketLost'
    <3>1. \A d \in Conns : wire[d].ends \subseteq Peers
      BY <1>0 DEF TypeOK, Wires
    <3>2. \A d \in Conns : client[p].conn # d /\ listener[p].conn # d
      BY <1>1, SetupAssumption
    <3>3. ASSUME NEW d \in Conns, NEW r \in wire[d].ends
          PROVE  \/ r = wire[d].client /\ client'[r].conn = d
                 \/ r = wire[d].server /\ listener'[r].conn = d
                 \/ r = wire[d].server /\ \E i \in DOMAIN backlog[r] : backlog[r][i] = d
      BY <1>0, <1>4, <3>1, <3>2 DEF OwnersInv, NoSocketLost
    <3> QED
      BY <1>4, <3>3 DEF NoSocketLost
  <2> QED
    BY <2>1, <2>2, <2>3, <2>4, <2>5 DEF OwnersInv
<1>7. IsAbout(None)
  BY <1>1, <1>3, <1>4 DEF IsAbout
<1> QED
  BY <1>5, <1>6, <1>7, OneInStep, SetupAssumption

LEMMA EndsKeepsInv ==
  ASSUME SetupInv, NEW p \in Peers, Ends(p)
  PROVE  SetupInv'
<1>0. TypeOK /\ OwnersInv /\ StageInv
  BY DEF SetupInv
<1>1. /\ Idle("off").pc = "off" /\ Idle("off").conn = None
      /\ Idle("off") \in Thread(ClientStates) /\ Idle("off") \in Thread(ListenerStates)
  BY DEF Idle, Thread, ClientStates, ListenerStates
<1>2. /\ client' \in [Peers -> Thread(ClientStates)]
      /\ listener' \in [Peers -> Thread(ListenerStates)]
      /\ client'[p] = Idle("off") /\ listener'[p] = Idle("off")
      /\ backlog'[p] = <<>>
      /\ \A r \in Peers \ {p} :
           client'[r] = client[r] /\ listener'[r] = listener[r] /\ backlog'[r] = backlog[r]
  BY <1>0, <1>1 DEF Ends, TypeOK
<1>3. ASSUME NEW c \in Conns
      PROVE  /\ wire'[c] \in Wires
             /\ wire'[c].ends = wire[c].ends \ {p}
             /\ wire'[c] # NoWire => wire'[c].ends # {}
             /\ wire'[c].ends # {} => /\ wire'[c].client = wire[c].client
                                     /\ wire'[c].server = wire[c].server
             /\ p \notin wire[c].ends => wire'[c] = wire[c]
  <2>1. wire[c] \in Wires
    BY <1>0 DEF TypeOK
  <2>2. CASE p \in wire[c].ends
    <3>1. wire'[c] = ClosedBy(wire[c], p)
      BY <2>2 DEF Ends
    <3> QED
      BY <2>1, <2>2, <3>1, SameItself, EndClosed
  <2>3. CASE p \notin wire[c].ends
    <3>1. wire'[c] = wire[c]
      BY <2>3 DEF Ends
    <3>2. wire[c] # NoWire => wire[c].ends # {}
      BY <1>0 DEF OwnersInv, WireInv
    <3> QED
      BY <2>1, <2>3, <3>1, <3>2
  <2> QED
    BY <2>2, <2>3
<1>4. TypeOK'
  <2>1. wire' \in [Conns -> Wires]
    BY <1>3 DEF Ends
  <2>2. \A r \in Peers : backlog'[r] \in Seq(Conns) /\ Len(backlog'[r]) <= Backlog
    <3>1. Len(<<>>) = 0 /\ <<>> \in Seq(Conns) /\ 0 <= Backlog
      BY SetupAssumption
    <3> QED
      BY <1>0, <1>2, <3>1 DEF TypeOK
  <2>3. backlog' \in [Peers -> Seq(Conns)]
    BY <1>0, <<>> \in Seq(Conns) DEF Ends, TypeOK
  <2> QED
    BY <1>2, <2>1, <2>2, <2>3 DEF TypeOK
<1>5. OwnersInv'
  <2>1. WireInv'
    <3>1. NoWire.ends = {}
      BY DEF NoWire
    <3>2. ASSUME NEW c \in Conns, wire'[c] # NoWire
          PROVE  /\ wire[c] # NoWire
                 /\ wire'[c].ends # {} /\ wire'[c].ends \subseteq wire[c].ends
                 /\ wire'[c].client = wire[c].client
                 /\ wire'[c].server = wire[c].server
      BY <1>3, <3>1, <3>2
    <3> QED
      BY <1>0, <3>2 DEF OwnersInv, WireInv
  <2>2. ClientInv'
    <3>1. ASSUME NEW r \in Peers \ {p}, client'[r].pc \in Calling
          PROVE  /\ client'[r].conn \in Conns
                 /\ wire'[client'[r].conn].client = r
                 /\ r \in wire'[client'[r].conn].ends
      BY <1>0, <1>2, <1>3, <3>1 DEF OwnersInv, ClientInv
    <3>2. \A r \in Peers \ {p} :
            /\ listener'[r].pc = "off" => client'[r].pc = "off"
            /\ client'[r].pc \notin Calling => client'[r].conn = None
      BY <1>0, <1>2 DEF OwnersInv, ClientInv
    <3>3. client'[p].pc = "off" /\ client'[p].pc \notin Calling /\ client'[p].conn = None
      BY <1>1, <1>2 DEF Calling
    <3> QED
      BY <3>1, <3>2, <3>3 DEF ClientInv
  <2>3. ListenerInv'
    <3>1. ASSUME NEW r \in Peers \ {p}, listener'[r].pc \in Serving
          PROVE  /\ listener'[r].conn \in Conns
                 /\ wire'[listener'[r].conn].server = r
                 /\ r \in wire'[listener'[r].conn].ends
                 /\ ~Waits(r, listener[r].conn)'
      BY <1>0, <1>2, <1>3, <3>1 DEF OwnersInv, ListenerInv, Waits
    <3>2. \A r \in Peers \ {p} : listener'[r].pc \notin Serving => listener'[r].conn = None
      BY <1>0, <1>2 DEF OwnersInv, ListenerInv
    <3>3. listener'[p].pc \notin Serving /\ listener'[p].conn = None
      BY <1>1, <1>2 DEF Serving
    <3> QED
      BY <3>1, <3>2, <3>3 DEF ListenerInv
  <2>4. BacklogInv'
    <3>1. ASSUME NEW r \in Peers \ {p}, NEW i \in DOMAIN backlog[r]
          PROVE  /\ wire'[backlog[r][i]].server = r
                 /\ r \in wire'[backlog[r][i]].ends
                 /\ \A j \in DOMAIN backlog[r] : backlog[r][i] = backlog[r][j] => i = j
      <4>1. /\ backlog[r][i] \in Conns
            /\ wire[backlog[r][i]].server = r
            /\ r \in wire[backlog[r][i]].ends
        BY <1>0 DEF OwnersInv, BacklogInv, TypeOK
      <4> QED
        BY <1>0, <1>3, <4>1 DEF OwnersInv, BacklogInv
    <3>2. \A r \in Peers \ {p} : listener'[r].pc = "off" => backlog'[r] = <<>>
      BY <1>0, <1>2 DEF OwnersInv, BacklogInv
    <3>3. DOMAIN backlog'[p] = {}
      BY <1>2
    <3> QED
      BY <1>2, <3>1, <3>2, <3>3 DEF BacklogInv
  <2>5. NoSocketLost'
    <3>1. \A d \in Conns : wire[d].ends \subseteq Peers
      BY <1>0 DEF TypeOK, Wires
    <3>2. ASSUME NEW d \in Conns, NEW r \in wire'[d].ends
          PROVE  /\ r \in Peers \ {p} /\ r \in wire[d].ends
                 /\ wire'[d].client = wire[d].client /\ wire'[d].server = wire[d].server
      BY <1>3, <3>1
    <3> QED
      BY <1>0, <1>2, <3>2 DEF OwnersInv, NoSocketLost
  <2> QED
    BY <2>1, <2>2, <2>3, <2>4, <2>5 DEF OwnersInv
<1>6. ASSUME NEW d \in Conns PROVE InStepAt(d)'
  <2>1. CASE wire'[d].ends # {wire'[d].client, wire'[d].server}
    BY <2>1 DEF InStepAt
  <2>2. CASE wire'[d].ends = {wire'[d].client, wire'[d].server}
    <3>1. /\ wire'[d].client = wire[d].client /\ wire'[d].server = wire[d].server
          /\ wire[d] # NoWire
      BY <1>3, <2>2 DEF NoWire
    <3>2. wire[d].ends \subseteq {wire[d].client, wire[d].server}
      BY <1>0, <3>1 DEF OwnersInv, WireInv
    <3>3. p \notin wire[d].ends /\ wire'[d] = wire[d]
      BY <1>3, <2>2, <3>1, <3>2
    <3>4. wire[d].client \in Peers \ {p} /\ wire[d].server \in Peers \ {p}
      BY <1>0, <2>2, <3>3, OpenConnection
    <3> QED
      BY <1>0, <1>2, <3>3, <3>4, StageKept DEF StageInv
  <2> QED
    BY <2>1, <2>2
<1> QED
  BY <1>4, <1>5, <1>6 DEF SetupInv, StageInv

\* What is left of frames of which some are lost.
LEMMA CutOnTheirWay ==
  ASSUME NEW w, NEW v, NEW p, v.broken, v.in[p] \in Prefixes(w.in[p])
  PROVE  /\ OnTheirWay(<<>>, w, p) => OnTheirWay(<<>>, v, p)
         /\ \A a : OnTheirWay(<<a>>, w, p) => OnTheirWay(<<a>>, v, p)
         /\ \A a, b : OnTheirWay(<<a, b>>, w, p) => OnTheirWay(<<a, b>>, v, p)
         /\ w.in[p] = <<>> => v.in[p] = <<>>
         /\ \A a : w.in[p] \in {<<>>, <<a>>} => v.in[p] \in {<<>>, <<a>>}
<1>1. w.in[p] = <<>> => v.in[p] = <<>>
  BY PrefixesOfFew
<1>2. ASSUME NEW a, w.in[p] \in {<<>>, <<a>>} PROVE v.in[p] \in {<<>>, <<a>>}
  BY <1>2, PrefixesOfFew
<1>3. ASSUME NEW a, NEW b, w.in[p] \in {<<>>, <<a>>, <<a, b>>}
      PROVE  v.in[p] \in {<<>>, <<a>>, <<a, b>>}
  BY <1>3, PrefixesOfFew
<1>4. OnTheirWay(<<>>, w, p) => OnTheirWay(<<>>, v, p)
  BY <1>1, PrefixesOfFew DEF OnTheirWay
<1>5. ASSUME NEW a, OnTheirWay(<<a>>, w, p) PROVE OnTheirWay(<<a>>, v, p)
  BY <1>2, <1>5, PrefixesOfFew DEF OnTheirWay
<1>6. ASSUME NEW a, NEW b, OnTheirWay(<<a, b>>, w, p) PROVE OnTheirWay(<<a, b>>, v, p)
  BY <1>3, <1>6, PrefixesOfFew DEF OnTheirWay
<1> QED
  BY <1>1, <1>2, <1>4, <1>5, <1>6

LEMMA ResetKeepsInv ==
  ASSUME SetupInv, NEW c \in Conns, Reset(c)
  PROVE  SetupInv'
<1>0. TypeOK /\ OwnersInv /\ StageInv
  BY DEF SetupInv
<1>1. wire[c] \in Wires /\ wire[c] # NoWire
  BY <1>0 DEF Reset, TypeOK, NoWire
<1>2. PICK p \in Peers : p = wire[c].client
  BY <1>0, <1>1 DEF OwnersInv, WireInv
<1>3. PICK q \in Peers \ {p} : q = wire[c].server
  BY <1>0, <1>1, <1>2 DEF OwnersInv, WireInv
<1>4. PICK s \in Prefixes(wire[c].in[p]), t \in Prefixes(wire[c].in[q]) :
        wire' = [wire EXCEPT ![c].broken = TRUE,
                             ![c].in = [Silence EXCEPT ![p] = s, ![q] = t]]
  BY <1>2, <1>3 DEF Reset
<1>5. PICK f : f = [Silence EXCEPT ![p] = s, ![q] = t]
  OBVIOUS
<1>6. f \in [Peers -> Seq(Frames)] /\ f[p] = s /\ f[q] = t
  <2>1. s \in Seq(Frames) /\ t \in Seq(Frames)
    <3>1. wire[c].in[p] \in Seq(Frames) /\ wire[c].in[q] \in Seq(Frames)
      BY <1>1 DEF Wires
    <3>2. ASSUME NEW x \in Seq(Frames), NEW y \in Prefixes(x) PROVE y \in Seq(Frames)
      <4>1. PICK m \in 0 .. Len(x) : y = SubSeq(x, 1, m)
        BY DEF Prefixes
      <4>2. \A i \in 1 .. m : x[i] \in Frames
        BY ElementOfSeq
      <4> QED
        BY <4>1, <4>2, SubSeqProperties
    <3> QED
      BY <3>1, <3>2
  <2>2. <<>> \in Seq(Frames)
    OBVIOUS
  <2> QED
    BY <1>5, <2>1, <2>2 DEF Silence
<1>7. PICK v : v = [wire[c] EXCEPT !.broken = TRUE, !.in = f]
  OBVIOUS
<1>8. /\ v \in Wires /\ SameEnds(wire[c], v) /\ v.broken
      /\ v.in[p] \in Prefixes(wire[c].in[p]) /\ v.in[q] \in Prefixes(wire[c].in[q])
  BY <1>1, <1>6, <1>7 DEF Wires, SameEnds
<1>9. /\ wire' \in [Conns -> Wires] /\ wire'[c] = v
      /\ \A d \in Conns \ {c} : wire'[d] = wire[d]
      /\ UNCHANGED <<client, listener, backlog>>
  <2>1. wire' = [wire EXCEPT ![c] = v]
    BY <1>0, <1>4, <1>5, <1>7 DEF TypeOK
  <2> QED
    BY <1>0, <1>8, <2>1 DEF Reset, TypeOK
<1>10. TypeOK'
  BY <1>0, <1>9 DEF TypeOK
<1>11. KeepsSockets
  BY <1>1, <1>8, <1>9 DEF KeepsSockets, SameEnds, SamePlace
<1>12. OwnersInv'
  BY <1>0, <1>10, <1>11, SameOwners
<1>13. IsAbout(c)
  BY <1>9 DEF IsAbout
<1>14. InStepAt(c)'
  <2>0. PICK n : n = Stage(c, q) /\ n = Stage(c, q)'
    BY <1>9 DEF Stage
  <2>1. SUFFICES ASSUME v.ends = {p, q}
                 PROVE  InStep(n, v, p, q)'
    BY <1>2, <1>3, <1>8, <1>9, <2>0 DEF InStepAt, SameEnds
  <2>2. InStep(n, wire[c], p, q)
    BY <1>0, <1>2, <1>3, <1>8, <2>0, <2>1 DEF StageInv, InStepAt, SameEnds
  <2>3. \A r \in {p, q} :
          /\ OnTheirWay(<<>>, wire[c], r) => OnTheirWay(<<>>, v, r)
          /\ \A a : OnTheirWay(<<a>>, wire[c], r) => OnTheirWay(<<a>>, v, r)
          /\ \A a, b : OnTheirWay(<<a, b>>, wire[c], r) => OnTheirWay(<<a, b>>, v, r)
          /\ wire[c].in[r] = <<>> => v.in[r] = <<>>
          /\ \A a : wire[c].in[r] \in {<<>>, <<a>>} => v.in[r] \in {<<>>, <<a>>}
    BY <1>8, CutOnTheirWay
  <2>4. client' = client /\ listener' = listener
    BY <1>9
  <2>5. CASE client[p].pc = "hello" /\ Greeting(n, wire[c], p, q)
    BY <2>3, <2>4, <2>5 DEF InStep, Greeting
  <2>6. CASE client[p].pc = "key" /\ Exchanging(n, wire[c], p, q)
    BY <2>3, <2>4, <2>6 DEF InStep, Exchanging
  <2>7. CASE client[p].pc = "path" /\ Choosing(n, wire[c], p, q)
    BY <2>3, <2>4, <2>7 DEF InStep, Choosing
  <2>8. CASE client[p].pc = "transfer" /\ Transferring(n, wire[c], p, q)
    <3>1. client[p].key = q /\ v.in[p] = <<>>
      BY <2>3, <2>8 DEF Transferring
    <3>2. CASE n = "key" /\ OnTheirWay(<<Key(p), Offer(p)>>, wire[c], q)
      <4>1. OnTheirWay(<<Key(p), Offer(p)>>, v, q)
        BY <2>3, <3>2
      <4> QED
        BY <2>4, <2>8, <3>1, <3>2, <4>1 DEF InStep, Transferring
    <3>3. CASE /\ n = "offer" /\ wire[c].in[q] \in {<<>>, <<Offer(p)>>}
               /\ listener[q].key = p
      <4>1. v.in[q] \in {<<>>, <<Offer(p)>>}
        BY <2>3, <3>3
      <4> QED
        BY <2>4, <2>8, <3>1, <3>3, <4>1 DEF InStep, Transferring
    <3>4. CASE n = "transfer" /\ wire[c].in[q] = <<>> /\ listener[q].key = p
      <4>1. v.in[q] = <<>>
        BY <2>3, <3>4
      <4> QED
        BY <2>4, <2>8, <3>1, <3>4, <4>1 DEF InStep, Transferring
    <3> QED
      BY <2>8, <3>2, <3>3, <3>4 DEF Transferring
  <2> QED
    BY <2>2, <2>5, <2>6, <2>7, <2>8 DEF InStep
<1> QED
  BY <1>10, <1>12, <1>13, <1>14, OneInStep

-----------------------------------------------------------------------------
(* The theorems.                                                           *)

LEMMA StutterKeepsInv == ASSUME SetupInv, UNCHANGED vars PROVE SetupInv'
<1>0. /\ client' = client /\ listener' = listener
      /\ backlog' = backlog /\ wire' = wire
  BY DEF vars
<1>1. TypeOK' /\ KeepsSockets
  BY <1>0 DEF SetupInv, TypeOK, KeepsSockets, SameEnds, SamePlace
<1>2. IsAbout(None)
  BY <1>0 DEF IsAbout
<1>3. OwnersInv'
  BY <1>1, SameOwners DEF SetupInv
<1> QED
  BY <1>1, <1>2, <1>3, OneInStep, SetupAssumption

LEMMA NextInv == SetupInv /\ [Next]_vars => SetupInv'
<1> SUFFICES ASSUME SetupInv, [Next]_vars PROVE SetupInv'
  OBVIOUS
<1>1. ASSUME NEW p \in Peers, ClientThread(p) PROVE SetupInv'
  <2>1. CASE RecvHelloAck(p)
    BY <2>1, RecvHelloAckKeepsInv
  <2>2. CASE ClientRecvKey(p)
    BY <2>2, ClientRecvKeyKeepsInv
  <2>3. CASE ClientLosesPeer(p)
    BY <2>3, SessionEndsKeepInv
  <2>4. CASE FileSent(p)
    BY <2>4, FileSentKeepsInv
  <2>5. CASE Exit(p)
    BY <2>5, EndsKeepsInv DEF Exit
  <2> QED
    BY <1>1, <2>1, <2>2, <2>3, <2>4, <2>5 DEF ClientThread
<1>2. ASSUME NEW q \in Peers, ListenerThread(q) PROVE SetupInv'
  <2>1. CASE AcceptClient(q)
    BY <2>1, AcceptClientKeepsInv
  <2>2. CASE RecvHello(q)
    BY <2>2, RecvHelloKeepsInv
  <2>3. CASE RefuseHello(q) \/ ListenerLosesPeer(q)
    BY <2>3, ListenerEndsKeepInv
  <2>4. CASE ListenerRecvKey(q)
    BY <2>4, ListenerRecvKeyKeepsInv
  <2>5. CASE RecvOffer(q)
    BY <2>5, RecvOfferKeepsInv
  <2> QED
    BY <1>2, <2>1, <2>2, <2>3, <2>4, <2>5 DEF ListenerThread
<1>3. ASSUME NEW p \in Peers, User(p) PROVE SetupInv'
  <2>1. CASE \E q \in Peers : Dial(p, q)
    BY <2>1, DialKeepsInv
  <2>2. CASE PressEnter(p) \/ Cancel(p) \/ \E q \in Peers : DialFails(p, q)
    BY <2>2, NotCallingKeepsInv
  <2>3. CASE EnterPath(p)
    BY <2>3, EnterPathKeepsInv
  <2>4. CASE EnterBadPath(p)
    BY <2>4, SessionEndsKeepInv
  <2>5. CASE Allow(p)
    BY <2>5, AllowKeepsInv
  <2>6. CASE Refuse(p)
    BY <2>6, ListenerEndsKeepInv
  <2>7. CASE RecvFileReturns(p)
    BY <2>7, RecvFileReturnsKeepsInv
  <2>8. CASE Start(p)
    BY <2>8, StartKeepsInv
  <2>9. CASE Kill(p)
    BY <2>9, EndsKeepsInv DEF Kill
  <2> QED
    BY <1>3, <2>1, <2>2, <2>3, <2>4, <2>5, <2>6, <2>7, <2>8, <2>9 DEF User
<1>4. ASSUME NEW c \in Conns, Reset(c) PROVE SetupInv'
  BY <1>4, ResetKeepsInv
<1>5. CASE UNCHANGED vars
  BY <1>5, StutterKeepsInv
<1> QED
  BY <1>1, <1>2, <1>3, <1>4, <1>5 DEF Next

\* The threads of all processes keep what SetupInvariants says of them: who
\* owns which socket, and how far the ends of a connection can be apart.
THEOREM SetupInvariant == Spec => []SetupInv
BY InitInv, NextInv, PTL DEF Spec

\* Type correctness.
THEOREM SetupTypeCorrect == Spec => []TypeOK
<1>1. SetupInv => TypeOK
  BY DEF SetupInv
<1> QED
  BY <1>1, SetupInvariant, PTL

\* No path of main.cpp loses a socket, in any number of processes.
THEOREM SocketsAreOwned == Spec => []NoSocketLost
<1>1. SetupInv => NoSocketLost
  BY DEF SetupInv, OwnersInv
<1> QED
  BY <1>1, SetupInvariant, PTL

\* A client is asked for a file only after the user of the peer it has called
\* said yes to this very connection.
THEOREM ConsentComesFirst == Spec => []ConsentFirst
<1>1. ASSUME SetupInv PROVE ConsentFirst
  <2>1. SUFFICES ASSUME NEW p \in Peers, client[p].pc \in {"path", "transfer"},
                        NEW c, c = client[p].conn,
                        wire[c].server \in wire[c].ends
                 PROVE  /\ listener[wire[c].server].conn = c
                        /\ listener[wire[c].server].pc \in {"key", "offer", "transfer"}
    BY DEF ConsentFirst
  <2>2. PICK q : q = wire[c].server
    OBVIOUS
  <2>3. /\ c \in Conns /\ wire[c].client = p /\ q \in Peers \ {p}
        /\ p \in wire[c].ends /\ wire[c] # NoWire
    BY <1>1, <2>1, <2>2, ClientOn DEF SetupInv, Calling
  <2>4. wire[c].ends = {p, q}
    BY <1>1, <2>1, <2>2, <2>3 DEF SetupInv, OwnersInv, WireInv
  <2>5. InStep(Stage(c, q), wire[c], p, q)
    BY <1>1, <2>2, <2>3, <2>4 DEF SetupInv, StageInv, InStepAt
  <2>6. Stage(c, q) \in {"key", "offer", "transfer"}
    BY <2>1, <2>5 DEF InStep, Choosing, Transferring
  <2> QED
    BY <2>2, <2>6 DEF Stage
<1> QED
  BY <1>1, SetupInvariant, PTL

\* The two ends of a connection took each other's key and nothing else,
\* although performKeyExchange looks at the type of no frame.
THEOREM KeysAreAgreed == Spec => []KeysAgree
<1>1. ASSUME SetupInv PROVE KeysAgree
  <2>1. SUFFICES ASSUME NEW p \in Peers, NEW q \in Peers, NEW c, c = client[p].conn,
                        c # None, c = listener[q].conn,
                        client[p].pc \in {"path", "transfer"},
                        listener[q].pc \in {"offer", "transfer"}
                 PROVE  client[p].key = q /\ listener[q].key = p
    BY DEF KeysAgree
  <2>2. /\ c \in Conns /\ wire[c].client = p /\ p \in wire[c].ends /\ wire[c] # NoWire
        /\ wire[c].server = q /\ q \in wire[c].ends
    BY <1>1, <2>1, ClientOn, ListenerOn DEF SetupInv, Calling, Serving
  <2>3. wire[c].ends = {p, q}
    BY <1>1, <2>2 DEF SetupInv, OwnersInv, WireInv
  <2>4. InStep(Stage(c, q), wire[c], p, q)
    BY <1>1, <2>2, <2>3 DEF SetupInv, StageInv, InStepAt
  <2>5. Stage(c, q) \in {"offer", "transfer"}
    BY <2>1 DEF Stage
  <2> QED
    BY <2>1, <2>4, <2>5 DEF InStep, Choosing, Transferring
<1> QED
  BY <1>1, SetupInvariant, PTL
=============================================================================
