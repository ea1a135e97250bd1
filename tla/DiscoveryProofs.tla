--------------------------- MODULE DiscoveryProofs ---------------------------
(***************************************************************************)
(* The safety properties of Discovery, for any processes, identities and   *)
(* ways of hearing each other.                                             *)
(***************************************************************************)
EXTENDS Discovery, TLAPS

Datagrams == [type : {"ANNOUNCE", "LEAVE"}, id : Ids, from : Peers, to : Peers]

\* What a running process sends are datagrams.
LEMMA SentTyped ==
  ASSUME TypeOK, NEW p \in Peers, id[p] \in Ids
  PROVE  Announce(p) \subseteq Datagrams /\ Leave(p) \subseteq Datagrams
BY DiscoveryAssumption DEF TypeOK, Announce, Leave, Datagrams

LEMMA InitInv == Init => DiscoveryInv
BY DiscoveryAssumption
   DEF Init, DiscoveryInv, TypeOK, OwnIdNotListed, EmptyTable

\* A live process has an identity.
LiveHasId == \A p \in Peers : main[p] # "off" => id[p] \in Ids

LEMMA NextInv == DiscoveryInv /\ LiveHasId /\ [Next]_vars => DiscoveryInv' /\ LiveHasId'
<1> SUFFICES ASSUME DiscoveryInv, LiveHasId, [Next]_vars
             PROVE  DiscoveryInv' /\ LiveHasId'
  OBVIOUS
<1> USE DiscoveryAssumption DEF DiscoveryInv, LiveHasId
<1>1. ASSUME NEW p \in Peers, Start(p) PROVE DiscoveryInv' /\ LiveHasId'
  BY <1>1 DEF Start, TypeOK, OwnIdNotListed, EmptyTable
<1>2. ASSUME NEW p \in Peers, SayGoodbye(p) PROVE DiscoveryInv' /\ LiveHasId'
  <2>1. Leave(p) \subseteq Datagrams
    BY <1>2, SentTyped DEF SayGoodbye
  <2>2. QED
    BY <1>2, <2>1 DEF SayGoodbye, SendTo, TypeOK, OwnIdNotListed, Datagrams
<1>3. ASSUME NEW p \in Peers, ClearRunning(p) PROVE DiscoveryInv' /\ LiveHasId'
  BY <1>3 DEF ClearRunning, TypeOK, OwnIdNotListed
<1>4. ASSUME NEW p \in Peers, Join(p) PROVE DiscoveryInv' /\ LiveHasId'
  BY <1>4 DEF Join, Forget, TypeOK, OwnIdNotListed, EmptyTable
<1>5. ASSUME NEW p \in Peers, Gone(p) PROVE DiscoveryInv' /\ LiveHasId'
  BY <1>5 DEF Gone, Forget, NotFor, TypeOK, OwnIdNotListed, EmptyTable
<1>6. ASSUME NEW p \in Peers, Wakes(p) PROVE DiscoveryInv' /\ LiveHasId'
  BY <1>6 DEF Wakes, running, TypeOK, OwnIdNotListed
<1>7. ASSUME NEW p \in Peers, Broadcast(p) PROVE DiscoveryInv' /\ LiveHasId'
  <2>1. main[p] # "off"
    BY <1>7 DEF Broadcast, TypeOK
  <2>2. Announce(p) \subseteq Datagrams
    BY <2>1, SentTyped
  <2>3. QED
    BY <1>7, <2>2 DEF Broadcast, SendTo, TypeOK, OwnIdNotListed, Datagrams
<1>8. ASSUME NEW p \in Peers, NEW d \in net, Receives(p, d),
             \/ UNCHANGED table
             \/ d.id # id[p] /\ addPeer(p, d.id, d.from)
             \/ removePeer(p, d.id)
      PROVE  DiscoveryInv' /\ LiveHasId'
  <2>1. d \in Datagrams
    BY DEF TypeOK, Datagrams
  <2>2. main[p] # "off" /\ main' = main /\ id' = id /\ broadcaster' = broadcaster
    BY <1>8 DEF Receives, TypeOK
  <2>3. table' \in [Peers -> [Ids -> Peers \cup {Nobody}]]
    <3>1. /\ table \in [Peers -> [Ids -> Peers \cup {Nobody}]]
          /\ d.id \in Ids /\ d.from \in Peers
      BY <2>1 DEF TypeOK, Datagrams
    <3>2. ASSUME NEW x \in Peers \cup {Nobody}
          PROVE  [table EXCEPT ![p][d.id] = x] \in [Peers -> [Ids -> Peers \cup {Nobody}]]
      BY <3>1
    <3>3. CASE UNCHANGED table
      BY <3>1, <3>3
    <3>4. CASE addPeer(p, d.id, d.from)
      BY <3>1, <3>2, <3>4 DEF addPeer
    <3>5. CASE removePeer(p, d.id)
      BY <3>2, <3>5 DEF removePeer
    <3>6. QED
      BY <1>8, <3>3, <3>4, <3>5
  <2>4. \A x \in Peers : x # p => table'[x] = table[x]
    BY <1>8 DEF addPeer, removePeer, TypeOK
  <2>5. table'[p][id[p]] = Nobody
    BY <1>8, <2>1, <2>2 DEF addPeer, removePeer, TypeOK, OwnIdNotListed, Datagrams
  <2>6. /\ net' \subseteq net
        /\ listener' \in [Peers -> {"off", "recv"}]
        /\ \A x \in Peers : listener[x] = "off" => listener'[x] = "off"
    <3>1. CASE running(p)
      BY <1>8, <3>1 DEF Receives, TypeOK
    <3>2. CASE ~running(p)
      BY <1>8, <3>2 DEF Receives, NotFor, TypeOK
    <3>3. QED
      BY <3>1, <3>2
  <2>7. TypeOK'
    BY <2>2, <2>3, <2>6 DEF TypeOK
  <2>8. OwnIdNotListed'
    BY <2>2, <2>4, <2>5 DEF OwnIdNotListed
  <2>9. QED
    BY <2>2, <2>4, <2>7, <2>8 DEF EmptyTable
<1>9. ASSUME NEW p \in Peers, NEW q \in Peers, RecvAnnounce(p, q)
      PROVE  DiscoveryInv' /\ LiveHasId'
  <2>1. PICK d \in net : Receives(p, d) /\ Enter(p, d)
    BY <1>9 DEF RecvAnnounce
  <2>2. QED
    BY <1>8, <2>1 DEF Enter
<1>10. ASSUME NEW p \in Peers, RecvLeave(p) PROVE DiscoveryInv' /\ LiveHasId'
  <2>1. PICK d \in net : Receives(p, d) /\ removePeer(p, d.id)
    BY <1>10 DEF RecvLeave
  <2>2. QED
    BY <1>8, <2>1
<1>11. ASSUME NEW d \in net, Lost(d) PROVE DiscoveryInv' /\ LiveHasId'
  BY <1>11 DEF Lost, TypeOK, OwnIdNotListed
<1>12. CASE UNCHANGED vars
  BY <1>12 DEF vars, TypeOK, OwnIdNotListed
<1>13. QED
  BY <1>1, <1>2, <1>3, <1>4, <1>5, <1>6, <1>7, <1>9, <1>10, <1>11, <1>12
     DEF Next, Stopping, Broadcasting, ExitUntold, Kill

LEMMA InvHolds == Spec => [](DiscoveryInv /\ LiveHasId)
<1>1. Init => LiveHasId
  BY DEF Init, LiveHasId
<1>2. QED
  BY <1>1, InitInv, NextInv, PTL DEF Spec

\* No process ever lists its own identity, whoever else has taken it and
\* however datagrams are lost, delayed and reordered.
THEOREM OwnIdNotListedHolds == Spec => []OwnIdNotListed
<1>1. DiscoveryInv => OwnIdNotListed
  BY DEF DiscoveryInv
<1>2. QED
  BY <1>1, InvHolds, PTL

\* Every variable keeps its type, and no thread outlives its process.
THEOREM DiscoveryTypeCorrect == Spec => []TypeOK
<1>1. DiscoveryInv => TypeOK
  BY DEF DiscoveryInv
<1>2. QED
  BY <1>1, InvHolds, PTL

\* A process announces nothing once its main thread has ended.
THEOREM SilentAfterStopHolds == Spec => SilentAfterStop
<1> DEFINE Silent == \A p \in Peers :
             main[p] = "off" => \A d \in net' \ net : d.from # p
<1>1. TypeOK /\ [Next]_vars => Silent
  <2> SUFFICES ASSUME TypeOK, [Next]_vars, NEW p \in Peers, main[p] = "off",
                      NEW d \in net' \ net
               PROVE  d.from # p
    OBVIOUS
  <2>1. \A q \in Peers : \A e \in Announce(q) \cup Leave(q) : e.from = q
    BY DEF Announce, Leave
  <2>2. ASSUME NEW q \in Peers, SayGoodbye(q) PROVE d.from # p
    BY <2>1, <2>2 DEF SayGoodbye, SendTo
  <2>3. ASSUME NEW q \in Peers, Broadcast(q) PROVE d.from # p
    BY <2>1, <2>3 DEF Broadcast, SendTo, TypeOK
  <2>4. ASSUME NEW q \in Peers, NEW e \in net, Receives(q, e) PROVE FALSE
    BY <2>4 DEF Receives, NotFor
  <2>5. QED
    BY <2>2, <2>3, <2>4
       DEF Next, Start, Stopping, ClearRunning, Join, ExitUntold, Kill, Gone, NotFor,
           Broadcasting, Wakes, RecvLeave, RecvAnnounce, Lost, vars
<1>2. QED
  BY <1>1, DiscoveryTypeCorrect, PTL DEF SilentAfterStop, Spec
=============================================================================
