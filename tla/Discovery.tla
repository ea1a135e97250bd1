------------------------------ MODULE Discovery ------------------------------
(***************************************************************************)
(* How peers learn of one another: DiscoveryService and PeerTable.  Each   *)
(* process announces itself over UDP every two seconds from one thread,    *)
(* listens in another, and says so when it leaves - on one of its two ways *)
(* out.                                                                    *)
(***************************************************************************)
EXTENDS Naturals, FiniteSets

CONSTANTS
  Peers,      \* processes: an address and a TCP port each
  Ids,        \* "Peer_" and rand() % 1000, seeded with the time in seconds
  Hears,      \* Hears[p]: the processes whose discovery port p sends to
  NetFaults,  \* "loss" of a datagram, "kill" of a process
  Nobody      \* not in the table, not running

ASSUME DiscoveryAssumption ==
  /\ Hears \in [Peers -> SUBSET Peers]
  /\ Nobody \notin Peers \cup Ids
  /\ NetFaults \subseteq {"loss", "kill"}

VARIABLES
  main,         \* main thread: "off", "up", "left" (in stop), "joining"
  id,           \* the identity the process gave itself
  broadcaster,  \* its thread: "off", "asleep", or "awake", past its test
  listener,     \* its thread: "off", or "recv", in recvfrom
  table,        \* PeerTable: which process each identity leads to
  net           \* datagrams in the sockets of the listeners

vars == <<main, id, broadcaster, listener, table, net>>

Announce(p) == [type : {"ANNOUNCE"}, id : {id[p]}, from : {p}, to : Hears[p]]
Leave(p) == [type : {"LEAVE"}, id : {id[p]}, from : {p}, to : Hears[p]]

TypeOK ==
  /\ main \in [Peers -> {"off", "up", "left", "joining"}]
  /\ id \in [Peers -> Ids \cup {Nobody}]
  /\ broadcaster \in [Peers -> {"off", "asleep", "awake"}]
  /\ listener \in [Peers -> {"off", "recv"}]
  /\ \A p \in Peers : main[p] = "off" => broadcaster[p] = "off" /\ listener[p] = "off"
  /\ table \in [Peers -> [Ids -> Peers \cup {Nobody}]]
  /\ net \subseteq [type : {"ANNOUNCE", "LEAVE"}, id : Ids, from : Peers, to : Peers]

EmptyTable == [i \in Ids |-> Nobody]

Init ==
  /\ main = [p \in Peers |-> "off"]
  /\ id = [p \in Peers |-> Nobody]
  /\ broadcaster = [p \in Peers |-> "off"]
  /\ listener = [p \in Peers |-> "off"]
  /\ table = [p \in Peers |-> EmptyTable]
  /\ net = {}

\* sendto: a datagram waits in the socket of its receiver, if there is one.
SendTo(datagrams) == net' = net \cup {d \in datagrams : listener[d.to] = "recv"}
NotFor(p) == {d \in net : d.to # p}

\* Seeded fault: stop joins before it clears the flag.
runningTooLong(p) == main[p] # "off"

\* The atomic flag both threads test.
running(p) == main[p] \in {"up", "left"}
-----------------------------------------------------------------------------
(* The main thread.                                                        *)

\* A new process takes a new identity and starts both threads.  Two that
\* start in the same second take the same one.
Start(p) ==
  /\ main[p] = "off"
  /\ \E i \in Ids : id' = [id EXCEPT ![p] = i]
  /\ main' = [main EXCEPT ![p] = "up"]
  /\ broadcaster' = [broadcaster EXCEPT ![p] = "awake"]
  /\ listener' = [listener EXCEPT ![p] = "recv"]
  /\ UNCHANGED <<table, net>>

\* "Exit" in the menu: stop says goodbye,
SayGoodbye(p) ==
  /\ main[p] = "up"
  /\ SendTo(Leave(p))
  /\ main' = [main EXCEPT ![p] = "left"]
  /\ UNCHANGED <<id, broadcaster, listener, table>>

\* clears running,
ClearRunning(p) ==
  /\ main[p] = "left"
  /\ main' = [main EXCEPT ![p] = "joining"]
  /\ UNCHANGED <<id, broadcaster, listener, table, net>>

\* The memory of the process goes with it.
Forget(p) ==
  /\ main' = [main EXCEPT ![p] = "off"]
  /\ id' = [id EXCEPT ![p] = Nobody]
  /\ table' = [table EXCEPT ![p] = EmptyTable]

\* Seeded fault: the listener is not waited for.
JoinBroadcasterOnly(p) ==
  /\ main[p] = "joining"
  /\ broadcaster[p] = "off"
  /\ Forget(p)
  /\ UNCHANGED <<broadcaster, listener, net>>

\* Seeded fault: the broadcaster is not waited for.
JoinListenerOnly(p) ==
  /\ main[p] = "joining"
  /\ listener[p] = "off"
  /\ Forget(p)
  /\ UNCHANGED <<broadcaster, listener, net>>

\* and joins its threads.
Join(p) ==
  /\ main[p] = "joining"
  /\ broadcaster[p] = "off"
  /\ listener[p] = "off"
  /\ Forget(p)
  /\ UNCHANGED <<broadcaster, listener, net>>

\* The process is gone, and nobody is told.
Gone(p) ==
  /\ Forget(p)
  /\ broadcaster' = [broadcaster EXCEPT ![p] = "off"]
  /\ listener' = [listener EXCEPT ![p] = "off"]
  /\ net' = NotFor(p)

\* The other way out, after a file was sent or no peer was chosen: main calls
\* WSACleanup, so that the stop of the destructor cannot open a socket and
\* returns before it has said goodbye or joined the threads.
ExitUntold(p) == main[p] = "up" /\ Gone(p)

Kill(p) == "kill" \in NetFaults /\ main[p] # "off" /\ Gone(p)
-----------------------------------------------------------------------------
(* broadcastLoop.                                                          *)

\* Seeded fault: one announcement and no more.
WakesNoMore(p) ==
  /\ broadcaster[p] = "asleep"
  /\ broadcaster' = [broadcaster EXCEPT ![p] = "off"]
  /\ UNCHANGED <<main, id, listener, table, net>>

Wakes(p) ==
  /\ broadcaster[p] = "asleep"
  /\ broadcaster' = [broadcaster EXCEPT ![p] = IF running(p) THEN "awake" ELSE "off"]
  /\ UNCHANGED <<main, id, listener, table, net>>

Broadcast(p) ==
  /\ broadcaster[p] = "awake"
  /\ SendTo(Announce(p))
  /\ broadcaster' = [broadcaster EXCEPT ![p] = "asleep"]
  /\ UNCHANGED <<main, id, listener, table>>
-----------------------------------------------------------------------------
(* listenLoop: recvfrom blocks; running is tested only after a datagram.   *)

addPeer(p, i, q) == table' = [table EXCEPT ![p][i] = q]
removePeer(p, i) == table' = [table EXCEPT ![p][i] = Nobody]

Receives(p, d) ==
  /\ listener[p] = "recv"
  /\ d \in net
  /\ d.to = p
  /\ IF running(p)
     THEN net' = net \ {d} /\ UNCHANGED listener
     ELSE net' = NotFor(p) /\ listener' = [listener EXCEPT ![p] = "off"]
  /\ UNCHANGED <<main, id, broadcaster>>

\* Seeded fault: everything that is announced is entered.
EnterAll(p, d) == addPeer(p, d.id, d.from)

\* A process does not enter its own identity.
Enter(p, d) ==
  IF d.id = id[p] THEN UNCHANGED table ELSE addPeer(p, d.id, d.from)

RecvAnnounce(p, q) ==
  \E d \in net :
    /\ d.type = "ANNOUNCE"
    /\ d.from = q
    /\ Receives(p, d)
    /\ Enter(p, d)

RecvLeave(p) ==
  \E d \in net :
    /\ d.type = "LEAVE"
    /\ Receives(p, d)
    /\ removePeer(p, d.id)

-----------------------------------------------------------------------------
\* UDP promises neither delivery nor order.
Lost(d) ==
  /\ "loss" \in NetFaults
  /\ net' = net \ {d}
  /\ UNCHANGED <<main, id, broadcaster, listener, table>>

Stopping(p) == ClearRunning(p) \/ Join(p)
Broadcasting(p) == Wakes(p) \/ Broadcast(p)

Next ==
  \/ \E p \in Peers :
       \/ Start(p)
       \/ SayGoodbye(p)
       \/ Stopping(p)
       \/ ExitUntold(p)
       \/ Kill(p)
       \/ Broadcasting(p)
       \/ RecvLeave(p)
       \/ \E q \in Peers : RecvAnnounce(p, q)
  \/ \E d \in net : Lost(d)

Spec == Init /\ [][Next]_vars

\* Threads keep running, and of the datagrams that are sent again and again
\* between two processes one arrives at some time.
FairSpec ==
  /\ Spec
  /\ \A p \in Peers :
       /\ WF_vars(Stopping(p))
       /\ WF_vars(Broadcasting(p))
       /\ WF_vars(RecvLeave(p))
       /\ \A q \in Peers : SF_vars(RecvAnnounce(p, q))
-----------------------------------------------------------------------------
(* Safety.                                                                 *)

\* A user is never offered an identity that is the process's own, not even
\* when another process has taken it too.
OwnIdNotListed ==
  \A p \in Peers : main[p] # "off" => table[p][id[p]] = Nobody

\* What makes it inductive: a process starts with an empty table.
DiscoveryInv ==
  /\ TypeOK
  /\ OwnIdNotListed
  /\ \A p \in Peers : main[p] = "off" => table[p] = EmptyTable

\* After stop has returned the process announces nothing: the join of the
\* broadcaster makes the goodbye final for the sender.
SilentAfterStop ==
  [][\A p \in Peers :
       main[p] = "off" =>
         \A d \in net' \ net : d.from # p]_vars

-----------------------------------------------------------------------------
(* Liveness.                                                               *)

\* Two processes that stay up, and have different identities, find each
\* other, whatever is lost and whoever else comes and goes.
PeersAreFound ==
  \A p \in Peers : \A q \in Hears[p] :
    (main[p] = "up" /\ main[q] = "up" /\ id[p] # id[q]) ~>
      (main[p] # "up" \/ main[q] # "up" \/ table[q][id[p]] = p)

\* stop returns, as long as another process keeps announcing: the listener
\* waits in recvfrom for a datagram before it looks at running.
StopReturns ==
  \A q \in Peers : \A p \in Hears[q] :
    (main[p] = "joining" /\ main[q] = "up") ~>
      (main[p] # "joining" \/ main[q] # "up")

\* README "Dynamic peer table with liveness tracking": a process that has
\* gone for good disappears from the tables of the others.
GoneIsForgotten ==
  \A p, q \in Peers : \A i \in Ids :
    (main[p] = "off" /\ table[q][i] = p) ~>
      (main[p] # "off" \/ main[q] # "up" \/ table[q][i] # p)
=============================================================================
