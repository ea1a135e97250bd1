CONSTANTS
  p1 = p1
  p2 = p2
  p3 = p3
  None = None
  Peers = {p1, p2, p3}
  Senders = {p1, p3}
  Conns = {1, 2}
  Backlog = 1
  Version <- Builds
  SetupFaults = {"coalesce", "kill", "reset"}
SPECIFICATION FairSpec
INVARIANTS
  TypeOK
  ConsentFirst
  KeysAgree
  NoSocketLost
  SetupInv
PROPERTIES
  ListenerComesBack
