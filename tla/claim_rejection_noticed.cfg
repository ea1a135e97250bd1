CONSTANTS
  p1 = p1
  p2 = p2
  p3 = p3
  None = None
  Peers = {p1, p2, p3}
  Senders = {p1, p3}
  Conns = {1, 2}
  Backlog = 1
  Version <- Builds
  SetupFaults = {}
SPECIFICATION FairSpec
PROPERTY RejectionNoticed
CHECK_DEADLOCK FALSE
