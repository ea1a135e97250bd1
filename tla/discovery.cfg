CONSTANTS
  Peers = {p1, p2}
  Ids = {1, 2}
  Nobody = Nobody
  Hears <- Others
  NetFaults = {"loss", "kill"}
SPECIFICATION FairSpec
INVARIANTS
  TypeOK
  OwnIdNotListed
PROPERTIES
  SilentAfterStop
  PeersAreFound
  StopReturns
