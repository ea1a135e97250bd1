CONSTANTS
  Peers = {p1, p2}
  Ids = {1, 2}
  Nobody = Nobody
  Hears <- Others
  NetFaults = {}
SPECIFICATION FairSpec
PROPERTY GoneIsForgotten
