CONSTANTS
  a = a
  b = b
  c = c
  Blobs = {a, b, c}
  NoData = NoData
  NoResume = NoResume
  MaxChunks = 3
  Short = {b}
  Files <- TwoVersions
  Faults = {"coalesce", "edit", "crash", "reset", "silent"}
SPECIFICATION FairSpec
PROPERTIES
  AcceptedSessionEnds
  HangUpNoticed
  SentLeadsToDone
