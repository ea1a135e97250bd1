CONSTANTS
  a = a
  b = b
  c = c
  Blobs = {a, b, c}
  NoData = NoData
  NoResume = NoResume
  MaxChunks = 3
  Short = {}
  Files <- NonEmptyVersions
  Faults = {"coalesce"}
SPECIFICATION FairSpec
PROPERTY
  EveryAcceptedSessionEnds
CHECK_DEADLOCK FALSE
