CONSTANTS
  a = a
  b = b
  c = c
  Blobs = {a, b, c}
  NoData = NoData
  NoResume = NoResume
  MaxChunks = 3
  Short = {}
  Files <- NonEmptyVersions
  Faults = {"coalesce", "crash", "reset", "silent"}
SPECIFICATION FairSpec
INVARIANTS
  ResumeSound
  DoneMeansOffered
PROPERTIES
  TransferCompletes
