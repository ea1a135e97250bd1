CONSTANTS
  a = a
  b = b
  c = c
  Blobs = {a, b, c}
  NoData = NoData
  NoResume = NoResume
  MaxChunks = 3
  Short = {b}
  Files <- FileVersions
  Faults = {"coalesce", "edit", "crash", "reset", "silent", "disk"}
SPECIFICATION Spec
INVARIANTS
  TypeOK
  TransferInv
  HeldChunksMatch
  SentMeansHeld
  AlignedLoops
  KillKeepsProgress
PROPERTIES
  VerifiedWritesOnly
  RemovedOnlyWhenWhole
  ImplementsDownload
