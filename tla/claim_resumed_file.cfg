CONSTANTS
  a = a
  b = b
  c = c
  Blobs = {a, b, c}
  NoData = NoData
  NoResume = NoResume
  MaxChunks = 3
  Short = {}
  Files <- EditedVersions
  Faults = {"edit", "reset"}
SPECIFICATION Spec
INVARIANT
  ResumedFileIsOffered
