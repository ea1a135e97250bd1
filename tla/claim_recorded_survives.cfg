CONSTANTS
  a = a
  b = b
  c = c
  Blobs = {a, b, c}
  NoData = NoData
  NoResume = NoResume
  MaxChunks = 3
  Short = {b}
  Files <- NonEmptyVersions
  Faults = {"crash"}
SPECIFICATION Spec
INVARIANT
  RecordedSurvivesKill
