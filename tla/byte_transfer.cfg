CONSTANTS
  Word = 12
  Sizes = {1, 3, 4, 11, 12, 16}
  ChunkSizes = {3, 7, 9}
  OldSizes = {14}
  MaxSize = 16
  MaxMessage = 8
  RecvMax = 4
  HeaderSize = 2
  Overhead = 1
  OfferSize = 1
  Old = Old
  Unwritten = Unwritten
SPECIFICATION Spec
INVARIANTS
  DoneMeansSource
  
  ByteInv
PROPERTIES
  FittingFilesArrive
  ImplementsFrames
CHECK_DEADLOCK FALSE
