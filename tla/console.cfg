SPECIFICATION Spec
CONSTANTS
  Peers = {1}
  MaxInput = 4
INVARIANTS
  ConsoleTypeOK
  LoneReaderHears
  ConsoleInv
PROPERTIES
  PromptsAnswered
CHECK_DEADLOCK FALSE
