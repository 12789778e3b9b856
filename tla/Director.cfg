SPECIFICATION FairDirectorSpec
CONSTANTS
  Speeds = {1, 600}
  HandCommands <- MCHandCommands
  AfterMs = {0, 2000}
  MaxLate = 1
  MaxPlays = 3
  MaxByHand = 1
INVARIANTS DirectorInv PlayedAsWritten
PROPERTIES PlayEnds OnlyDisconnectsStray
CHECK_DEADLOCK FALSE
