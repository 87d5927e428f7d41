SPECIFICATION OutFairSpec
CONSTANTS
  CRT_ROWS = 3
  CRT_COLS = 2
  Chars = {8, 9, 10, 13, 65}
  Attrs = {30}
  BiosCells <- BiosText
  MaxTries = 2
INVARIANTS
  CgaTypeOK
  SameStream
PROPERTIES
  PutcReturns
  TerminalSpec
