SPECIFICATION FairSpec
CONSTANTS
  NStabs = 4
  Stabs <- SmallStabs
  Type = "FUN"
  Targets = {0, 1, 2, 3, 4}
INVARIANTS
  StabTypeOK
  ReadsInRegion
  Brackets
PROPERTIES
  Terminates
