SPECIFICATION Spec
CONSTANTS
  NStabs = 3
  Stabs <- SmallStabs
  Type = "FUN"
  Targets = {0, 1, 2, 3, 4}
INVARIANTS
  ContainsOrEmpty
