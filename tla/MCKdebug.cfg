SPECIFICATION FairSpec
CONSTANTS
  NStabs = 7
  Tables <- KernelTables
  Eips = {0, 1, 2, 3, 4}
  ULIM = 1
  AddrSpace = 16
INVARIANTS
  ReadsInTable
  Located
PROPERTIES
  Finishes
