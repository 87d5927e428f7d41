SPECIFICATION FairStartup
CONSTANTS
  SECTSIZE = 2
  HdrSectors = 2
  ELFHDR = 2
  A20 = 8
  MemSize = 16
  Images <- KernelImages
  PGSIZE = 16
  NPTENTRIES = 8
  KERNDIR = 3
  Text = 16
  Stack = 48
  KSTKSIZE = 64
  Depth = 3
  Other = {0, 2}
  BootEbps = {4, 9}
INVARIANTS
  KernelInPlace
  NoDamage
  NoStrayAccess
  TraceIsCallStack
PROPERTIES
  Boots
