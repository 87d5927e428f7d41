SPECIFICATION FairSpec
CONSTANTS
  Keys <- LetterKey
  KbdLineSize = 2
  CONSBUFSIZE = 3
  SerialBytes = {0, 65}
INVARIANTS
  NoZeroQueued
PROPERTIES
  QueueSpec
  GetcReturns
  InputDelivered
