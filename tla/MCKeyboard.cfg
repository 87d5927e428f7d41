SPECIFICATION Spec
CONSTANTS
  Keys <- ChordKeys
  KbdLineSize = 2
  CONSBUFSIZE = 2
  SerialBytes <- NoBytes
INVARIANTS
  InTypeOK
  PrefixInStep
  NoStuckModifier
PROPERTIES
  RebootOnlyOnChord
