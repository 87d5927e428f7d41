SPECIFICATION LossSpec
CONSTANTS
  Keys <- LetterKey
  KbdLineSize = 2
  CONSBUFSIZE = 4
  SerialBytes = {65}
PROPERTIES
  NextInputOrNone
