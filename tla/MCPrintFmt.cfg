SPECIFICATION FairSpec
CONSTANTS
  Characters <- SmallChars
  IntHalf = 8
  Formats <- SmallFormats
  Args <- SmallArgs
  Sizes <- SmallSizes
  Strings <- SmallStrings
  Glyphs <- SmallGlyphs
INVARIANTS
  KeepsPrefix
  UnknownIsLiteral
  NumberShown
PROPERTIES
  Ends
