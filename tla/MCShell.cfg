SPECIFICATION ShellSpec
CONSTANTS
  CRT_ROWS = 4
  CRT_COLS = 2
  Chars = {62}
  Attrs = {0}
  BiosCells <- BlankScreen
  BUFLEN = 6
  Input = {8, 9, 13, 32, 65, 127}
  MAXARGS = 3
  Spelling <- Names
INVARIANTS
  LineTypeOK
  WhatYouSee
  ArgvHoldsWords
  RightAnswer
PROPERTIES
  PromptKept
  LineTerminated
  MonitorSpec
  Prompts
