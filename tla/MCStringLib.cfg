SPECIFICATION Spec
CONSTANTS
  MemSize = 16
  Calls <- AllCalls
  LongHalf = 128
INVARIANTS
  MemExact
  CopiesExact
  AnswersRight
  StrtolRight
