\* Keys go to the running program's terminal and wait for its read.
SPECIFICATION FairSpec
CONSTANTS
  Chars = {a}
  NL = NL
  SP = SP
  NUL = NUL
  NoLine = NoLine
  MaxBufSize = 3
  MaxTerms = 2
  MaxLine = 3
  ReadSizes = {2, 6}
  Focused = TRUE
  TypeAhead = FALSE
  LeavePending = FALSE
INVARIANTS
  TypeOK
  BufferMatchesScreen
PROPERTIES
  DeliversOwnLine
  LineIsRead
