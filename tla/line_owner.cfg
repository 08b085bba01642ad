\* Any key at any time, on any terminal.
SPECIFICATION Spec
CONSTANTS
  Chars = {a}
  NL = NL
  SP = SP
  NUL = NUL
  NoLine = NoLine
  MaxBufSize = 3
  MaxTerms = 2
  MaxLine = 3
  ReadSizes = {2, 6}
  Focused = FALSE
  TypeAhead = TRUE
  LeavePending = TRUE
PROPERTY ReadsOwnTerminal
CHECK_DEADLOCK FALSE
