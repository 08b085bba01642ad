\* One descriptor beside stdin and stdout; programs start and end in view.
SPECIFICATION FdSpec
CONSTANTS
  NumSlots = 3
  MaxTerms = 2
  MaxJobs = 2
  Whole = TRUE
  Focused = TRUE
  NumFDs = 3
  FileLen = 1
  DirLen = 2
  Sizes = {1, 2}
  Hertz = {2, 1024}
INVARIANTS
  FdTypeOK
  StandardStreams
  NoForeignFiles
  PositionsInRange
