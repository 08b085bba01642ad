\* Programs start and end on the terminal in view, two for every terminal.
SPECIFICATION VidSpec
CONSTANTS
  NumSlots = 6
  MaxTerms = 3
  MaxJobs = 2
  Whole = TRUE
  Focused = TRUE
INVARIANTS
  CallersWait
  NeverLost
  WindowKept
  OnlyScreenMemory
PROPERTY HaltReturnsToParent
