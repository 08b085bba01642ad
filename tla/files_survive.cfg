\* Does a parent keep its files while a child runs and ends?
SPECIFICATION FdSpec
CONSTANTS
  NumSlots = 3
  MaxTerms = 2
  MaxJobs = 2
  Whole = TRUE
  Focused = TRUE
  NumFDs = 3
  FileLen = 1
  DirLen = 2
  Sizes = {1, 2}
  Hertz = {2, 1024}
PROPERTIES
  ParentKeepsFiles
