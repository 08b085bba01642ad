\* Programs start and end on any terminal, in view or not.
SPECIFICATION Spec
CONSTANTS
  NumSlots = 4
  MaxTerms = 2
  MaxJobs = 4
  Whole = FALSE
  Focused = FALSE
INVARIANTS
  TypeOK
  StacksUnlessOrphaned
  AddressSpaceFollowsPid
PROPERTY ImplementsStacks
\* A kernel that is lost takes no further step.
CHECK_DEADLOCK FALSE
