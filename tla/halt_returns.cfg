\* Background programs end while another terminal is in view.
SPECIFICATION Spec
CONSTANTS
  NumSlots = 4
  MaxTerms = 2
  MaxJobs = 2
  Whole = TRUE
  Focused = FALSE
PROPERTY HaltReturnsToParent
CHECK_DEADLOCK FALSE
