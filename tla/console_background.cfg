CONSTANTS
  NumRows = 2
  NumCols = 2
  PageCells = 5
  MaxTerms = 2
  KeyLimit = 2
  Writes = {"glyph", "newline"}
  Preempt = FALSE
  MaxRow = 2
SPECIFICATION Spec
INVARIANTS OwnPictures
