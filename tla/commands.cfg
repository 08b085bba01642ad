\* Names of two characters, blocks of two bytes, reads that fit neither blocks
\* nor files.
SPECIFICATION Spec
CONSTANTS
  Chars <- MCChars
  FILENAME_LEN = 2
  NUM_DENTRIES_BOOT = 5
  EXT2_DATA_BLOCK_SIZE = 2
  CMD_SIZE = 3
  HeaderLen = 2
  Images <- MCImages
  Lines <- MCLines
  ReadSizes = {1, 3, 8}
INVARIANTS
  RunsWhatWasNamed
  ArgIsSecondField
  CatPrintsTheFile
  LsPrintsEveryName
  StatusIsTrue
  ShellSurvives
