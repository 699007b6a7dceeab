\* ENUM columns written and read back, and label tables of other programs.
SPECIFICATION Spec
CONSTANTS
  Copied <- MCCopied
  Foreign <- MCForeign
  Halves <- MCHalves
  Int32Max = 2
  NameField = 3
  Bytes <- MCBytes
  NUL = NUL
  Outside = Outside
  Null = Null
INVARIANTS TypeOK EnumsSurvive TextsStayInBlob CellsShowTheirLabel
\* Nothing is left to read once a cell was, and some files have no ENUM cell.
CHECK_DEADLOCK FALSE
