SPECIFICATION Spec
CONSTANTS
  MaxLine = 5
  FTPLIB_BUFSIZ = 7
  Lines = 3
  Lengths = {0, 1, 3, 7}
  Environments = {{}, {"late", "error"}}
INVARIANTS LinesArrive InPieces
PROPERTY AllRead
CHECK_DEADLOCK FALSE
