SPECIFICATION Spec
CONSTANTS
  Names = {1, 2}
  Paths <- ThroughFiles
  Descriptors = {0}
  Handles = {"h"}
  MaxNodes = 4
  USHRT = 3
  Tails = {0}
  Leftovers <- Either
  Filled = {FALSE, TRUE}
  Polite = FALSE
VIEW State
PROPERTY FilesStayOpen
CHECK_DEADLOCK FALSE
