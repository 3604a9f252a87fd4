SPECIFICATION Spec
CONSTANTS
  Names = {1, 2, 3}
  Paths <- ShortPaths
  Descriptors = {0}
  Handles = {"h"}
  MaxNodes = 4
  USHRT = 65536
  Tails = {0, 1}
  Leftovers <- Zeroed
  Filled = {FALSE}
  Polite = FALSE
PROPERTY CreatedIsFound
CHECK_DEADLOCK FALSE
