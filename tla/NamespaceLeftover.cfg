SPECIFICATION Spec
CONSTANTS
  Names = {1, 2, 3}
  Paths <- ShortPaths
  Descriptors = {0}
  Handles = {"h"}
  MaxNodes = 4
  USHRT = 65536
  Tails = {0}
  Leftovers <- Wrapping
  Filled = {FALSE}
  Polite = FALSE
INVARIANT OpenStays
CHECK_DEADLOCK FALSE
