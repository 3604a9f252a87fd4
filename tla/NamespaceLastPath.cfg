SPECIFICATION Spec
CONSTANTS
  Names = {1, 2, 3}
  Paths <- NestedPaths
  Descriptors = {0}
  Handles = {"h"}
  MaxNodes = 4
  USHRT = 65536
  Tails = {0}
  Leftovers <- Zeroed
  Filled = {FALSE}
  Polite = FALSE
PROPERTY RemovedWithLastPath
CHECK_DEADLOCK FALSE
