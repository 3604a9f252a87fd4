SPECIFICATION Spec
CONSTANTS
  Names = {1, 2, 3}
  Paths <- TreePaths
  Descriptors = {0}
  Handles = {"h"}
  MaxNodes = 5
  USHRT = 65536
  Tails = {0}
  Leftovers <- Zeroed
  Filled = {FALSE}
  Polite = TRUE
VIEW State
INVARIANTS
  FindsByName
  FreedWhenUnused
  NothingCutOff
  NoFault
CHECK_DEADLOCK FALSE
