SPECIFICATION SessionSpec
CONSTANTS
  Names <- SomeNames
  Paths <- SomePaths
  Descriptors = {0, 1, 2, 3}
  Handles <- NoHandles
  MaxNodes = 10
  USHRT = 65536
  Tails = {0}
  Leftovers <- Zeroed
  Filled = {FALSE, TRUE}
  Polite = TRUE
  Given <- AllGiven
  MaxCalls = 2
  Allocs = {TRUE, FALSE}
INVARIANTS
  OutputsExact
  ZeroMeansDone
PROPERTIES
  Started
  Ends
CHECK_DEADLOCK FALSE
