\* A program without input sets that asks for 16-byte alignment.
CONSTANTS
  PageSize = 64
  HeapBegin = 4
  HeapEnd = 200
  Flag = 1024
  BootSize = 0
  Sizes = {8, 24, 56}
  Alignments = {8, 16}
  SbrkSizes = {12}
  Values = {5}
SPECIFICATION Spec
INVARIANT ChosenSlabFits
CHECK_DEADLOCK FALSE
