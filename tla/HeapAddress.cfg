\* A heap that begins at a word that is not 16-byte aligned.
CONSTANTS
  PageSize = 64
  HeapBegin = 4
  HeapEnd = 200
  Flag = 1024
  BootSize = 8
  Sizes = {8, 24, 56}
  Alignments = {8, 16}
  SbrkSizes = {12}
  Values = {5}
SPECIFICATION Spec
INVARIANT AlignedAddress
CHECK_DEADLOCK FALSE
