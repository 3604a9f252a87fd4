\* A program without input sets, and clients with larger alignments.
CONSTANTS
  PageSize = 64
  HeapBegin = 4
  HeapEnd = 200
  Flag = 1024
  BootSize = 0
  Sizes = {8, 24, 32}
  Alignments = {16, 40}
  SbrkSizes = {12}
  Values = {5}
VIEW DescriptorView
SPECIFICATION Spec
INVARIANT SlabsTileHeap
CHECK_DEADLOCK FALSE
