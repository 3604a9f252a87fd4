\* A program with input sets; the alignments the SDK itself asks for.
CONSTANTS
  PageSize = 64
  HeapBegin = 4
  HeapEnd = 200
  Flag = 1024
  BootSize = 8
  Sizes = {8, 24, 56}
  Alignments = {8, 16}
  SbrkSizes = {12}
  Values = {5}
VIEW DescriptorView
SPECIFICATION Spec
INVARIANTS
  TypeOK
  SlabsTileHeap
  WalkVisitsSlabs
  NoAdjacentFree
  LiveInOwnSlab
  ForeignFenced
  NothingLeaks
  FreeAccepted
  ChosenSlabFits
  AlignedInHeap
PROPERTY ServesMemory
CHECK_DEADLOCK FALSE
