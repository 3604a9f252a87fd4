SPECIFICATION Spec
CONSTANTS
  Names = {"out"}
  Descriptors = {0}
  ChunkSize = 2
  MaxChunks = 3
  MaxFiles = 1
  MaxBytes = 2
  MaxOffset = 2
  Inputs <- NoInput
  OpenFlags <- UpdateFlags
  OpenModes <- AnyMode
  Lengths = {1, 2}
  Offsets <- AllOffsets
  Polite = FALSE
VIEW State
INVARIANT WithinCapacity
PROPERTIES
  ReadsInOrder
  PreadsAtOffset
CHECK_DEADLOCK FALSE
