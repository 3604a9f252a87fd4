SPECIFICATION Spec
CONSTANTS
  Names = {"in"}
  Descriptors = {0, 1}
  ChunkSize = 2
  MaxChunks = 3
  MaxFiles = 2
  MaxBytes = 2
  MaxOffset = 3
  Inputs <- OneInput
  OpenFlags <- StreamFlags
  OpenModes <- AnyMode
  Lengths = {1}
  Offsets = {}
  Polite = FALSE
INVARIANT FreesOnlyAllocated
CHECK_DEADLOCK FALSE
