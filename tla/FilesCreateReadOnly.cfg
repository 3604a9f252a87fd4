SPECIFICATION Spec
CONSTANTS
  Names = {"out"}
  Descriptors = {0, 1}
  ChunkSize = 2
  MaxChunks = 5
  MaxFiles = 2
  MaxBytes = 3
  MaxOffset = 3
  Inputs <- NoInput
  OpenFlags <- WriteFlags
  OpenModes <- ReadOnlyMode
  Lengths = {1}
  Offsets = {}
  Polite = FALSE
PROPERTY CreatorMayWrite
CHECK_DEADLOCK FALSE
