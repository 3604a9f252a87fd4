SPECIFICATION Spec
CONSTANTS
  Names = {"out"}
  Descriptors = {0, 1}
  ChunkSize = 2
  MaxChunks = 5
  MaxFiles = 2
  MaxBytes = 3
  MaxOffset = 3
  Inputs <- NoInput
  OpenFlags <- WriteFlags
  OpenModes <- AnyMode
  Lengths = {1, 2}
  Offsets = {0, 1}
  Polite = FALSE
PROPERTY WritesAtPosition
CHECK_DEADLOCK FALSE
