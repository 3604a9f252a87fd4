SPECIFICATION Spec
CONSTANTS
  Names = {"out"}
  Descriptors = {0, 1}
  ChunkSize = 2
  MaxChunks = 5
  MaxFiles = 2
  MaxBytes = 4
  MaxOffset = 3
  Inputs <- NoInput
  OpenFlags <- StreamFlags
  OpenModes <- AnyMode
  Lengths = {1, 3}
  Offsets = {}
  Polite = TRUE
PROPERTY ReadAtMostLen
CHECK_DEADLOCK FALSE
