SPECIFICATION Spec
CONSTANTS
  Names = {"in", "out"}
  Descriptors = {0, 1}
  ChunkSize = 2
  MaxChunks = 4
  MaxFiles = 3
  MaxBytes = 3
  MaxOffset = 3
  Inputs <- OneInput
  OpenFlags <- StreamFlags
  OpenModes <- AllModes
  Lengths = {1, 2}
  Offsets <- NearOffsets
  Polite = TRUE
VIEW State
INVARIANTS
  LivesWhileReachable
  NoFault
  NothingLeaked
PROPERTIES
  ServesStreams
CHECK_DEADLOCK FALSE
