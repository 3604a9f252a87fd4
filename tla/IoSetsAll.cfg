SPECIFICATION Spec
CONSTANTS
  Folders <- MCFolders
  Sets = 2
  Buffers <- MCBuffers
  NoIdent = NULL
  Nested = {c}
  MaxOutputs = 5
  a = a
  c = c
  x = x
  y = y
CHECK_DEADLOCK FALSE
INVARIANTS
  InputsServed
  GrowthBounded
  DumpedLast
PROPERTIES
  ServesOutputs
