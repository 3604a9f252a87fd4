SPECIFICATION Spec
CONSTANTS
  Alphabet <- SomeCharacters
  MaxLen <- SomeLengths
  WORD = 4
INVARIANTS
  PathsSplit
  NamesOrdered
  ArgumentsSplit
  StringsFit
  OverlapsMoved
CHECK_DEADLOCK FALSE
