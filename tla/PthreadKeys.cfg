SPECIFICATION Spec
CONSTANTS
  Mutexes = {m1}
  Onces = {o1, o2}
  Values = {v1, v2}
  NoValue = NULL
  MaxKeys = 3
  MaxHeld = 2
  MaxDepth = 3
VIEW State
INVARIANTS
  LockedWhileHeld
PROPERTIES
  RunsOnce
  ServesTable
