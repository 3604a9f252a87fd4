SPECIFICATION Spec
CONSTANTS
  Mutexes = {m1}
  Onces = {}
  Values = {v1}
  NoValue = NULL
  MaxKeys = 1
  MaxHeld = 2
  MaxDepth = 1
PROPERTY RefusedWhenNotHeld
