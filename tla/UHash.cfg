SPECIFICATION SceneSpec
CONSTANTS
  a = a
  b = b
  c = c
  d = d
  v = v
  w = w
  Null = Null
  PRIMES <- FirstPRIMES
  OpenIndexes = {1, 4}
  Policies = {"GROW", "GROW_AND_SHRINK", "FIXED"}
  AllocFails = {"grow"}
  Scenes = {"sizes", "map", "iterate"}
  IteratePRIMES <- ShortPRIMES
  IterateIndexes = {1}
  IteratePolicies = {}
  IterateUses = {"iterate", "put NULL"}
INVARIANTS SlotFree TablesSound 
PROPERTIES IterationComplete ImplementsMap ImplementsSizes
