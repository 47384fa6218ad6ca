SPECIFICATION SceneSpec
CONSTANTS
  a = a
  b = b
  c = c
  d = d
  v = v
  w = w
  Null = Null
  PRIMES <- FirstPRIMES
  OpenIndexes = {5}
  Policies = {"GROW_AND_SHRINK"}
  AllocFails = {"shrink"}
  Scenes = {"sizes"}
  IteratePRIMES <- ShortPRIMES
  IterateIndexes = {1}
  IteratePolicies = {}
  IterateUses = {}
INVARIANT SlotFree
