SPECIFICATION SceneSpec
CONSTANTS
  a = a
  b = b
  c = c
  d = d
  v = v
  w = w
  Null = Null
  PRIMES <- FirstPRIMES
  OpenIndexes = {1}
  Policies = {}
  AllocFails = {}
  Scenes = {"iterate"}
  IteratePRIMES <- SparsePRIMES
  IterateIndexes = {3}
  IteratePolicies = {"GROW_AND_SHRINK"}
  IterateUses = {"iterate"}
PROPERTY IterationComplete
