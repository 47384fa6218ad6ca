SPECIFICATION BuildSpec
CONSTANTS
  t1 = t1
  t2 = t2
  t3 = t3
  Threads = {t1, t2, t3}
  Onces = {"cache", "table"}
  Uses <- MCUses
  Depth <- MCDepth
  Platform = "posix"
  None = None
INVARIANTS OneInitialiser CallersSeeResult
PROPERTIES  CallReturns
