SPECIFICATION SceneSpec
CONSTANTS
  t1 = t1
  t2 = t2
  t3 = t3
  t4 = t4
  NoValue = NoValue
  Null = Null
  Threads = {t1, t2, t3, t4}
  None = None
INVARIANTS NobodyTrapped WokenOncePerBroadcast
PROPERTIES BroadcastWakesAll GetReturns
CHECK_DEADLOCK FALSE
