SPECIFICATION SceneSpec
CONSTANTS
  t1 = t1
  t2 = t2
  en = en
  en_US = en_US
  x1 = x1
  x2 = x2
  x3 = x3
  b1 = b1
  b2 = b2
  Threads = {t1, t2}
  Keys = {en, en_US}
  DepOf <- MCDepOf
  Level <- MCLevel
  Objs = {x1, x2, x3}
  NoValue = NoValue
  Null = Null
  MaxCalls = 3
  Failures = {"create"}
  Requests <- MCRequests
  Directs <- MCDirects
  Scenes = {"create", "put", "resource", "faulty", "converter"}
SYMMETRY Symmetry
INVARIANTS ReferencesSound SharedWhileStored WriterIsAlone
  EntryCountsAccurate CleanupFreesAll  
   ConvertersExclusive
PROPERTIES FlushRemovesUnreferenced  FlushRemovesUnused
CHECK_DEADLOCK FALSE
