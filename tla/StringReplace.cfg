SPECIFICATION SceneSpec
CONSTANTS
  t1 = t1
  t2 = t2
  p = p
  q = q
  x = x
  y = y
  Threads = {t1, t2}
  Strings = {"a", "b", "c"}
  Owner <- MCOwner
  Buffers = {p, q}
  Tokens = {x, y}
  Null = Null
  Ops = {"copy", "replace", "destroy"}
  Scenes = {"strings"}
SYMMETRY Symmetry
INVARIANT OldArrayAlive
