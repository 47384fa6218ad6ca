SPECIFICATION Spec
CONSTANTS
  t1 = t1
  t2 = t2
  Threads = {t1, t2}
  Items = {"x"}
  Worlds <- MCWorlds
  Opens = 2
  NoThread = none
INVARIANTS PackageListSound NoSpuriousMiss FirstPackageWins
PROPERTY OpenReturns
