SPECIFICATION Spec
CONSTANTS
  t1 = t1
  t2 = t2
  Threads = {t1, t2}
  Ids = {"", "en", "en_US"}
  Root = ""
  Truncated <- MCTruncated
  Factories = {"f", "g"}
  Handles <- MCHandles
  Visible = {"f"}
  Delegates = {"g"}
  Defaults = {"en_US", "en"}
  Changers = {t1, t2}
  Namers = {t1, t2}
  Listeners = {"l"}
  MaxChanges = 3
SYMMETRY Symmetry
INVARIANTS EntriesAlive
CHECK_DEADLOCK FALSE
