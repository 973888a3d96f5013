SPECIFICATION Spec
CONSTANTS
  g1 = g1
  a1 = a1
  root = root
  n1 = n1
  c1 = c1
  c2 = c2
  t1 = t1
  t2 = t2
  None = None
  Getter = {g1}
  Auth = {a1}
  NS = {root, n1}
  RootNS = root
  Client = {c1, c2}
  Token = {t1, t2}
  CacheSize = 1
  MaxSpec = 2
  Persist = TRUE
  Renewables = {TRUE}
  Events = {"abandon", "delete", "watcherDone"}
  ShutDowns = {}
  MaxRestarts = 1
SYMMETRY Symmetry
CHECK_DEADLOCK FALSE
INVARIANTS
  
  SingleWatcher
PROPERTIES
  FinalizedAfterPrune
