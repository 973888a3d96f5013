SPECIFICATION Spec
CONSTANTS
  g1 = g1
  g2 = g2
  a1 = a1
  root = root
  c1 = c1
  c2 = c2
  t1 = t1
  t2 = t2
  None = None
  Getter = {g1, g2}
  Auth = {a1}
  NS = {root}
  RootNS = root
  Client = {c1, c2}
  Token = {t1, t2}
  CacheSize = 2
  MaxSpec = 2
  Persist = FALSE
  Renewables = {TRUE}
  Events = {"watcherDone", "reconcileError"}
  ShutDowns = {}
  MaxRestarts = 0
SYMMETRY Symmetry
INVARIANTS
  CachedOpen
  PrunedSpecNotServed
PROPERTIES
  HashRecordsPrune
