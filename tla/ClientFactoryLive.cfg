SPECIFICATION LiveSpec
CONSTANTS
  g1 = g1
  a1 = a1
  root = root
  c1 = c1
  t1 = t1
  None = None
  Getter = {g1}
  Auth = {a1}
  NS = {root}
  RootNS = root
  Client = {c1}
  Token = {t1}
  CacheSize = 2
  MaxSpec = 2
  Persist = FALSE
  Renewables = {TRUE, FALSE}
  Events = {"watcherDone", "revoke", "lapse"}
  ShutDowns = {"revoke"}
  MaxRestarts = 0
CHECK_DEADLOCK FALSE
PROPERTIES
  GetReturns
  PruneCompletes
  WatcherDoneReported
  DeadClientDropped
