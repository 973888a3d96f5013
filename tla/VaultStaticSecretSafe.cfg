SPECIFICATION Spec
INVARIANTS
  RegistryTracksWatcher
PROPERTIES
  DeletionStopsWatcher
  ImplementsEventWatcher
CHECK_DEADLOCK FALSE
CONSTANTS
  None = None
  w1 = w1
  w2 = w2
  w3 = w3
  Watcher <- TwoWatchers
  Hmac = TRUE
  Poll = TRUE
  MaxGen = 2
  MaxVal = 1
  MaxTok = 2
  errorThreshold = 2
  MaxRestarts = 1
  Events = {"delete", "destDelete", "reconcileError", "writeError", "wsError", "streamError", "closedConn", "backoffStop"}
