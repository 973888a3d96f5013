SPECIFICATION LiveSpec
INVARIANTS RestoredAsStored
PROPERTIES DiscardsWhatItRead RequestReturns
CHECK_DEADLOCK FALSE
CONSTANTS
  o1 = o1
  o2 = o2
  g1 = g1
  g2 = g2
  k1 = k1
  k2 = k2
  a1 = a1
  a2 = a2
  None = None
  Op = {o1, o2}
  Gor = {g1, g2}
  Key = {k1, k2}
  Requested = {k1}
  AuthName = {a1, a2}
  Serial = {1, 2, 3}
  Models = {"none", "direct-unencrypted", "direct-encrypted"}
  MaxHmac = 2
  MaxFaults = 1
