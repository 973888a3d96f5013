SPECIFICATION LiveSpec
INVARIANTS ServedNotRevoked DeletionFinalizes
 
CHECK_DEADLOCK FALSE
CONSTANTS
  None = None
  Cert = {1, 2, 3, 4, 5, 6, 7}
  Modes <- RevokeModes
  MaxChanges = 1
  MaxFaults = 1
