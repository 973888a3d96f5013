SPECIFICATION Spec
INVARIANTS
  NeverForgotten
PROPERTIES
  DeletionRevokes
CHECK_DEADLOCK FALSE
CONSTANTS
  l1 = l1
  l2 = l2
  l3 = l3
  l4 = l4
  l5 = l5
  Lease <- FiveLeases
  None = None
  Creates = {TRUE, FALSE}
  Kinds = {"renewable"}
  MaxGen = 1
  MaxAnn = 1
  MaxTrans = 1
  MaxTok = 1
  NewKey = {}
  MaxRestarts = 1
  Events = {"clientError", "syncError", "delete", "destDelete", "idChanged", "destMeta"}
