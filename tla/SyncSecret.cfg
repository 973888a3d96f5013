SPECIFICATION LiveSpec
PROPERTIES OwnerKept  DeletesOwn Converges OrphansPruned
CHECK_DEADLOCK FALSE
CONSTANTS
  o1 = o1  o2 = o2  n1 = n1  n2 = n2  opaque = opaque  tls = tls
  None = None  User = User
  Obj = {o1, o2}
  Name = {n1, n2}
  Type = {opaque, tls}
  Specs <- TwoSpecs
  MaxChanges = 2
  MaxFaults = 2
  Events = {"apiError", "crash", "objDelete", "userDelete", "userCreate"}
