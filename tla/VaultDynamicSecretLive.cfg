SPECIFICATION LiveSpec
PROPERTIES
  GenerationSynced
  CredentialsFollowClient
CHECK_DEADLOCK FALSE
CONSTANTS
  l1 = l1
  l2 = l2
  l3 = l3
  l4 = l4
  l5 = l5
  Lease <- OneLease
  None = None
  Creates = {TRUE}
  Kinds = {"renewable", "endless"}
  MaxGen = 2
  MaxAnn = 0
  MaxTrans = 0
  MaxTok = 2
  NewKey = {2}
  MaxRestarts = 0
  Events = {"notRenewable"}
