SPECIFICATION LiveSpec
INVARIANTS OwnCredentials ShadowFollows
PROPERTIES CredentialsRenewed
CHECK_DEADLOCK FALSE
CONSTANTS
  None = None
  Cred = {1, 2, 3, 4, 5}
  Refreshes = {TRUE, FALSE}
  MaxChanges = 1
  MaxFaults = 1
