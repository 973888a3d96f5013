SPECIFICATION Spec
CONSTANTS
  OperatorNamespace = "operator"
  None = None
  Word <- MCWord
  Param <- MCParam
  Failed = Failed
  Field <- MCField
  Text <- MCText
  Pattern <- MCPattern
  Matches <- MCMatches
  KeyOrder <- MCKeyOrder
  NameOrder <- MCNameOrder
  minHorizon = 3
  defaultDynamicRequeue = 1
  MergeInputs <- MCMergeInputs
  DataInputs <- MCDataInputs
  TemplateInputs <- MCTemplateInputs
  LeaseInputs <- MCLeaseInputs
  RestartInputs <- MCRestartInputs
  PKIInputs <- MCPKIInputs
  HVSInputs <- MCHVSInputs
INVARIANTS
  
  DataIsFiltered
  TemplatesDeterministic
  HorizonInWindow
  CheckInWindow
  NextRenewalFirst
CHECK_DEADLOCK FALSE
