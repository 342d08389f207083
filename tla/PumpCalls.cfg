SPECIFICATION Spec
CONSTANTS
  Modes <- MCModes
  ShareLists <- MCShareLists
INVARIANTS
  TypeOK
  FreshCallsLand
  NoFeeStranded
  SharesPayable
