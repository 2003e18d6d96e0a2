SPECIFICATION Spec
CONSTANTS
  Setups <- OnlyMulti
  None = None
CHECK_DEADLOCK FALSE
INVARIANT ExclusiveNeverShared
