SPECIFICATION Spec
CONSTANTS
  Setups <- OnlySingle
  None = None
CHECK_DEADLOCK FALSE
INVARIANT OneRowSelected
