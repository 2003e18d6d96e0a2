CONSTANTS
  Longest = 4
  Forms <- AnyForm
SPECIFICATION SearchSpec
INVARIANTS MasksAreLongEnough
CHECK_DEADLOCK FALSE
