\* One text is every sequence of up to four symbols, the others are usual ones.
CONSTANTS
  Longest = 4
  Forms <- AnyForm
SPECIFICATION SearchSpec
INVARIANTS ExpressionWellFormed NoKeywordLeft
CHECK_DEADLOCK FALSE
