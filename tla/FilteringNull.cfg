CONSTANTS
  Longest = 2
  Null = Null
  Rows <- Values
  Filters <- OneOrTwo
SPECIFICATION FilterSpec
INVARIANTS NullMeansNull
CHECK_DEADLOCK FALSE
