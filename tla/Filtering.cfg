\* Texts of up to two of the five symbols, in the records and in the criteria.
CONSTANTS
  Longest = 2
  Null = Null
  Rows <- Values
  Filters <- OneOrTwo
SPECIFICATION FilterSpec
INVARIANTS SameRows
CHECK_DEADLOCK FALSE
