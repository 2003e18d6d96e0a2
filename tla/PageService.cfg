\* Four bits: -8 .. 7.  No record, one, two and five; no paging, pages of 1, 2, 3.
CONSTANTS
  IntMax = 7
  Matching = {0, 1, 2, 5}
  Sizes = {0, 1, 2, 3}
  All = All
  AddAll = TRUE
  Ids <- SomeIds
  Exception = Exception
SPECIFICATION Spec
INVARIANTS ServedAsSaid OneAllOnFirstPage
