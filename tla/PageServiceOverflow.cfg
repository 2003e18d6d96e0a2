\* Queries without a total, for pages far beyond the last one.
CONSTANTS
  IntMax = 7
  Matching = {5}
  Sizes = {3}
  All = All
  AddAll = FALSE
  Ids = {}
  Exception = Exception
SPECIFICATION Spec
INVARIANT ServedAsAsked
