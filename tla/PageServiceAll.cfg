\* One record, of which any page is asked for.
CONSTANTS
  IntMax = 3
  Matching = {1}
  Sizes = {2}
  All = All
  AddAll = TRUE
  Ids = {}
  Exception = Exception
SPECIFICATION Spec
INVARIANT FirstPageHasAll
