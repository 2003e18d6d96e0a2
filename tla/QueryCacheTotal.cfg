\* A query with the total after the same query without.
CONSTANTS
  Threads = {t1}
  Queries <- TotalOrNot
  Tokens <- SomeTokens
  Exception = Exception
  None = None
SPECIFICATION CacheSpec
INVARIANT TotalWhenAsked
