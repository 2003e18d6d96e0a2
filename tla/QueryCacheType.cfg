\* One page of two classes of queries.
CONSTANTS
  Threads = {t1}
  Queries <- TwoTypes
  Tokens <- SomeTokens
  Exception = Exception
  None = None
SPECIFICATION CacheSpec
INVARIANT TypeAsAsked
