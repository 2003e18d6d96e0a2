\* A criterion that spells two descriptors, and the two descriptors.
CONSTANTS
  Threads = {t1}
  Queries <- OneTextOrTwo
  Tokens <- SomeTokens
  Exception = Exception
  None = None
SPECIFICATION CacheSpec
INVARIANT FilterAsAsked
