\* Three threads, two keys, one of them shared by two result types.
CONSTANTS
  Threads = {t1, t2, t3}
  Queries <- SomeQueries
  Tokens <- SomeTokens
  Exception = Exception
  None = None
SPECIFICATION CacheFairSpec
INVARIANTS ComputedOnce AnswersTheQuestion
PROPERTY CallsEnd
