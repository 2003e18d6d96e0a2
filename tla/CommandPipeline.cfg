\* Three commands on one context, one of them invalid.
CONSTANTS
  Commands = {c1, c2, bad}
  Invalid = {bad}
  Pipelines <- AllPipelines
  RetryCount = 2
  None = None
SPECIFICATION FairSpec
INVARIANTS NoTransactionLeftOpen ReturnedMeansStored
PROPERTIES ThrownMeansNotStored EveryCallEnds
\* When all commands have been called, nothing is left to do.
CHECK_DEADLOCK FALSE
