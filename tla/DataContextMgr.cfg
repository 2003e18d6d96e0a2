SPECIFICATION FairSpec
CONSTANTS
  Threads = {t1, t2}
  Contexts = {c1, c2, c3}
  Trans = {x1, x2}
  LinqToSql = TRUE
  None = None
CHECK_DEADLOCK FALSE
INVARIANTS
  TypeOK
  ConnectionsAccounted
  OneOwner
  NullOnlyAfterDispose
  TransactionsAccounted
PROPERTIES
  NeverReplaced
  CallsReturn
