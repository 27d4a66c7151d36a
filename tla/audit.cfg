SPECIFICATION FairSpec
CONSTANTS
  Posters = {p1, p2}
  Tracers = {t1, t2}
  NoOne = NoOne
  NoRow = NoRow
CHECK_DEADLOCK FALSE
INVARIANTS BooksMatchChain ImmediateNeverStale
PROPERTIES ChainSpec LockReleased
