\* Two transactions for one resource; a limit of two chunks.
CONSTANTS
  t1 = t1
  t2 = t2
  None = None
  Txns <- TwoTxns
  Requests <- GetAndPost
  Pipelined <- OnlyGet
  Responses <- SomeResponses
  Limit = 2
  DefaultTtl = 0
  LruTtl = 1
  MaxTime = 3
SYMMETRY TxnSymmetry
SPECIFICATION Spec
INVARIANTS
  CachedIsComplete
  HitMayBeShared
PROPERTY
  HitIsFresh
CHECK_DEADLOCK FALSE
