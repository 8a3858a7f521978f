\* Is a closed connection forgotten?
CONSTANTS
  c1 = c1
  c2 = c2
  t1 = t1
  t2 = t2
  t3 = t3
  Conns <- TwoConns
  Txns <- ThreeTxns
  Kinds <- EveryKind
SPECIFICATION Spec
INVARIANT
  ClosedIsForgotten
CHECK_DEADLOCK FALSE
