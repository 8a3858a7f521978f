\* One plugin, two connections, two transactions of any kind.
CONSTANTS
  c1 = c1
  c2 = c2
  t1 = t1
  t2 = t2
  p1 = p1
  Conns <- TwoConns
  Txns <- TwoTxns
  Kinds <- EveryKind
  Plugins <- OnePlugin
SPECIFICATION ServerSpec
INVARIANT
  StoppedIsIdle
PROPERTIES
  KeepsProxyLifecycle
  FirstRequestIsWaitedFor
CHECK_DEADLOCK FALSE
