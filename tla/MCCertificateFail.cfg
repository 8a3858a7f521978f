\* Is a failed task forgotten?
CONSTANTS
  p1 = p1
  c1 = c1
  c2 = c2
  h1 = h1
  h2 = h2
  k1 = k1
  k2 = k2
  KeyPairs <- TwoKeyPairs
  Procs <- OneProc
  Callers <- TwoCallers
  Home <- BothAtHome
  Hosts <- OneHost
  Faults <- AnyFault
SPECIFICATION Spec
INVARIANT
  FailureIsCleared
CHECK_DEADLOCK FALSE
