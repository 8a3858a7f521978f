\* One process, two handshakes, two hosts, every fault.
CONSTANTS
  p1 = p1
  c1 = c1
  c2 = c2
  h1 = h1
  h2 = h2
  k1 = k1
  k2 = k2
  KeyPairs <- TwoKeyPairs
  Procs <- OneProc
  Callers <- TwoCallers
  Home <- BothAtHome
  Hosts <- TwoHosts
  Faults <- AnyFault
SPECIFICATION FairSpec
INVARIANTS
  OneTaskPerHost
  PairsMatch
  MemoryMatchesDisk
PROPERTY
  CallSettles
CHECK_DEADLOCK FALSE
