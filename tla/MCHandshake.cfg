\* Three listeners for each event.
CONSTANT NListeners = 3
SPECIFICATION FairSpec
INVARIANTS
  HijackedGetsNoTls
  ListenersAreWaitedFor
  FailedIsClosed
PROPERTIES
  HandshakeSettles
  ClosedTunnelForgotten
  TracksTunnels
CHECK_DEADLOCK FALSE
