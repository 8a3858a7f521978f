\* Plugins listen for the client's messages and not for the upstream's.
CONSTANTS
  Listened <- ClientListened
  MaxMessages = 2
SPECIFICATION Spec
INVARIANTS
  ForgottenIsClosed
PROPERTIES
  PeerIsTold
  ClosedComesDown
  RelaysMessages
  TracksUpgrades
CHECK_DEADLOCK FALSE
