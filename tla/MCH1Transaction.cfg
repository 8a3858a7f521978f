\* Every plugin event observed, every way a listener can end.
CONSTANTS
  Listening <- AllEvents
  Outcomes <- EveryWay
  UseCache = TRUE
  MaxJumps = 10
SPECIFICATION FairSpec
INVARIANTS
  StartedTimeoutIs504
  ActiveUntilAnswered
PROPERTIES
  OneAnswer
  TerminalEndsPhases
  NoLateForward
  EventuallyAnswered
  UpstreamReleased
  TracksRequest
CHECK_DEADLOCK FALSE
