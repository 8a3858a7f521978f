\* Does every upstream time-out end in 504?
CONSTANTS
  Listening <- AllEvents
  Outcomes <- EveryWay
  UseCache = FALSE
  MaxJumps = 10
SPECIFICATION Spec
INVARIANT
  TimeoutIs504
CHECK_DEADLOCK FALSE
