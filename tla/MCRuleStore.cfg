\* Two stores on one file, which other programs change once.
CONSTANTS
  s1 = s1
  s2 = s2
  Stores <- TwoStores
  Rules <- TwoRules
  Inputs <- TwoInputs
  Format <- Trim
  Inside <- PartOf
  MaxEdits = 1
SPECIFICATION FairSpec
INVARIANTS
  NoDuplicates
  StaleHasReload
  PendingIsWritten
PROPERTIES
  WrittenIsMatched
CHECK_DEADLOCK FALSE
