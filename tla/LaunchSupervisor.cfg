CONSTANTS
  Order <- MCOrder
  Blocking <- MCBlocking
  Heeding <- MCHeeding
  HasTimeout = TRUE
SPECIFICATION FairSpec
INVARIANTS
  RecordedQemuReaped
  ServicesSettled
  CulpritKept
PROPERTIES
  ShutdownReturns
  ExitEnds
CHECK_DEADLOCK FALSE
