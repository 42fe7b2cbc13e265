SPECIFICATION Spec
CONSTANTS
  NotFinite = NotFinite
  NoJob = NoJob
  Nothing = Nothing
  Calls <- MCCalls
  MaxRemoved = 2
CHECK_DEADLOCK FALSE
INVARIANTS
  StatusTypeOK
  CallerInformed
PROPERTIES
  Seamless
  NeverBack
