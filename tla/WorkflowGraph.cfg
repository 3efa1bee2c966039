CONSTANTS
  MaxRetries = 2
  MaxReplans = 1
SPECIFICATION Spec
INVARIANTS
  TypeOK
  ExecutionsBounded
  ExecuteOnlyWithConsent
PROPERTIES
  DoubtNeverRepeats
  EventuallyAtRest
CHECK_DEADLOCK FALSE
