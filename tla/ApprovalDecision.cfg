CONSTANTS
  Deciders = {d1, d2}
  Nobody = Nobody
SPECIFICATION Spec
INVARIANTS
  TypeOK
  DeciderHadAuthority
  AuditTellsTheDecision
  LateRequestsAreRefused
  RunActsOnARecord
PROPERTIES
  DecisionReachesTheRun
CHECK_DEADLOCK FALSE
