CONSTANTS
  MaxRetries = 2
  MaxReplans = 1
  MaxApprovals = 4
  ResumeModes = {"restart", "continue"}
  Faulty = TRUE
  Crashes = TRUE
SPECIFICATION Spec
INVARIANTS
  TypeOK
  NothingWithoutConsent
  CompletedMeansAgreement
  RetryOnlyWhenConverged
PROPERTIES
  RefinesGraph
CHECK_DEADLOCK FALSE
