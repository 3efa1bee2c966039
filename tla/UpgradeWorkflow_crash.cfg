CONSTANTS
  MaxRetries = 1
  MaxReplans = 1
  MaxApprovals = 4
  ResumeModes = {"continue"}
  Faulty = FALSE
  Crashes = TRUE
SPECIFICATION Spec
INVARIANT
  PausedRunCanBeResumed
CHECK_DEADLOCK FALSE
