CONSTANTS
  MaxRetries = 1
  MaxReplans = 1
  MaxApprovals = 4
  ResumeModes = {"continue"}
  Faulty = FALSE
  Crashes = FALSE
SPECIFICATION Spec
PROPERTY
  AutomaticUpgradeApplies
CHECK_DEADLOCK FALSE
