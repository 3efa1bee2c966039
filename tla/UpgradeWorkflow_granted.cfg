CONSTANTS
  MaxRetries = 1
  MaxReplans = 1
  MaxApprovals = 4
  ResumeModes = {"restart"}
  Faulty = FALSE
  Crashes = FALSE
SPECIFICATION Spec
PROPERTY
  ApprovalIsGranted
CHECK_DEADLOCK FALSE
