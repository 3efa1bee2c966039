CONSTANTS
  Sessions = {s1, s2}
  Rows = {r1, r2}
  Executions = {e1, e2}
  None = None
SYMMETRY Symmetry
SPECIFICATION Spec
INVARIANTS
  TypeOK
  EffectsAreAuthorised
  SpentStaysSpent
  TrailTellsWhatHappened
  SpentOnlyBySuccess
  AppliedRunsSpendOnce
CHECK_DEADLOCK FALSE
