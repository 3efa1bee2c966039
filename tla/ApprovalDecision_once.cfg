CONSTANTS
  Deciders = {d1, d2}
  Nobody = Nobody
SPECIFICATION Spec
PROPERTY
  DecidedOnce
CHECK_DEADLOCK FALSE
