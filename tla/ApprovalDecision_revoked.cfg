CONSTANTS
  Deciders = {d1, d2}
  Nobody = Nobody
SPECIFICATION Spec
INVARIANT
  RevokedRoleCannotDecide
CHECK_DEADLOCK FALSE
