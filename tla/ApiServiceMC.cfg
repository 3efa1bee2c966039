SPECIFICATION ApiSpec
CONSTANTS
  Drivers = {start, resume1, resume2}
  Starter = start
  MaxDepth = 4
  Users = {alice}
  Tokens = {token1}
  Callers = {caller1, caller2}
  Operators = {operator1}
  Never = Never
  LastDay = 1
  Workers = {worker1, worker2, worker3}
  Others = {other}
  Nobody = Nobody
  Statements = 2
  MaxBoots = 2
  Requests = {request1, request2, request3}
  Capacity = 2
  MaxUses = 1
INVARIANTS
  ApiTypeOK TraceIsWhole EndIsReal TokensAreUsedInTime SetupIsSafe
  OnlyStartsHoldAndWait
PROPERTIES
  RevocationIsFinal ApiComesToRest
\* runs end, tokens run out and boots are bounded
CHECK_DEADLOCK FALSE
