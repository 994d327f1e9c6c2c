\* A rate limit without authentication.
SPECIFICATION ShimSpec
CONSTANTS
  c1 = c1
  c2 = c2
  Callers <- MCCallers
  Keys <- MCKeys
  None = None
  Burst = 1
  Rate = 1
  Scale = 1
  MaxTime = 1
  ServerConfigs <- MCConfigs
  RequestKinds <- MCRequests
INVARIANTS
  NoKeyChecksUnauthenticated
CHECK_DEADLOCK FALSE
