\* The default list of authenticated endpoints.
SPECIFICATION ShimSpec
CONSTANTS
  c1 = c1
  c2 = c2
  Callers <- MCCallers
  Keys <- MCKeys
  None = None
  Burst = 1
  Rate = 1
  Scale = 1
  MaxTime = 1
  ServerConfigs <- MCConfigs
  RequestKinds <- MCRequests
INVARIANTS
  EveryUpstreamRequestVerified
CHECK_DEADLOCK FALSE
