\* Two requests that contend for the limiter's mutex, and a control plane and an
\* upstream that answer.
SPECIFICATION ShimFairSpec
CONSTANTS
  c1 = c1
  c2 = c2
  Callers <- MCCallers
  Keys <- MCKeys
  None = None
  Burst = 1
  Rate = 1
  Scale = 1
  MaxTime = 1
  ServerConfigs <- MCLimitedConfigs
  RequestKinds <- MCChatRequests
PROPERTIES
  EveryRequestAnswered
\* Every request arrives once.
CHECK_DEADLOCK FALSE
