\* Every path to a certificate, three starts, all faults.
SPECIFICATION Spec
CONSTANTS
  Configs <- MCAllConfigs
  OrderIds = {o1, o2}
  NoOrder = NoOrder
  MaxBoots = 3
  DiskMayFail = TRUE
  BadCertificates = TRUE
INVARIANTS
  TypeOK
  ServedKeyProvenance
  ObtainHasAccount
  ChallengesUpBeforeReady
  ChallengePortReleased
PROPERTIES
  RequestsOnlyWhenUncached
  CacheIsASlot
\* A process that ended need not be started again.
CHECK_DEADLOCK FALSE
