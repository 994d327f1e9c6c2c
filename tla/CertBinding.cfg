\* A restart with a certificate in the cache, and no fault of any kind.
SPECIFICATION Spec
CONSTANTS
  Configs <- MCRemoteConfigs
  OrderIds = {o1}
  NoOrder = NoOrder
  MaxBoots = 2
  DiskMayFail = FALSE
  BadCertificates = FALSE
INVARIANTS
  ServedKeyIsAttested
CHECK_DEADLOCK FALSE
