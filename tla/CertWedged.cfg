\* The retry loop after a crash between the two cache writes.
SPECIFICATION FairSpec
CONSTANTS
  Configs <- MCRemoteConfigs
  OrderIds = {o1}
  NoOrder = NoOrder
  MaxBoots = 2
  DiskMayFail = FALSE
  BadCertificates = FALSE
PROPERTIES
  RetryEventuallyServes
CHECK_DEADLOCK FALSE
