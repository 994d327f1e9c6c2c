\* The retry loop with every fault and a restart.
SPECIFICATION FairSpec
CONSTANTS
  Configs <- MCRemoteConfigs
  OrderIds = {o1}
  NoOrder = NoOrder
  MaxBoots = 2
  DiskMayFail = TRUE
  BadCertificates = TRUE
PROPERTIES
  SettlesOrWedges
CHECK_DEADLOCK FALSE
