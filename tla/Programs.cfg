\* Every configuration and machine, every certificate, two offline keys with
\* three ticks to a second, and four requests to the key server.
SPECIFICATION ProgramSpec
CONSTANTS
  RawConfigs <- MCRawConfigs
  Machines <- MCMachines
  Certs <- Every
  MaxNames = 104
  OfflineKeys = {o1, o2}
  Unissued = Unissued
  Second = 3
  Validity = 8
  MaxTime = 14
  Handlers = {h1, h2, h3, h4}
  ServerKeys = {k1, k2}
  MaxStarts = 2
INVARIANTS
  StartupTypeOK
  WithinSanLimit
  WildcardByDns
  AttestationCommitted
  RoundTrip
  NamesFit
  EncodeEndsGivenRoom
  OfflineTypeOK
  NeverOutlives
  LosesLessThanTwoSeconds
  NoTokensInvented
  SequentialIsExact
\* The programs end.
CHECK_DEADLOCK FALSE
