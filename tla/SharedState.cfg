\* Four callers of the limiter (half a token per tick: the third and the fourth
\* depend on the refill), three scrapes, three ACPI requests and two kills.
SPECIFICATION SharedSpec
CONSTANTS
  r1 = r1
  r2 = r2
  r3 = r3
  r4 = r4
  k1 = k1
  k2 = k2
  Callers <- MCCallers
  Keys <- MCKeys
  None = None
  Burst = 2
  Rate = 1
  Scale = 2
  MaxTime = 4
  Scrapes <- MCHandlers
  ResetOrder <- MCResetOrder
  SetOrder <- MCSetOrder
  Unset = Unset
  Requests <- MCHandlers
  MaxKills = 2
SYMMETRY Symmetry
INVARIANTS
  LimiterTypeOK
  WindowBound
  OneLimiterPerKey
  ScrapeTypeOK
  NoStaleSample
  AloneIsExact
  AcpiTypeOK
  AnswersAreWhole
  TempFilesRemoved
PROPERTIES
  LimiterKept
  ArchiveKept
\* Every handler is called once.
CHECK_DEADLOCK FALSE
