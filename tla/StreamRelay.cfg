\* Answers of up to four lines.
SPECIFICATION FairRelaySpec
CONSTANT MaxLines = 4
INVARIANTS
  RelayTypeOK
  LinesInOrder
  CompleteMeansAll
PROPERTIES
  RelayEnds
\* The response ends.
CHECK_DEADLOCK FALSE
