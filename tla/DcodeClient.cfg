SPECIFICATION DcodeSpec
CONSTANTS
  Certs <- Published
  MaxNames = 104
INVARIANTS
  ClientRecoversAttestation
CHECK_DEADLOCK FALSE
