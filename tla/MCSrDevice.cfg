CONSTANTS
  Order <- MCOrder
  Volts <- MCVolts
  EfuseRegs <- MCEfuseRegs
  Seeds <- MCSeeds
  AllocMayFail = TRUE
  LookupMayFail = TRUE
  BuildMayFail = TRUE
  GainMaxLimit = 16
  RMaxLimit = 256
  SenpGainShift = 20
  SennGainShift = 16
  RnsenpShift = 8
  RnsennShift = 0
SPECIFICATION Spec
INVARIANT TypeOK
INVARIANT SrIdMatchesVdd
INVARIANT ApproxTracksStep
