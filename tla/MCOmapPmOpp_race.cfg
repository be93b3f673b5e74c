CONSTANTS
  MpuTable <- MC34xxMpuTable
  DspTable <- MC34xxDspTable
  TableEnd = 4294967
  OppIds = {0, 1, 2, 3, 4, 5}
  SetRateMayFail = FALSE
SPECIFICATION Spec

INVARIANT DspMinHonoured
