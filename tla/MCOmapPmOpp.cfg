CONSTANTS
  MpuTable <- MC36xxMpuTable
  DspTable <- MC36xxDspTable
  TableEnd = 4294967
  OppIds <- MC36xxOppIds
  SetRateMayFail = TRUE
SPECIFICATION Spec
INVARIANT TypeOK
INVARIANT SequentialCallsCorrect
INVARIANT CpufreqSeesClock
