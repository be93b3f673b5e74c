CONSTANTS
  NumCpus = 1
  FreqTable <- MCFreqTable
  PolicyMin = 1
  PolicyMax = 8
  Limits <- MCLimits
  AwakeIdealFreq = 2
  SleepIdealFreq = 1
  SleepWakeupFreq = 8
  RampUpStep = 1
  RampDownStep = 1
  MaxCpuLoad = 50
  MinCpuLoad = 25
  UpRate = 2
  DownRate = 3
  SampleRate = 1
  RateLimit <- MCRateLimit
  Inputs <- MCLoadInputs
  Loads = {100}
  NrRunning = {TRUE}
  PlatformMayFail = FALSE
  CpuMayIdle = FALSE
  GovSwitch = FALSE
  IntBits = 5
SPECIFICATION Spec
INVARIANT IdealMatchesRegime
INVARIANT CurWithinLimits
INVARIANT SamplingAlive
PROPERTY HighLoadReachesMax
