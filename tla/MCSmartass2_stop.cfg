CONSTANTS
  NumCpus = 1
  FreqTable <- MCFreqTable
  PolicyMin = 1
  PolicyMax = 8
  Limits <- MCNoLimits
  AwakeIdealFreq = 2
  SleepIdealFreq = 1
  SleepWakeupFreq = 8
  RampUpStep = 1
  RampDownStep = 1
  MaxCpuLoad = 50
  MinCpuLoad = 25
  UpRate = 2
  DownRate = 3
  SampleRate = 1
  RateLimit <- MCRateLimit
  Inputs <- MCNoInputs
  Loads = {0, 40, 60, 100}
  NrRunning = {TRUE, FALSE}
  PlatformMayFail = FALSE
  CpuMayIdle = TRUE
  GovSwitch = TRUE
  IntBits = 5
SPECIFICATION Spec
INVARIANT GovStopQuiesces
