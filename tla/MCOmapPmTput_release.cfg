CONSTANTS
  d1 = d1
  d2 = d2
  d3 = d3
  Devs <- MCDevs
  BusLevels = {0, 400, 800}
  MpuLevels = {300, 600}
  KmallocMayFail = FALSE
  SetRateMayFail = FALSE
SPECIFICATION Spec
SYMMETRY MCSymmetry


INVARIANT L3RateCoversRequests
