CONSTANTS
  Cables <- MCVbusCables
  ReadMayFail = FALSE
  ProbeRaces = FALSE
SPECIFICATION Spec
INVARIANT WakeLockWhileVbus
