CONSTANTS
  Cables <- MCVbusCables
  ReadMayFail = FALSE
  ProbeRaces = FALSE
SPECIFICATION Spec
PROPERTY PhyFollowsCable
