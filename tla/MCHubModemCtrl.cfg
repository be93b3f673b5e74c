CONSTANTS
  FotaValues <- MCFotaValues
  LineValues <- MCLineValues
  RilFailValues <- MCRilFailValues
  RilInitValues <- MCRilInitValues
SPECIFICATION Spec
INVARIANT LocksReleasedWhenIdle
