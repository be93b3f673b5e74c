CONSTANTS
  h1 = h1
  h2 = h2
  h3 = h3
  Handlers <- MCHandlers
  Level <- MCLevel
SPECIFICATION Spec
INVARIANT WakeLockHeldWhileAwake
INVARIANT QuiescentAgreement
INVARIANT HandlerListOrdered
PROPERTY SuspendTakesEffect
PROPERTY AbstractSpecHolds
