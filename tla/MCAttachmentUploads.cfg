SPECIFICATION Spec
CONSTANTS
  f1 = f1  f2 = f2  w1 = w1  w2 = w2
  NoFile = NoFile
  Files = {f1, f2}
  Workers = {w1}
  MaxFiles = 1
  MaxAttempts = 1
  MaxClaims = 1
  MaxRequeues = 0
  MaxTroubles = 1
INVARIANTS CapacityHeld DeletedLeavesNoBytes
PROPERTIES ImplementsLifecycle
CHECK_DEADLOCK FALSE
