SPECIFICATION Spec
CONSTANTS
  f1 = f1  f2 = f2  w1 = w1  w2 = w2
  NoFile = NoFile
  Files = {f1}
  Workers = {w1, w2}
  MaxFiles = 1
  MaxAttempts = 2
  LeaseOutlives = FALSE
  MaxClaims = 4
  MaxRequeues = 1
  MaxStops = 1
INVARIANTS ScansInv DeletedLeavesNoBytes
PROPERTIES GoneStaysGone
SYMMETRY Symmetry
CHECK_DEADLOCK FALSE
