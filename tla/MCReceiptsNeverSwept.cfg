SPECIFICATION Spec
CONSTANTS
  f1 = f1  f2 = f2  w1 = w1  w2 = w2
  NoFile = NoFile
  Files = {f1, f2}
  Workers = {w1}
  MaxFiles = 2
  MaxAttempts = 1
  LeaseOutlives = TRUE
  MaxClaims = 1
  MaxRequeues = 0
  MaxStops = 0
PROPERTIES ReceiptsNeverSwept
CHECK_DEADLOCK FALSE
