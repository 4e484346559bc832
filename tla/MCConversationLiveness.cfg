SPECIFICATION FairSpec
CONSTANTS
  f1 = f1  f2 = f2  w1 = w1  w2 = w2
  NoFile = NoFile
  Files = {f1}
  Workers = {w1}
  MaxFiles = 1
  MaxAttempts = 2
  LeaseOutlives = TRUE
  MaxClaims = 6
  MaxRequeues = 0
  MaxStops = 2
PROPERTIES JobEnds InfectedIsErased DueIsPurged
CHECK_DEADLOCK FALSE
