SPECIFICATION FairSpec
CONSTANTS
  f1 = f1  f2 = f2  w1 = w1  w2 = w2
  NoFile = NoFile
  Files = {f1}
  Workers = {w1, w2}
  MaxFiles = 1
  MaxAttempts = 2
  MaxClaims = 4
  MaxRequeues = 1
  MaxTroubles = 2
INVARIANT ScansInv
PROPERTIES ScanEnds ReservationEnds
CHECK_DEADLOCK FALSE
