SPECIFICATION FairSpec
CONSTANTS
  w1 = w1  w2 = w2
  NumEvents = 2
  NumDevices = 2
  Limit = 2
  Workers = {w1, w2}
  MaxAttempts = 2
  Batch = 2
  MaxClaims = 3
  MaxTroubles = 1
INVARIANTS DeliveryInv TwiceOnlyWhenInDoubt
PROPERTIES EndedStays EveryEventEnds
CHECK_DEADLOCK FALSE
