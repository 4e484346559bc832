SPECIFICATION MailFairSpec
CONSTANTS
  u1 = u1  c1 = c1  w1 = w1  w2 = w2
  NoUser = NoUser
  Users = {u1}
  Calls = {c1}
  MaxPasswords = 2
  MaxSessions <- MCSessions
  MaxLinks = 2
  MaxRecoveries = 0
  Workers = {w1, w2}
  MaxMails = 2
  MaxAttempts = 2
  MaxTroubles = 1
INVARIANT MailInv
PROPERTIES EndedStays EveryMailEnds
CHECK_DEADLOCK FALSE
