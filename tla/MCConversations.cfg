SPECIFICATION FairSpec
CONSTANTS
  m1 = m1
  NoKey = NoKey
  Mine = {m1}
  MaxTheirs = 2
  MaxClock = 6
  MaxTries = 2
  MaxRevisions = 2
  MaxOpenings = 1
INVARIANTS MessagesInv MissedOnlyWhenPassed StaleOnlyWhenLate
PROPERTIES EntrySettles TabCatchesUp
CHECK_DEADLOCK FALSE
