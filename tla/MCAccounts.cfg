SPECIFICATION MCSpec
CONSTANTS
  student = student  admin = admin  c1 = c1  c2 = c2
  NoUser = NoUser
  Users = {student, admin}
  Calls = {c1, c2}
  MaxPasswords = 2
  MaxSessions <- MCSessions
  MaxLinks = 2
  MaxRecoveries = 2
INVARIANTS LinksInv LiveSessionIsCurrent
PROPERTIES ChangesForAReason AdministratorStays
SYMMETRY Symmetry
CHECK_DEADLOCK FALSE
