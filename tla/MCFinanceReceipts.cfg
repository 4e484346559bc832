SPECIFICATION Spec
CONSTANTS
  stu = stu  a1 = a1  a2 = a2
  Students = {stu}
  Admins = {a1, a2}
  Prices = {1}
  MaxDues = 2
  MaxVersion = 4
  MaxReceipts = 2
INVARIANT LedgerInv
PROPERTIES ActsOnWhatItRead DecidedOnce
SYMMETRY Symmetry
