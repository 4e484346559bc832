SPECIFICATION Spec
CONSTANTS
  stu = stu  a1 = a1  a2 = a2
  Students = {stu}
  Admins = {a1, a2}
  Prices = {1, 2}
  MaxDues = 3
  MaxVersion = 3
  MaxReceipts = 0
PROPERTIES ImplementsLifecycle IssuedBeforeVoid SplitConserves
