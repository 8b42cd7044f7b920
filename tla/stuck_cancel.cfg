SPECIFICATION FairSpec
CONSTANTS
  a = a
  b = b
  e1 = e1
  e2 = e2
  e3 = e3
  None = None
  Account = {a}
  Extraction = {e1}
  Payable = {e1}
  Forgettable = {}
  Patience = 2
  MaxFaults = 0
  Workers = 1
PROPERTIES MarkedRowReconciled
CHECK_DEADLOCK FALSE
