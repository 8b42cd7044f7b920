SPECIFICATION FairSpec
CONSTANTS
  n1 = n1
  n2 = n2
  n3 = n3
  None = None
  Number = {n1, n2, n3}
  ChangeRetries = 1
  CancelRetries = 2
  Patience = 2
  MaxFaults = 2
INVARIANTS TypeOK OnlyRefusedAreLost StoppedMeansAsked
PROPERTIES AcceptedGoBack
CHECK_DEADLOCK FALSE
