SPECIFICATION FairSpec
CONSTANTS
  a = a
  b = b
  e1 = e1
  e2 = e2
  e3 = e3
  None = None
  Account = {a}
  Extraction = {e1, e2}
  Payable = {e1}
  Forgettable = {e2}
  Patience = 2
  MaxFaults = 1
  Workers = 1
INVARIANTS TypeOK AgreementOnce CompletedIsPaid OneExtraction NoStrayChild
PROPERTIES PipelineEnds TrackedRowSettles
CHECK_DEADLOCK FALSE
