SPECIFICATION Spec
CONSTANTS
  Items <- Two
  Workers = 1
  MaxFaults = 1
  MaxCrashes = 1
INVARIANTS PaidOnlyIfBound OutcomeIsTrue NoStrayBinding
PROPERTIES NoSmsAfterRelease ItemVerdictFinal TaskStaysOver
CHECK_DEADLOCK FALSE
