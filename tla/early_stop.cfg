SPECIFICATION Spec
CONSTANTS
  n1 = n1
  n2 = n2
  n3 = n3
  n4 = n4
  None = None
  Count = 2
  Concurrency = 1
  Extra = 0
  MailboxCapacity = 3
  ExecutionSlots = 1
  Pool <- TwoNumbers
  Modes = {"plus"}
INVARIANTS EarlyStopIsJustified
CHECK_DEADLOCK FALSE
