SPECIFICATION FairSpec
CONSTANTS
  n1 = n1
  n2 = n2
  n3 = n3
  n4 = n4
  None = None
  Count = 2
  Concurrency = 2
  Extra = 1
  MailboxCapacity = 3
  ExecutionSlots = 2
  Pool <- FourNumbers
  Modes = {"plain", "plus", "hero"}
INVARIANTS OneThreadPerNumber RejectedStayOut SlotPromised NeverTooMany ExecutionSlotsKept
PROPERTIES UnpausedBatchEnds
CHECK_DEADLOCK FALSE
