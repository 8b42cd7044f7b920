SPECIFICATION FollowedSpec
CONSTANTS
  a = a
  b = b
  c = c
  w1 = w1
  w2 = w2
  x1 = x1
  None = None
  Task = {a, b}
  Worker = {w1}
  Watcher = {x1}
  Free = {b}
  Paypal = {a}
  Callers <- OneCaller
  HistorySize = 1
  QueueSize = 2
  MaxStages = 1
  MaxAnswers = 1
INVARIANTS TypeOK NoGhostExtraction WatcherAgrees
PROPERTIES ImplementsRemoteTask
CHECK_DEADLOCK FALSE
