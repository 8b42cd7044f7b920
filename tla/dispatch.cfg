SPECIFICATION FairSpec
CONSTANTS
  a = a
  b = b
  c = c
  one = one
  two = two
  c1 = c1
  c2 = c2
  h1 = h1
  h2 = h2
  h3 = h3
  None = None
  Task = {a, b}
  Client = {c1}
  Thread = {h1, h2}
  Account = {"account:1", "account:2"}
  Lane = {one, two}
  Register = {a}
  Urgent = {b}
  LaneOf <- RecoveryLane
  LimitOf <- SerialLimit
  KeysOf <- NoKeys
  MaxParallel = 1
  LateFinish = {}
  Irreversible = {}
  MayRaise = {}
  Ops = {"release", "pause", "cancel"}
  MaxSaves = 0
  MayCrash = FALSE
PROPERTIES RecoveryDispatched StoppedFreesKeys CancelBeforeBodyEnds
