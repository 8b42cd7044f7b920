SPECIFICATION Spec
CONSTANTS
  a = a
  b = b
  c = c
  one = one
  two = two
  c1 = c1
  c2 = c2
  h1 = h1
  h2 = h2
  h3 = h3
  None = None
  Task = {a, b}
  Client = {c1, c2}
  Thread = {h1,h2,h3}
  Account = {"account:1", "account:2"}
  Lane = {one, two}
  Register = {a, b}
  Urgent = {}
  LaneOf <- SharedLane
  LimitOf <- SharedLimit
  KeysOf <- NoKeys
  MaxParallel = 2
  LateFinish = {}
  Irreversible = {}
  MayRaise = {}
  Ops = {"pause","resume"}
  MaxSaves = 0
  MayCrash = FALSE
SYMMETRY Interchangeable
INVARIANTS BatchLimit
