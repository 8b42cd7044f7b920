SPECIFICATION Spec
CONSTANTS
  a = a
  b = b
  c = c
  one = one
  two = two
  c1 = c1
  c2 = c2
  h1 = h1
  h2 = h2
  h3 = h3
  None = None
  Task = {a, b}
  Client = {c1}
  Thread = {h1, h2}
  Account = {"account:1", "account:2"}
  Lane = {one, two}
  Register = {b}
  Urgent = {}
  LaneOf <- SharedLane
  LimitOf <- SharedLimit
  KeysOf <- AccountKeys
  MaxParallel = 2
  LateFinish = {a}
  Irreversible = {a}
  MayRaise = {a}
  Ops = {"cancel", "release", "pause", "resume"}
  MaxSaves = 1
  MayCrash = TRUE
SYMMETRY Interchangeable
INVARIANTS TypeOK KeyExclusion UnstartedIsUntouched
PROPERTIES FencedSaves
