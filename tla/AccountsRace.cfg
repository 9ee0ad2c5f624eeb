SPECIFICATION Spec
CONSTANTS
  Cids = {1, 2}
  FirstAdmin = 1
  h1 = h1
  h2 = h2
  Handlers <- Pair
  Passwords = {p1}
  FirstPassword = p1
  Absent = Absent
  Empty = Empty
  MaxKey = 1
  Budget = 5
PROPERTY HigherUntouched
CHECK_DEADLOCK FALSE
