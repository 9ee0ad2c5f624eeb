CONSTANTS
  c1 = c1
  c2 = c2
  c3 = c3
  Clients = {c1, c2, c3}
  Joining = {c1}
  Stallable = {}
  Recovering = {}
  Leaving = {}
  Kinds = {"broadcast"}
  Cap = 1
  Budget = 2
  NoClient = NoClient
SPECIFICATION Spec
PROPERTY KickDisconnects
CHECK_DEADLOCK FALSE
