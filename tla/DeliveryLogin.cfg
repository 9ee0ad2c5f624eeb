CONSTANTS
  c1 = c1
  c2 = c2
  c3 = c3
  Clients = {c1, c2}
  Joining = {c1}
  Stallable = {}
  Recovering = {}
  Leaving = {c1}
  Kinds = {"broadcast", "delete", "kill"}
  Cap = 4
  Budget = 2
  NoClient = NoClient
SPECIFICATION Spec
PROPERTY GoneIsReleased
