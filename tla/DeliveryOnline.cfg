CONSTANTS
  c1 = c1
  c2 = c2
  c3 = c3
  Clients = {c1, c2}
  Joining = {}
  Stallable = {c1}
  Recovering = {c1}
  Leaving = {c2}
  Kinds = {"broadcast", "ranged", "move", "find", "kill", "delete", "reply", "reject"}
  Cap = 1
  Budget = 2
  NoClient = NoClient
SPECIFICATION Spec
INVARIANTS TypeOK WaitsLead
PROPERTIES KickDisconnects WritersGetThrough GoneIsReleased
