CONSTANTS
  c1 = c1
  c2 = c2
  w1 = w1
  w2 = w2
  Clients = {c1, c2}
  Stallable = {c1}
  Recovering = {c1}
  Workers = {w1, w2}
  QueueCap = 1
  Cap = 1
  Budget = 5
  NoClient = NoClient
SPECIFICATION Spec
INVARIANTS TypeOK RequestsConserved
PROPERTIES RequestsAnswered CancelledLeaves
