CONSTANTS
  c1 = c1
  c2 = c2
  c3 = c3
  k1 = k1
  k2 = k2
  Clients = {c1, c2, c3}
  Callsigns = {k1, k2}
  Positions = {"zero", "far"}
  Boxes = {"zero", "far"}
  BoxOf <- MCBoxOf
  Overlap <- MCOverlap
  Origin = "zero"
  NoClient = NoClient
  NoBox = NoBox
SYMMETRY Symmetry
SPECIFICATION PSpec
INVARIANTS
  TypeOK
  TreeExact
  SearchExact
  BroadcastExact
  NoGhosts
PROPERTIES
  OnlyOwnDelete
  ImplementsRegistry
