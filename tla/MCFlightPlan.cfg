CONSTANTS
  a1 = a1
  a2 = a2
  p1 = p1
  p2 = p2
  k1 = k1
  k2 = k2
  k3 = k3
  x = x
  y = y
  Sessions = {a1, a2, p1, p2}
  Controllers = {a1, a2}
  Callsigns = {k1, k2, k3}
  CallsignOf <- MCCallsignOf
  Plans = {x, y}
  Budget = 2
  NoPlan = NoPlan
  NoSession = NoSession
SYMMETRY Symmetry
SPECIFICATION Spec
INVARIANTS TypeOK ScreensAgree PlansStayWithTheirOwners
PROPERTIES ImplementsRegistry
CHECK_DEADLOCK FALSE
