CONSTANTS
  Requests = {r1, r2}
  Instances = {i1, i2}
  Emails = {alice, bob}
  AdminEmail = admin
  Ratings = {observer, administrator}
  Observer = observer
  Administrator = administrator
  None = none
  MaxCid = 4
  MaxCodes = 2
  Budget = 4
  MaxStarts = 2
CHECK_DEADLOCK FALSE
SPECIFICATION Spec
INVARIANTS
  TypeOK
  OneAutomaticAdmin
  AccountsComplete
  RatingsAgree
  SomebodyGoesOn
PROPERTY CodesKept
SYMMETRY Permuted
