CONSTANTS
  Threads = {t1, t2}
  Users = {1, 2}
  RoleCodes = {"events"}
  PermCodes = {"event:edit"}
  MaxIds = 6
  Budget = 5
SPECIFICATION Spec
INVARIANTS
  TypeOK
  BindingsRefer
PROPERTY AssignmentsExact
CHECK_DEADLOCK FALSE
SYMMETRY Permuted
