CONSTANTS
  Requests = {r1, r2}
  DriverIds = {d1, d2}
  Users = {u1, u2}
  None = None
SPECIFICATION Spec
CHECK_DEADLOCK FALSE
SYMMETRY Symmetry
INVARIANTS
  TypeOK
  PairAgrees
  LiveDriverCanLogIn
PROPERTIES
  RemovalStands
