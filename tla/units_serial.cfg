CONSTANTS
  Requests = {r1}
  UnitIds = {u1, u2}
  Plates = {p1, p2}
  Baselines = {b1}
  Readings = {0, 150000, 4000000}
  None = None
  OdoNoImpact = 100000
  OdoMaxImpact = 3000000
  Ops = {"create", "status", "update", "consumption", "delete", "trips"}
  Faults = FALSE
SPECIFICATION Spec
CHECK_DEADLOCK FALSE
INVARIANTS
  FactorFollowsOdometer
SYMMETRY Symmetry
