CONSTANTS
  Requests = {r1, r2}
  UnitIds = {u1, u2}
  Plates = {p1, p2}
  Baselines = {b1}
  Readings = {0, 150000}
  None = None
  OdoNoImpact = 100000
  OdoMaxImpact = 3000000
  Ops = {"create", "update", "consumption", "delete", "trips"}
  Faults = TRUE
SPECIFICATION Spec
CHECK_DEADLOCK FALSE
INVARIANTS
  TypeOK
  UnitsHaveSpecs
PROPERTIES
  DeletedStaysDeleted
SYMMETRY Symmetry
