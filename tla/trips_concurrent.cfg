CONSTANTS
  Requests = {r1, r2}
  TripIds = {t1, t2}
  RouteIds = {rt1}
  Drivers = {d1}
  Vehicles = {v1}
  Supervisors = {s1}
  None = None
  MaxActive = 2
  Distances = {100000}
  Odometers = {0}
  Readings = {40, 103000, 110000}
  Ops = {"create", "update", "start", "finish", "review", "createRoute", "updateRoute", "deleteRoute"}
  Faults = TRUE
SPECIFICATION Spec
CHECK_DEADLOCK FALSE
SYMMETRY Symmetry
INVARIANTS
  TypeOK
  ReviewConsistent
PROPERTIES
  NoPhaseSkipped
