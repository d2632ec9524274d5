CONSTANTS
  Requests = {r1}
  TripIds = {t1, t2, t3}
  RouteIds = {rt1}
  Drivers = {d1, d2}
  Vehicles = {v1}
  Supervisors = {s1}
  None = None
  MaxActive = 2
  Distances = {100000}
  Odometers = {0, 103000}
  Readings = {103040, 110000}
  Ops = {"create", "update", "start", "finish", "review", "createRoute", "updateRoute", "deleteRoute", "odometer"}
  Faults = FALSE
SPECIFICATION FairSpec
CHECK_DEADLOCK FALSE
INVARIANTS
  NoStrandedFleet
  EnRutaExclusive
  PlannedMatchesRoute
PROPERTIES
  SerialLifecycle
  ReviewReleases
