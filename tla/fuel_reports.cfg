CONSTANTS
  TripIds = {t1, t2}
  RouteIds = {rt1, rt2}
  Drivers = {d1, d2}
  Vehicles = {v1}
  Types = {"LIVIANO", "PESADO"}
  Estimates = {700}
  Actuals = {800}
  MaxUpdates = 1
  MaxDay = 1
  Kinds = {"general", "machinery", "routes", "summary", "routeTrips", "vehicleRoutes", "drivers", "vehicles", "kpis", "ranking", "driverTrips"}
  None = None
SPECIFICATION ReportsSpec
SYMMETRY Symmetry
INVARIANTS
  ReportsTypeOK
  AnswerIsOfOneInstant
  ReportsAgree
