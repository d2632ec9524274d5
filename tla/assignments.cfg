SPECIFICATION Spec
CONSTANTS
  TripIds = {t1, t2, t3}
  Drivers = {d1}
  Vehicles = {v1}
  Supervisors = {s1}
  Codes = {B, C}
  Types = {"LIVIANO", "CUALQUIERA"}
  MaxActive = 2
  MaxChanges = 1
  None = None
SYMMETRY Symmetry
INVARIANTS
  TypeOK
  OfferHolds
  BusyIsRefused
  LicencesShared
CHECK_DEADLOCK FALSE
