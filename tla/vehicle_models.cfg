CONSTANTS
  Requests = {r1, r2}
  ModelIds = {m1, m2}
  Names = {n1}
  Trims = {}
  Years = {2010}
  Licences = {}
  None = None
  MaxVersion = 2
  MaxUnits = 1
SPECIFICATION Spec
CHECK_DEADLOCK FALSE
SYMMETRY Symmetry
PROPERTIES
  IdentityUnique
  UnitsHaveModel
  NoLostUpdate
  DeletedAsExpected
