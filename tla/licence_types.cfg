CONSTANTS
  Requests = {r1}
  Types = {A, B, C}
  Drivers = {d1}
  MaxPairs = 3
  None = None
SPECIFICATION Spec
INVARIANTS
  TypeOK
  ClosureExact
PROPERTY ClosureAdvances
SYMMETRY Symmetry
