CONSTANTS
  Requests = {q1, q2}
  N = 2
  Cycle = 2
  NoAddress = NoAddress
SPECIFICATION FairDiscoverySpec
INVARIANTS
  DiscoveryTypeOK
  AtMostOnce
PROPERTIES
  Balanced
  SettledServes
