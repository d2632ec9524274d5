CONSTANTS
  Requests = {r1, r2}
  Users = {u1, u2}
  Emails = {e1, e2}
  Passwords = {p1, p2}
  Tokens = {k1}
  None = None
  MaxLost = 1
SPECIFICATION Spec
CHECK_DEADLOCK FALSE
SYMMETRY Symmetry
INVARIANTS
  EmailsUnique
  TokenUses
