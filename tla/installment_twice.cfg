SPECIFICATION Spec
CONSTANTS
  Users = {u1}
  Requests = {q1, q2, q3}
  Calls = {c1, c2, c3}
  Seed = 2
  Deposits = {1}
  LoanSizes = {2}
  Collaterals = {2, 3}
  Terms = {2}
  Grace = 0
  Gated = TRUE
  None = None
SYMMETRY Slots
INVARIANTS StandingIsEarned
CHECK_DEADLOCK FALSE
