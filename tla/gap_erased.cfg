SPECIFICATION Spec
CONSTANTS
  Quotes = {q1}
  Routes = {r1, r2}
  Calls = {c1, c2}
  Refunds = {}
  Wanted <- ToUsd
  StripeApi = FALSE
  StubsAllowed = TRUE
  ChainRequired = FALSE
  Opening = 1
  MaxUpsets = 0
  None = None
SYMMETRY Slots
INVARIANTS ReconciledIsPaid
CHECK_DEADLOCK FALSE
