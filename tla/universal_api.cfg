SPECIFICATION FairSpec
CONSTANTS
  Quotes = {q1}
  Routes = {r1}
  Calls = {c1, c2}
  Refunds = {}
  Wanted <- CircleAndStubs
  StripeApi = TRUE
  StubsAllowed = FALSE
  ChainRequired = TRUE
  Opening = 1
  MaxUpsets = 1
  None = None
INVARIANTS TypeOK OneChargePerRoute
PROPERTIES PaymentReconciles
CHECK_DEADLOCK FALSE
