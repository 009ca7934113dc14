SPECIFICATION LedgersSpec
CONSTANTS
  alice = alice
  alice0 = alice0
  ra = ra
  rb = rb
  ca = ca
  cb = cb
  cc = cc
  Users = {alice}
  Requests = {ra, rb}
  Intents = {i1, i2}
  Commitments = {alice0, ca, cb, cc}
  Genesis <- MCGenesis
  PolicyEdits = {e1}
  MaxSettles = 1
  MaxFailed = 1
  MaxCrashes = 1
  MaxReconciles = 0
  PoolUsers = {ra, rb}
  PoolRequests = {ca, cb, cc}
  Deliveries = {d1, d2, d3}
  Seed = 2
  Deposits = {1}
  LoanSizes = {2}
  Collaterals = {3}
  Terms = {2}
  Grace = 1
  Gated = TRUE
  Registered = Registered
  None = None
SYMMETRY Slots
INVARIANTS SingleSpend VelocityCap TipUnspent PoolHolds
PROPERTIES AppliesToItsWitness ImplementsLedger LoanEndsOnce
CHECK_DEADLOCK FALSE
