SPECIFICATION Spec
CONSTANTS
  alice = alice
  bob = bob
  alice0 = alice0
  bob0 = bob0
  Users = {alice}
  Requests = {r1, r2}
  Intents = {i1, i2}
  Commitments = {alice0, c1, c2}
  Genesis <- MCGenesis
  PolicyEdits = {}
  MaxSettles = 2
  MaxFailed = 1
  MaxCrashes = 0
  MaxReconciles = 0
  Registered = Registered
  None = None
SYMMETRY Slots
INVARIANTS NoDoubleSpend
CHECK_DEADLOCK FALSE
