SPECIFICATION FairSpec
CONSTANTS
  alice = alice
  bob = bob
  alice0 = alice0
  bob0 = bob0
  Users = {alice, bob}
  Requests = {r1}
  Intents = {i1}
  Commitments = {alice0, bob0, c1, c2}
  Genesis <- MCGenesis
  PolicyEdits = {}
  MaxSettles = 1
  MaxFailed = 1
  MaxCrashes = 2
  MaxReconciles = 1
  Registered = Registered
  None = None
PROPERTIES EveryPaymentEnds RevokedIsNotAuthorized
CHECK_DEADLOCK FALSE
