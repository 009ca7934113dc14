SPECIFICATION MCPaymentsSpec
CONSTANTS
  alice = alice
  alice0 = alice0
  slot1 = slot1
  slot2 = slot2
  id1 = id1
  id2 = id2
  Users = {alice}
  Requests = {slot1, slot2}
  Intents = {id1, id2}
  Commitments = {alice0, c1, c2}
  Genesis <- MCGenesis
  PolicyEdits = {}
  MaxSettles = 2
  MaxFailed = 2
  MaxCrashes = 1
  MaxReconciles = 1
  Registered = Registered
  Quotes = {q1}
  Routes = {t1}
  Calls = {slot1, slot2}
  Refunds = {id1, id2}
  Wanted <- ToUsd
  StubsAllowed = FALSE
  ChainRequired = TRUE
  Opening = 1
  MaxUpsets = 0
  None = None
SYMMETRY Slots
INVARIANTS TypeOK IntentSettlesOnce AccountsHold RecordMatchesLedger RefundsHold
PROPERTIES FailureIsFinal
CHECK_DEADLOCK FALSE
