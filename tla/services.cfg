SPECIFICATION MCServicesSpec
CONSTANTS
  m1 = m1
  m2 = m2
  i1 = i1
  i2 = i2
  i3 = i3
  h1 = h1
  h2 = h2
  c1 = c1
  c2 = c2
  Merchants = {m1, m2}
  Intents = {i1, i2, i3}
  MerchantOf <- MCMerchantOf
  OverLimit = {i3}
  Challenges = {h1, h2}
  Calls = {c1, c2}
  MaxCrashes = 1
  None = None
  Kinds = {"payment", "session", "lock"}
  Roots = {r1, r2}
  Leaves = {l1}
  ZkRequired = TRUE
  Orders = {o1}
  Payments = {p1, p2}
  Credits = {k1, k2}
  Others = {x1}
  Quotes = {q1}
  Routes = {t1, t2}
  Refunds = {f1, f2}
  Wanted <- CardsAndStubs
  ChainRequired = TRUE
  Opening = 1
  Tokens = {t1}
  Transfers = {e1}
  Decoys = {d1}
  Accounts = {a1}
  MaxKeys = 2
INVARIANTS TypeOK OtherTypes ContractHolds AuthorizationIsEarned MoneyFollowsPayments DeskHolds
PROPERTIES EveryCallEnds InboundHolds TimersMoveOn
CHECK_DEADLOCK FALSE
