SPECIFICATION MCSupportSpec
CONSTANTS
  m1 = m1
  m2 = m2
  a1 = a1
  a2 = a2
  b1 = b1
  d1 = d1
  d2 = d2
  Merchants = {m1, m2}
  BrandOf <- MCBrandOf
  AddressesOf <- MCAddressesOf
  Addresses = {a1, a2}
  Nonces = {k1, k2, k3}
  AutoProve = TRUE
  DurableKek = FALSE
  MaxStarts = 2
  Calls = {c1, c2, c3}
  Names = {u1, u2}
  Documents = {d1}
  Jurisdictions = {j1, j2}
  Domestic = j1
  SessionNonces = {n1}
  Intents = {i1}
  MaxIssuances = 2
  Broadcasts = {x1, x2}
  Required = {x2}
  AllowFallback = TRUE
  Devices = {d1, d2}
  Durable = {d1}
  Holders = {h1, h2}
  Strangers = {s1}
  Threshold = 2
  MaxVersions = 2
  Payments = {p1, p2}
  Clicks = {c1, c2}
  Opening = 2
  MaxSeals = 2
  None = None
INVARIANTS PartTypes RegistryAgrees MerchantsHold IdentityHolds SubmittedIsOnChain RecoveryHolds DisputesHold
CHECK_DEADLOCK FALSE
