SPECIFICATION MCClientSpec
CONSTANTS
  Tabs = {t1, t2}
  Payments = {p1, p2}
  TopUps = {f1}
  Refunds = {r1}
  Opening = 1
  None = None
  Amounts = {1, 2}
  Limit = 2
  Names = {n1, n2}
  Blank = "blank"
  Known = {}
  Persons = {w1, w2}
  Called <- MCCalled
  Cleared = {w1}
  BrandOf <- MCBrandOf
  MaxBegun = 2
  MaxGuides = 2
  MaxPays = 2
  MaxTampers = 1
  Accounts = {u1, u2}
  MaxLoads = 2
  Commands = {k1, k2}
  t1 = t1
  t2 = t2
  p1 = p1
  p2 = p2
  n1 = n1
  n2 = n2
  w1 = w1
  w2 = w2
INVARIANTS ClientTypes PaymentsAreKept AcceptedIsGated TellsTheTruth ViewHasAccount
PROPERTIES WalletSettles
CHECK_DEADLOCK FALSE
