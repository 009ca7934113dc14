SPECIFICATION Spec
CONSTANTS
  Tabs = {t1}
  Payments = {p1}
  TopUps = {f1}
  Refunds = {r1}
  Opening = 1
  None = None
INVARIANTS BurnedStaysBurned
CHECK_DEADLOCK FALSE
