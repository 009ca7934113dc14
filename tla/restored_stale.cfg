SPECIFICATION Spec
CONSTANTS
  Devices = {d1, d2}
  Durable = {d1}
  Holders = {h1, h2}
  Strangers = {s1}
  Threshold = 2
  MaxVersions = 2
  None = None
INVARIANTS RestoredIsCurrent
CHECK_DEADLOCK FALSE
