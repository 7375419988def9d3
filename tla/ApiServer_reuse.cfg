SPECIFICATION ServerSpec
CONSTANTS
  Tabs = {r1, r2}
  Tries = {a1}
  MaxFailures = 2
  Window = 1
  MaxTokens = 3
  Calls = {c1}
  Reports = {p1}
  MaxRefs = 1
  MaxQueue = 1
  MaxWire = 1
INVARIANT ReuseEndsFamily
CHECK_DEADLOCK FALSE
