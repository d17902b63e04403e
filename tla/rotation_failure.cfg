\* One statement of one rotation raises.
SPECIFICATION Spec
CONSTANTS
  k1 = k1
  k2 = k2
  r1 = r1
  r2 = r2
  c = c
  Docs = {k1, k2}
  Stored = {}
  Rotators = {r1}
  Clients = {c}
  MaxKeys = 2
  MaxWrites = 2
  MaxFaults = 1
  MaxStops = 0
  Crashes = FALSE
INVARIANTS KeyNeverLost
