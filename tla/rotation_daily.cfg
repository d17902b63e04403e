\* Start, stop, restarts, one failure, one client, two rotations.
SPECIFICATION FairSpec
CONSTANTS
  k1 = k1
  k2 = k2
  r1 = r1
  r2 = r2
  c = c
  Docs = {k1, k2}
  Stored = {k1}
  Rotators = {r1, r2}
  Clients = {c}
  MaxKeys = 3
  MaxWrites = 1
  MaxFaults = 1
  MaxStops = 1
  Crashes = TRUE
INVARIANTS SettledReadable DocsSurvive OneRotator
PROPERTIES AgedKeyReplaced
