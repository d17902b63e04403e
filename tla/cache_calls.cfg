\* With and without write-behind, L1 of one entry, one failing statement.
SPECIFICATION CSpec
CONSTANTS
  k1 = k1
  k2 = k2
  a = a
  b = b
  w = w
  Keys = {k1, k2}
  Clients = {a, b}
  Worker = w
  MaxBatch = 2
  MaxWrites = 2
  MaxCalls = 3
  MaxFaults = 1
  Uses <- SharedUses
  MaxL1 = 1
  Modes = {TRUE, FALSE}
INVARIANTS CallsReachL2
PROPERTIES ReadsSeeLastWrite
