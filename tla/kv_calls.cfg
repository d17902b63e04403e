\* Two clients, no TTL, one raising statement and crashes at any statement.
SPECIFICATION Spec
CONSTANTS
  k1 = k1
  k2 = k2
  v1 = v1
  v2 = v2
  a = a
  b = b
  s = s
  NoDoc = NoDoc
  Keys = {k1, k2}
  Values = {v1, v2}
  Plain = {v2}
  Threads = {a, b}
  Work <- CallsWork
  Ttls <- NoTtls
  MaxOps <- CallsOps
  MaxTime = 1
  MaxFaults = 1
  Crashes = TRUE
SYMMETRY Clients
INVARIANTS TypeOK FilterCoversLiveRows
PROPERTIES ImplementsAbstractKv NoLostUpdate
