\* A writer, a lazily deleting reader and the scavenger, with TTLs; one
\* statement raises.
SPECIFICATION FairSpec
CONSTANTS
  k1 = k1
  k2 = k2
  v1 = v1
  v2 = v2
  a = a
  b = b
  s = s
  NoDoc = NoDoc
  Keys = {k1, k2}
  Values = {v1, v2}
  Plain = {v2}
  Threads = {a, b, s}
  Work <- TtlWork
  Ttls <- SomeTtls
  MaxOps <- TtlOps
  MaxTime = 2
  MaxFaults = 1
  Crashes = FALSE
INVARIANTS IndexMatchesRow
PROPERTIES OnlyDeletesRemoveLiveRows ExpiredRowsGo
