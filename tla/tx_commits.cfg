\* Two threads, a counter that is never deleted and a key that may be.
SPECIFICATION Spec
CONSTANTS
  k1 = k1
  k2 = k2
  a = a
  b = b
  Keys = {k1, k2}
  Threads = {a, b}
  Deletable = {k2}
  MaxWrites = 3
  MaxCalls = 3
  MaxFaults = 1
SYMMETRY Interchangeable
INVARIANTS RejectedLeavesNothing CommittedAgree
PROPERTIES StaleChangesRejected
