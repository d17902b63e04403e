\* One transaction of two writes whose commit raises halfway.
SPECIFICATION Spec
CONSTANTS
  k1 = k1
  k2 = k2
  a = a
  b = b
  Keys = {k1, k2}
  Threads = {a}
  Deletable = {}
  MaxWrites = 2
  MaxCalls = 1
  MaxFaults = 1
INVARIANTS RaisedCommitsLeaveNothing
