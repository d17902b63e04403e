\* Two callers, two faults (a kill, or a statement or file operation that raises),
\* evictions and expiry.
SPECIFICATION Spec
CONSTANTS
  a = a
  b = b
  Threads = {a, b}
  MaxSaves = 3
  MaxCalls = 3
  MaxFaults = 2
SYMMETRY Callers
INVARIANTS FileWhole FileFollowsRow
PROPERTIES LoadSeesLastSave
