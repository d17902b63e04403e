\* Two threads of the application share a database of one document.
SPECIFICATION Spec
CONSTANTS
  a = a
  b = b
  k = k
  Keys = {k}
  Threads = {a, b}
  Clients = {a}
  Retention = 1
  MaxTime = 2
  MaxWrites = 2
  MaxCalls = 3
  MaxFaults = 1
INVARIANTS KeptUntilRestored RowsReadable RestartSeesRestore
PROPERTIES UploadIsSnapshot NewestKept RestoreInstalls SafetyCopyWhole
