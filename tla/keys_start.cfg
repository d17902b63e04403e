\* Two threads of the application and the CLI, a first start or an older database.
SPECIFICATION Spec
CONSTANTS
  app = app
  cli = cli
  a = a
  b = b
  c = c
  d = d
  Procs = {app, cli}
  Threads = {a, b, c}
  Home <- HomeOf
  Work <- WorkOf
  Docs = {d}
  MaxKeys = 2
  MaxWrites = 2
  MaxRestarts = 1
INVARIANTS RowKeysKept CiphersAgree RowsUnderKeyInForce ReadsOpen AuditSound IndexUnderRowKey
