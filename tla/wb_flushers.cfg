\* Two clients that queue, fill the queue, flush and close; one statement fails
\* or a document is skipped.
SPECIFICATION FairSpec
CONSTANTS
  k1 = k1
  k2 = k2
  a = a
  b = b
  w = w
  Keys = {k1, k2}
  Clients = {a, b}
  Worker = w
  MaxBatch = 2
  MaxWrites = 3
  MaxCalls = 1
  MaxFaults = 1
INVARIANTS TypeOK NothingDropped LastWriteWins
PROPERTIES EveryWriteLands
