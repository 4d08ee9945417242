\* Three processes, single records and a batch, one fault; histories of one transaction.
SPECIFICATION EventLedgerSpec
CONSTANTS
  p1 = p1
  p2 = p2
  p3 = p3
  x = x
  y = y
  z = z
  NoProc = NoProc
  Procs = {p1, p2, p3}
  Ids = {x, y, z}
  Batches <- MCBatches
  Stalls = TRUE
  MaxRecords = 2
  MaxFaults = 1
  MaxLegal = 6
  MaxAny = 3
  Histories <- MCHistories
INVARIANTS
  Exclusive
  ChainKept
  MachineSound
PROPERTIES
  DeadLockRecovered
  LegalHistoryApplied
\* Every process but one may die; a history ends.
CHECK_DEADLOCK FALSE
