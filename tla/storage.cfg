SPECIFICATION MCSpec
CONSTANTS
  p1 = p1
  p2 = p2
  a1 = a1
  a2 = a2
  b1 = b1
  u1 = u1
  s1 = s1
  Process = {p1, p2}
  Call = {a1, a2, b1}
  Undo = {u1}
  ProcessOf <- Mine
  Parts = 2
  Overlap = FALSE
  Fails = TRUE
  Crashes = TRUE
  BusyRetries = 1
CHECK_DEADLOCK FALSE
INVARIANTS PartsTypeOK TxnsHold RowsConsistent OpenedOnce HistoriesHold
PROPERTIES TxnsAtomic StoreSteps FilesSteps WorkEnds
