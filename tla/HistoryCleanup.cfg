SPECIFICATION Spec
CONSTANTS
  b1 = b1
  b2 = b2
  b3 = b3
  Batches = {b1, b2, b3}
  TypeOf <- AllBatches
  Outcomes = {"succeeded"}
  Rank <- ByName
  Workers = {w1, w2}
  Limit = 1
  MinAge = 0
  Period = 1
  Restartable = {b2}
  MaxLag = 0
  MaxTime = 2
SYMMETRY WorkerSymmetry
INVARIANT TypeOK
INVARIANT HistoryKept
PROPERTY OnlyOldHistoryDeleted
PROPERTY OldestFirst
PROPERTY ExcessRemoved
