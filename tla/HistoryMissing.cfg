SPECIFICATION Spec
CONSTANTS
  b1 = b1
  b2 = b2
  b3 = b3
  Batches = {b1, b2, b3}
  TypeOf <- AllBatches
  Outcomes = {"succeeded", "notSucceeded"}
  Rank <- ByName
  Workers = {w1}
  Limit = 1
  MinAge = 1
  Period = 1
  Restartable = {}
  MaxLag = 0
  MaxTime = 3
SYMMETRY WorkerSymmetry
PROPERTY MissingBatchIgnored
