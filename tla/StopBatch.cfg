SPECIFICATION Spec
CONSTANTS
  big = big
  single = single
  b1 = b1
  b2 = b2
  j1 = j1
  j2 = j2
  Batches = {big, single}
  Jobs = {j1, j2}
  JobsOf <- MixedJobsOf
  TypeOf <- MixedTypeOf
  AskedFor <- Ops
  Requests = {r1}
  Restarters = {q1}
  NoName = NoName
  Attempts = 2
  MaxVersion = 1
  OperatorPhases = {"Active", "Failed"}
  OperatorConditions = {"Active", "Completed"}
CHECK_DEADLOCK FALSE
PROPERTIES
  ImplementsAtomicStop
  NoWriteUndone
