SPECIFICATION FairSpec
CONSTANTS
  big = big
  single = single
  b1 = b1
  b2 = b2
  j1 = j1
  j2 = j2
  Batches = {b1, b2}
  Jobs = {j1}
  JobsOf <- TwoJobsOf
  TypeOf <- TwoTypeOf
  AskedFor <- BothOps
  Requests = {r1, r2}
  Restarters = {}
  NoName = NoName
  Attempts = 2
  MaxVersion = 1
  OperatorPhases = {"Failed"}
  OperatorConditions = {"Completed"}
CHECK_DEADLOCK FALSE
INVARIANT TypeOK
PROPERTY ImplementsAtomicStop
PROPERTY StepsRunOut
PROPERTY EveryRequestAnswered
