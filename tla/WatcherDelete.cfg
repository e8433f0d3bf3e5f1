SPECIFICATION FairSpec
CONSTANTS
  Batches = {b1}
  Jobs = {j1}
  Phases = {"none", "Active"}
  Conditions = {"Active"}
  MaxVersion = 2
  MaxRelists = 1
  MaxCrashes = 0
  None = None
CHECK_DEADLOCK FALSE
PROPERTY DeleteTold
