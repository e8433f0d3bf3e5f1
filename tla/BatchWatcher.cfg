SPECIFICATION FairSpec
CONSTANTS
  Batches = {b1}
  Jobs = {j1, j2}
  Phases = {"none", "Active"}
  Conditions = {"Active", "Completed"}
  MaxVersion = 3
  MaxRelists = 2
  MaxCrashes = 1
  None = None
CHECK_DEADLOCK FALSE
INVARIANT TypeOK
INVARIANT AtMostOneCreate
INVARIANT ToldFollowsStore
INVARIANT ToldOnceDelivered
PROPERTY LastStatusTold
