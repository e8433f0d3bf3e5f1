SPECIFICATION Spec
CONSTANTS
  None = None
  Requests <- DescriptionRequests
  MaxJobs = 3
  MaxSize = 7
  Aux = 1
  EntryAux = 1
  Batch = Batch
INVARIANT OwnLimitWins
CHECK_DEADLOCK FALSE
