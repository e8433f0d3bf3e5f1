SPECIFICATION Spec
CONSTANTS
  None = None
  Requests <- PayloadRequests
  MaxJobs = 3
  MaxSize = 7
  Aux = 1
  EntryAux = 1
  Batch = Batch
INVARIANT SecretsFit
CHECK_DEADLOCK FALSE
