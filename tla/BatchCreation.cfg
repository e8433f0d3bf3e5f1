SPECIFICATION Spec
CONSTANTS
  None = None
  Requests <- AllRequests
  MaxJobs = 5
  MaxSize = 7
  Aux = 1
  EntryAux = 1
  Batch = Batch
INVARIANTS
  TypeOK
  ConfiguredAlone
  OwnSettingsWin
  EveryPayloadPlaced
  OnlyLoneEntriesOversize
  NoSecretBegunInVain
PROPERTIES
  ImplementsPayloadSecrets
CHECK_DEADLOCK FALSE
