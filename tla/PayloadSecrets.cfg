SPECIFICATION Spec
CONSTANTS
  Batches = {b1, b2}
  Collectors = {c1, c2}
  MaxSecrets = 1
  Grace = 3
  CreateTime = 1
  GCTime = 1
  MaxTime = 4
SYMMETRY Symmetry
INVARIANT TypeOK
INVARIANT CreatedBatchHasItsPayload
INVARIANT CreationKeepsItsSecrets
INVARIANT LostOnlyWithItsOwner
INVARIANT IndInv
PROPERTY GCLeavesNoOldOrphan
