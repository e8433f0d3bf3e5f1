SPECIFICATION Spec
CONSTANTS
  Batches = {b1, b2}
  Collectors = {c1}
  MaxSecrets = 1
  Grace = 3
  CreateTime = 1
  GCTime = 1
  MaxTime = 4
SYMMETRY Symmetry
PROPERTY OnlyOrphansDeleted
