SPECIFICATION Spec
CONSTANTS
  batch = batch
  Batch = Batch
  x = x
  y = y
  j1 = j1
  j2 = j2
  None = None
  Empty = Empty
  Lower <- LowerCase
  Words <- AllWords
  BatchNames <- TwoBatches
  JobNames = {j1, j2}
  Loose <- LooseNames
  LooseParts <- LooseEnds
  Reported <- Statuses
  Conditions = {"Completed"}
  MaxJobs = 3
  Rules <- MixedRules
SYMMETRY Alike
INVARIANTS
  TypeOK
  ListedCanBeFound
  StopIsReported
  FirstRuleDecides
PROPERTIES
  StopsWhatIsNamed
  DeleteJobDeletesItAlone
