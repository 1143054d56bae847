\* An ingest and a reindex, two models and a change of the image; one failure.
CONSTANTS
  a = a
  b = b
  Game = {a, b}
  old = old
  new = new
  Model = {old, new}
  nightly = nightly
  manual = manual
  Job = {nightly, manual}
  Kind <- OneEach
  None = None
  Capacity = 2
  MaxDeploys = 1
  MaxFailures = 1
SPECIFICATION FairSpec
INVARIANTS
  TypeOK
  
PROPERTIES
  ReindexIsWhole
  IndexIsLevelled
