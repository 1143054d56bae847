\* One pod scheduled for ever, one game per batch, every second batch snapshotted.
CONSTANTS
  nightly = nightly
  manual = manual
  Run = {nightly}
  NoRun = NoRun
  Appid = {1, 2}
  BatchSize = 1
  MaxUpdates = 1
  SnapshotEvery = 2
  LeaseMode = "kept"
  MaxFailures = 2
SPECIFICATION Spec
INVARIANTS
  VectorsHaveDocuments
  UsableNamesHaveDocuments
  ClaimsAreExplained
PROPERTIES
  DocumentsNeverLost
  CompleteIsSnapshotted
  ClaimsNeverShrink
  CheckpointsCatchUp
