\* One pod, two games and one refresh a night, so that every other document has to wait; one failure.
CONSTANTS
  nightly = nightly
  manual = manual
  Run = {nightly}
  NoRun = NoRun
  Appid = {1, 2}
  BatchSize = 2
  MaxUpdates = 1
  SnapshotEvery = 1
  LeaseMode = "kept"
  MaxFailures = 1
SPECIFICATION FairSpec
PROPERTY RotationComesRound
