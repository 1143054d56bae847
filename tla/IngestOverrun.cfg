\* A live run lets its lease expire, and loses it to another.
CONSTANTS
  nightly = nightly
  manual = manual
  Run = {nightly, manual}
  NoRun = NoRun
  Appid = {1}
  BatchSize = 1
  MaxUpdates = 1
  SnapshotEvery = 1
  LeaseMode = "overrun"
  MaxFailures = 0
SPECIFICATION Spec
INVARIANT DocumentsReachTheIndex
