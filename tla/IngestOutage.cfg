\* A filtered game passes the floor on the night Steam does not answer for it.
CONSTANTS
  nightly = nightly
  manual = manual
  Run = {nightly}
  NoRun = NoRun
  Appid = {1}
  BatchSize = 1
  MaxUpdates = 1
  SnapshotEvery = 1
  LeaseMode = "kept"
  MaxFailures = 0
SPECIFICATION Spec
INVARIANT OutageIsNoVerdict
