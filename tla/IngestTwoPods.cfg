\* Two pods kept apart by the lease, each reading the checkpoint before it has it.
CONSTANTS
  nightly = nightly
  manual = manual
  Run = {nightly, manual}
  NoRun = NoRun
  Appid = {1}
  BatchSize = 1
  MaxUpdates = 1
  SnapshotEvery = 1
  LeaseMode = "kept"
  MaxFailures = 2
SPECIFICATION Spec
INVARIANT IngestInv
