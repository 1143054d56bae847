\* Two generations, one of which may be pruned; one failure, one save.
CONSTANTS
  game = game
  Game = {game}
  Newest = 2
  Retain = 1
  Uploads <- SomeUploads
  MaxSaves = 1
  MaxFailures = 1
SPECIFICATION FairSpec
INVARIANTS
  TypeOK
  ClaimsAreHeldUnlessTorn
PROPERTIES
  SnapshotIsDescribed
  LogsAreKept
  MinDBComesBack
\* A MinDB that is up may stay so.
CHECK_DEADLOCK FALSE
