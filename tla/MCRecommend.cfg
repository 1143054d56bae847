\* Two overlapping asks, three games, a page of one, one rewrite of names.json.
CONSTANTS
  a = a
  b = b
  d = d
  Game = {a, b, d}
  NoSeed = NoSeed
  Call = {1, 2}
  Queries <- SomeQueries
  Libraries <- SomeLibraries
  UsableIn <- SomeVersions
  TopK = 1
  Headroom = 2
  MaxChanges = 1
  MaxRetries = 1
SPECIFICATION Spec
\* The two asks are all there are.
CHECK_DEADLOCK FALSE
INVARIANTS
  TypeOK
  NamesFollowTheFile
PROPERTIES
  NothingUnwanted
  PageFills
  EverySubmitSettles
