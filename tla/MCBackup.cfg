\* A sidecar beside an ingest and a MinDB that saves and restarts.
CONSTANTS
  game = game
  Game = {game}
  Retain = 1
  MaxSaves = 2
  MaxFailures = 2
SPECIFICATION FairSpec
INVARIANTS
  MarkedIsWhole
  QuietMeansBackedUp
PROPERTIES
  BackupsAreGenerations
  VectorsAreBackedUp
