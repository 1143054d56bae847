\* Restart in place against a rival: two attempts of one owner, one other run.
CONSTANTS
  r1 = r1
  r2 = r2
  r3 = r3
  Run = {r1, r2, r3}
  OwnerName = {"nightly", "fill", "manual"}
  Owner <- MCOwner
  Absent = Absent
  NoRun = NoRun
  Ttl = 1
  MaxTime = 3
SPECIFICATION FairSpec
INVARIANT TypeOK
PROPERTIES
  OnlyCompetitorsBlock
  LeaseIsALock
  AbandonedLeaseIsTaken
\* Every process runs once and the clock is bounded: the model does stop.
CHECK_DEADLOCK FALSE
