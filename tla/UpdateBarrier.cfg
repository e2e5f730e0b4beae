SPECIFICATION FairSpec
CONSTANTS
  Proc = {p1, p2}
  MaxMutations = 2
INVARIANTS
  TypeOK
  OwnWritesDrained
  WritesExcluded
  OneUpdater
  RunningMutationIsMarked
PROPERTIES
  UpdateSettles
  OrphanClears
CHECK_DEADLOCK FALSE
