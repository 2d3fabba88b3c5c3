CONSTANTS
  Proc = {p1, p2, p3}
  Nobody = Nobody
SPECIFICATION FairSpec
INVARIANTS
  PrimaryIsReached
  LaunchesSound
PROPERTIES
  LockHolderServes
  LaunchesSettle
