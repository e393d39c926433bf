SPECIFICATION MCFairSpec
CONSTANTS
  Trees = {healthy, sick}
  Sick = {sick}
  Keep = 1
  MaxCommits = 3
  MaxRollbacks = 1
  MaxInterrupts = 1
  Runs = {launchd, operator}
  Dead = Dead
  Empty = Empty
  MaxCrashes = 1
  AutoRun = launchd
  MaxManual = 1
INVARIANTS
  FailedIsNotRetried
  InUseIsOnDisk
  LockHolds
PROPERTY FollowsMain
CHECK_DEADLOCK FALSE
