SPECIFICATION LockSpec
CONSTANTS
  Runs = {launchd, operator}
  Dead = Dead
  Empty = Empty
  MaxCrashes = 0
INVARIANT MutualExclusion
