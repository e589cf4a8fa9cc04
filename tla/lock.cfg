SPECIFICATION FairSpec
CONSTANTS
  p1 = p1
  p2 = p2
  p3 = p3
  Proc <- Three
  NoProc = NoProc
  MaxCalls = 1
  PidsReused = TRUE
INVARIANTS TypeOK MutationExclusion
PROPERTIES LiveLockNotStolen ImplementsCrashLock CallsReturn
CHECK_DEADLOCK FALSE
