SPECIFICATION Spec
CONSTANTS
  p1 = p1
  p2 = p2
  p3 = p3
  Proc <- Three
  NoProc = NoProc
  MaxCalls = 1
  PidsReused = FALSE
PROPERTIES DeadOwnerIsReclaimed
CHECK_DEADLOCK FALSE
