CONSTANTS
  p1 = p1
  p2 = p2
  p3 = p3
  Proc <- Two
  Dispatcher <- Two
  Sweeper = {p2}
  Cap = 1
  MaxFiles = 2
SPECIFICATION FairSpec
INVARIANTS TypeOK CapRespected
PROPERTIES LiveSlotNotStolen CallsReturn
CHECK_DEADLOCK FALSE
