CONSTANTS
  w1 = w1
  w2 = w2
  c1 = c1
  c2 = c2
  r1 = r1
  Writer <- TwoWriters
  Compactor <- OneCompactor
  Reader <- OneReader
  Nobody = Nobody
  Keep = 1
  Trigger = 3
  Cap = 4
  Before = 4
  MaxEvents = 6
  MaxFaults = 1
SPECIFICATION Spec
SYMMETRY Symmetry
INVARIANTS TypeOK QuietQueryComplete SummariesIndexed OneMoverWhileFresh
PROPERTY ImplementsEventLog
CHECK_DEADLOCK FALSE
