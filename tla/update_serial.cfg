CONSTANTS
  d1 = d1
  d2 = d2
  Dest <- Files
  MaxTx = 2
  Absent = Absent
  Torn = Torn
  NoTx = NoTx
  Serial = TRUE
SPECIFICATION Spec
INVARIANTS TypeOK Recoverable
PROPERTIES RolledBackUnlessTorn CommittedIsInstalled
CHECK_DEADLOCK FALSE
