CONSTANTS
  d1 = d1
  d2 = d2
  Dest <- Files
  MaxTx = 2
  Absent = Absent
  Torn = Torn
  NoTx = NoTx
  Serial = FALSE
SPECIFICATION Spec
INVARIANT OneUpdate
CHECK_DEADLOCK FALSE
