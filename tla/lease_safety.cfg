SPECIFICATION Spec
CONSTANTS
  p1 = p1
  p2 = p2
  p3 = p3
  Proc <- Three
  NoProc = NoProc
  MaxClaims = 3
  PidsReused = TRUE
SYMMETRY Symmetry
INVARIANTS TypeOK TokensNeverReused NewestClaimHolds
PROPERTIES LiveLeaseNotStolen ImplementsFencedLease
CHECK_DEADLOCK FALSE
