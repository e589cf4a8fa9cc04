SPECIFICATION Spec
CONSTANTS
  p1 = p1
  p2 = p2
  c0 = c0
  m1 = m1
  m2 = m2
  m12 = m12
  Controller <- Two
  NoController = NoController
  Commit <- Commits
  NoCommit = NoCommit
  Root = c0
  FirstParent <- FirstParents
  Descends <- Lineage
  MaxClaims = 1
  MaxFallbacks = 1
SYMMETRY Symmetry
INVARIANTS TypeOK FallbacksCounted
PROPERTIES NothingLost OnlyVerified OneTenure NoOrdinaryMove
CHECK_DEADLOCK FALSE
