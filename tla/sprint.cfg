SPECIFICATION Spec
CONSTANTS
    Worker = {w1}
    Child = full
    MaxTickets = 2
    MaxReleases = 1
    Suffixes = 1
    NewStatus = {"ready_for_execution"}
    Reported = {"done"}
    Shipping = {}
    ByHand = {"touch"}
    MaxMishaps = 1
    Mode = {"adhoc"}
INVARIANTS TypeOK BetaBeforePhase BoardHasItsFiles QuietBoardAgrees
CHECK_DEADLOCK FALSE
