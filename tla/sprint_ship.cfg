SPECIFICATION Spec
CONSTANTS
    Worker = {w1, w2}
    Child = full
    MaxTickets = 1
    MaxReleases = 2
    Suffixes = 1
    NewStatus = {"done"}
    Reported = {}
    Shipping = {"report", "approve", "deploy"}
    ByHand = {}
    MaxMishaps = 1
    Mode = {"solo"}
SYMMETRY Workers
INVARIANTS OneReleaseUnlessStrayed DeployedWasApproved
CHECK_DEADLOCK FALSE
