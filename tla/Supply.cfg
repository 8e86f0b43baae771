SPECIFICATION Spec
CONSTANTS
    r1 = r1
    r2 = r2
    s1 = s1
    Runs = {r1, r2}
    Requests <- MCRequests
    Skus = {s1}
    MaxTime = 4
    LiveMaxAge = 2
    StartedTimeout = 1
    MaxUpsets = 1
    MaxFaults = 1
    MayOverlap = TRUE
SYMMETRY Symmetry
CHECK_DEADLOCK FALSE
INVARIANTS DocumentSafety LedgerSafety DashboardSafety
PROPERTIES
    NothingGoesBack
