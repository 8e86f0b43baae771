\* One stored notification, two that may arrive, three identity values; the
\* operator waits for open writers before a run.
SPECIFICATION CutoverSpec
CONSTANTS
    Notes = {n1, n2, n3}
    First = n1
    MaxId = 3
    Drained = TRUE
    None = None
SYMMETRY Interchangeable
INVARIANTS CutoverSafety
PROPERTIES ReceiptsAreKept OnlyTheApprovedPlan
CHECK_DEADLOCK FALSE
