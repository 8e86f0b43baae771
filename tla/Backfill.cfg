\* Two executions that may overlap, a grain of two days and a blocked one, in
\* two lanes, two releases of the adapter and one fault.
SPECIFICATION Spec
CONSTANTS
    g1 = g1  g2 = g2
    Executions = {e1, e2}
    Grains = {g1, g2}
    Order <- TwoGrains
    Blocked = {g2}
    Days <- TwoDaysOfOne
    Lanes = 2
    MaxAttempts = 2
    MaxOrdinal = 2
    Prints = {f1, f2}
    MaxFaults = 1
    MayOverlap = TRUE
    None = None
SYMMETRY Interchangeable
INVARIANTS BackfillSafety OrdinalsAreFresh
PROPERTIES SuccessIsKept
CHECK_DEADLOCK FALSE
