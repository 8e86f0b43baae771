\* Two executions, one page grain of up to two pages, one statistic, two faults.
SPECIFICATION Spec
CONSTANTS
    page = page  statistic = statistic
    Executions = {e1, e2}
    Grains <- TheGrains
    Statistics = {statistic}
    Plan <- ThePlan
    CloseOrder <- ThePlan
    MaxPages = 2
    MaxFaults = 2
    NoExecution = NoExecution
SYMMETRY Interchangeable
INVARIANTS CandidateIsProven CollectionSafety
PROPERTIES EndedIsFinal
CHECK_DEADLOCK FALSE
