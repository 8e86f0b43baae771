\* Three plans, two stores, two faults of any kind.
SPECIFICATION FairSpec
CONSTANTS
    home = home
    sales = sales
    supply = supply
    renewal = renewal
    recovery = recovery
    finalRenewal = finalRenewal
    finalRecovery = finalRecovery
    validation = validation
    NoStage = NoStage
    Stages = {home, sales, supply, renewal, recovery, finalRenewal,
              finalRecovery, validation}
    Stores = {t1, t2}
    Plans <- ThreePlans
    Kind <- StageKind
    Earlier <- StageEarlier
    After <- StageAfter
    MaxFaults = 2
INVARIANTS CoordinatorSafety
PROPERTIES CompleteIsFinal ResumableToTheEnd
CHECK_DEADLOCK FALSE
