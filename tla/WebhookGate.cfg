\* Two authorization changes of one store race probes and reopening, and
\* every stored push resolves.
SPECIFICATION FairSpec
CONSTANTS
    p1 = p1
    p2 = p2
    s1 = s1
    Pushes = {p1, p2}
    Windows = {1}
    Family <- TwoAuthorizations
    Stores = {s1}
    StoreOf <- SameStore
    Requests = {r1}
    Workers = {w1}
    NoStore = NoStore
    NoWorker = NoWorker
    NoKey = NoKey
    MaxAttempts = 2
    MaxDeliveries <- EachOnce
    MaxReplays = 0
    MaxClock = 3
INVARIANTS GateNeedsNewerProbe
PROPERTIES EventuallyResolved
CHECK_DEADLOCK FALSE
