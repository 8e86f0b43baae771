\* Concurrent deliveries, leasing, settling and replay of two pushes.
SPECIFICATION Spec
CONSTANTS
    p1 = p1
    p2 = p2
    s1 = s1
    Pushes = {p1, p2}
    Windows = {1}
    Family <- OrderAndUnknown
    Stores = {s1}
    StoreOf <- StoreAndApp
    Requests = {r1, r2}
    Workers = {w1, w2}
    NoStore = NoStore
    NoWorker = NoWorker
    NoKey = NoKey
    MaxAttempts = 2
    MaxDeliveries <- OrderTwice
    MaxReplays = 1
    MaxClock = 0
SYMMETRY Symmetry
INVARIANTS TypeOK AtMostOneEffect AcksAreDurable SettledAtomically
PROPERTIES Fencing ImplementsInbox
CHECK_DEADLOCK FALSE
