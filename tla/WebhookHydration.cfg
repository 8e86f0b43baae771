\* The timer's runner and an operator's, two directives of one store or of two.
SPECIFICATION FairSpec
CONSTANTS
    d1 = d1
    d2 = d2
    s1 = s1
    s2 = s2
    o1 = o1
    o2 = o2
    v1 = v1
    Directives = {d1, d2}
    Stores = {s1, s2}
    StoresOf <- OneStoreOrTwo
    Supported = {d1, d2}
    Docs = {o1, o2, v1}
    Domains = {"purchase-orders", "deliveries"}
    DomainOf <- OrdersAndDeliveries
    KeysOf <- EachItsOwn
    Strays = {}
    Runners = {r1, r2}
    NoRunner = NoRunner
    MaxAttempts = 2
    BatchLimit = 2
    MaxBatches = 1
INVARIANTS HydrationSafety
PROPERTIES LeasesFence EventuallySettled
CHECK_DEADLOCK FALSE
