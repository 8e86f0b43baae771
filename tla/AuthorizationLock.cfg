\* Three finalizers, one of which dies with the lock.
SPECIFICATION Spec
CONSTANTS
    s1 = s1  s2 = s2  p1 = p1  p2 = p2  k1 = k1  k2 = k2  k3 = k3
    Stores = {s1, s2}
    Suppliers = {p1, p2}
    IdentityMap <- Identities
    Keys = {k1, k2, k3}
    SupplierOf <- Issued
    Batches = {b1}
    States = {x1, x2}
    Finalizers = {f1, f2, f3}
    Rejecters = {}
    NoKey = NoKey  NoState = NoState  NoBatch = NoBatch
    NoStore = NoStore  NoProcess = NoProcess
    MaxAttempts = 2
    MaxFaults = 1
SYMMETRY Interchangeable
PROPERTIES FinalizersKeepOtherStores
CHECK_DEADLOCK FALSE
