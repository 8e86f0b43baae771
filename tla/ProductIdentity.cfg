SPECIFICATION IdentitySpec
CONSTANTS
    Spus <- MCSpus
    Skus <- MCSkus
    Store <- MCStore
    SkuStore <- MCSkuStore
    Listed <- MCListed
    Answers <- MCAnswers
    Listings <- MCListings
    Supplied <- MCSupplied
    Curated <- MCCurated
    Hard <- MCHard
    Observations = {o1, o2}
    FetchTimes = {1}
    Audits = {u1}
    MaxConcurrency = 1
    Loads = {l1, l2}
    Applies = {a1, a2}
    MaxPlans = 2
    MaxUpsets = 1
INVARIANTS IdentitySafety
PROPERTIES MapsListedSkus ReportHolds
SYMMETRY MCSymmetry
CHECK_DEADLOCK FALSE
