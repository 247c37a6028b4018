SPECIFICATION Spec
CONSTANTS
    a1 = a1  o1 = o1  o2 = o2  p1 = p1  p2 = p2
    basic = basic  legacy = legacy
    NoApp = NoApp  NoOrder = NoOrder  NoTier = NoTier
    Apps <- OneApp
    Orders <- TwoOrders
    Tiers <- SomeTiers
    Registered <- SomeRegistered
    Procs <- TwoProcs
    Terms <- AdminTerms
    MaxVersions = 3
    MaxTotal = 4
    MaxChanges = 1
    MaxFaults = 2
INVARIANTS BillingInv RowsMirrorStripe PaidInvoicesLiftNoSuspension
PROPERTIES GraceIsNotRenewed EventsAcknowledged
CHECK_DEADLOCK FALSE
