SPECIFICATION Spec
CONSTANTS
    a1 = a1  a2 = a2  p1 = p1  p2 = p2  p3 = p3  t1 = t1  q1 = q1  q2 = q2
    NoApp = NoApp  NoPrice = NoPrice  NoTier = NoTier
    Apps <- TwoApps
    Prices <- ThreePrices
    Tiers <- OneTier
    Wanted <- TwoLines
    Procs <- TwoProcs
    MaxOps = 4
SYMMETRY Symmetry
INVARIANTS TypeOK CatalogueIsTrue NothingMadeTwice
PROPERTIES SessionsAreVetted
CHECK_DEADLOCK FALSE
