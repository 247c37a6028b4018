SPECIFICATION Spec
CONSTANTS
    p1 = p1  p2 = p2  p3 = p3  b1 = b1  b2 = b2  i1 = i1  i2 = i2  l1 = l1  l2 = l2  r1 = r1  r2 = r2
    NoOne = NoOne  NoLink = NoLink
    People <- ThreePeople
    Home <- TwoHomes
    Email <- SharedEmail
    Browsers <- TwoBrowsers
    SignIns <- TwoSignIns
    Links <- TwoLinks
    Procs <- TwoProcs
    MaxOps = 4
SYMMETRY Symmetry
INVARIANTS WebAuthInv
PROPERTIES RolesFollowLogins LinksAreSpentOnce
CHECK_DEADLOCK FALSE
