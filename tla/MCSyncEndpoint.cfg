CONSTANTS
    dB = dB
    tA = tA
    tB = tB
    dA1 = dA1
    dA2 = dA2
    a1 = a1
    a2 = a2
    b1 = b1
    p1 = p1
    p2 = p2
    k1 = k1
    v1 = v1
    Tenants = {tA, tB}
    Dbs = {dB, dA1, dA2}
    Tabs = {a1, a2, b1}
    DbOf <- MCDbOf
    TenantOf <- MCTenantOf
    Projects = {p1, p2}
    Tasks = {k1}
    Vals = {v1}
    StubName = StubName
    NoVal = NoVal
    Malformed = Malformed
    Unstorable = Unstorable
    NoTenant = NoTenant
    NoProject = NoProject
    Nobody = Nobody
    Limit = 1
    HasCollector = TRUE
    MaxFaults = 1
    MaxRequests = 3
SPECIFICATION Spec
INVARIANTS ServerInv PageComplete
PROPERTIES CursorGapSafe OwnRowsOnly
SYMMETRY Callers
