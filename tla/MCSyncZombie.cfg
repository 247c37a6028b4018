CONSTANTS
    tA = tA
    dA = dA
    dB = dB
    a = a
    a2 = a2
    b = b
    p1 = p1
    k1 = k1
    p2 = p2
    v1 = v1
    Tenants = {tA}
    Dbs = {dA, dB}
    Tabs = {a, b}
    DbOf <- MCDbOf
    TenantOf <- MCTenantOf
    Projects = {p1, p2}
    Tasks = {}
    ParentOf <- MCNoTasks
    Vals = {v1}
    StubName = StubName
    NoVal = NoVal
    Malformed = Malformed
    Unstorable = Unstorable
    NoTenant = NoTenant
    NoProject = NoProject
    Nobody = Nobody
    Limit = 2
    HasCollector = TRUE
    MaxFaults = 1
    WebLocks = TRUE
    MaxPullLoops = 3
    MaxEdits <- MCEdits21
SPECIFICATION Spec
INVARIANTS NoZombies
CHECK_DEADLOCK FALSE
