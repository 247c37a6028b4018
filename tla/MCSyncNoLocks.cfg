CONSTANTS
    tA = tA
    dA = dA
    dB = dB
    a = a
    a2 = a2
    b = b
    p1 = p1
    k1 = k1
    v1 = v1
    Tenants = {tA}
    Dbs = {dA, dB}
    Tabs = {a, a2, b}
    DbOf <- MCTwoTabs
    TenantOf <- MCTenantOf
    Projects = {p1}
    Tasks = {}
    ParentOf <- MCNoTasks
    Vals = {v1}
    StubName = StubName
    NoVal = NoVal
    Malformed = Malformed
    Unstorable = Unstorable
    NoTenant = NoTenant
    NoProject = NoProject
    Nobody = Nobody
    Limit = 2
    HasCollector = FALSE
    MaxFaults = 0
    WebLocks = FALSE
    MaxPullLoops = 3
    MaxEdits <- MCEdits21
SPECIFICATION Spec
INVARIANTS ProjectsFaithful
CHECK_DEADLOCK FALSE
