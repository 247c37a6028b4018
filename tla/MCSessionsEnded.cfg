SPECIFICATION Spec
CONSTANTS
    u1 = u1
    u2 = u2
    t1 = t1
    Users = {u1}
    Tenants = {t1}
    TenantOf <- MemberOfT1
    NoTenant = NoTenant
    NoUser = NoUser
    Procs = {p1, p2}
    Edits <- NewPasswordOrDemotion
    Terms <- SomeTerms
    MaxTokens = 2
    MaxChanges = 0
    MaxPasswords = 1
SYMMETRY ProcSymmetry
INVARIANTS EndedSessionsStayEnded
CHECK_DEADLOCK FALSE
