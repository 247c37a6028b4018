SPECIFICATION Spec
CONSTANTS
    u1 = u1
    u2 = u2
    t1 = t1
    Users = {u1, u2}
    Tenants = {t1}
    TenantOf <- MemberAndPlatform
    NoTenant = NoTenant
    NoUser = NoUser
    Procs = {p1, p2}
    Edits <- AdminFlag
    Terms <- SomeTerms
    MaxTokens = 0
    MaxChanges = 5
    MaxPasswords = 0
SYMMETRY ProcSymmetry
PROPERTIES AdminGuarded ErasureIsTwoStep
CHECK_DEADLOCK FALSE
