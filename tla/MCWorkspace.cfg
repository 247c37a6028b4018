SPECIFICATION Spec
CONSTANTS
    ann = ann  bob = bob  a1 = a1  r1 = r1  i1 = i1  i2 = i2  p1 = p1  p2 = p2
    Nobody = Nobody  NoInvite = NoInvite
    People <- TwoPeople
    Founder = ann
    Apps <- OneApp
    Roles <- OneRole
    AppOf <- RoleOfApp
    Invites <- TwoInvites
    Procs <- TwoProcs
    MaxOps = 4
SYMMETRY Symmetry
INVARIANTS WorkspaceInv OneOpenInvite
PROPERTIES RevokedInvitesBringNobody OneAccountPerInvite GrantsAreCurrent
CHECK_DEADLOCK FALSE
