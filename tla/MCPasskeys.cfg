SPECIFICATION Spec
CONSTANTS
    u1 = u1  u2 = u2  c1 = c1  c2 = c2  t1 = t1  t2 = t2  t3 = t3  p1 = p1  p2 = p2
    Decoy = Decoy  NoUser = NoUser  NoCred = NoCred  NoTicket = NoTicket
    Users <- TwoUsers
    Creds <- TwoCreds
    Counting <- OneCounting
    Tickets <- SomeTickets
    Procs <- TwoProcs
    MaxCount = 2
    MaxAnswers = 3
    MaxChanges = 1
SYMMETRY Symmetry
INVARIANTS TypeOK
PROPERTIES SessionsAreBound ReplaysFail RemovedPasskeysAdmitNobody
CHECK_DEADLOCK FALSE
