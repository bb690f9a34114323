SPECIFICATION Spec
CONSTANTS
    n1 = n1
    n2 = n2
    n3 = n3
    a1 = a1
    s1 = s1
    s2 = s2
    s3 = s3
    r1 = r1
    r2 = r2
    r3 = r3
    w1 = w1
    w2 = w2
    w3 = w3
    none = none
    Nodes = {n1, n2}
    Actors = {a1}
    Senders = {s1, s2}
    Receivers = {r1, r2}
    Workers = {w1, w2}
    Home <- HomeOne
    Place <- WorkPlace
    Bound <- BoundOne
    Known <- AllRoutes
    Wired = {n1}
    MaxSends = 1
    MaxEntries = 2
    MayLeave <- LeavesN2
    MayDie = {a1}
    Locals = {a1}
    Lossy = TRUE
    Local = none
INVARIANTS
    TypeOK
    CreditsAreKept
    AddressesAgree
    CreditIsNotSleptOn
    FramesAreFlushed
    ParkedFramesWait
    MessagesArriveOnce
SYMMETRY Pairs
CHECK_DEADLOCK FALSE
