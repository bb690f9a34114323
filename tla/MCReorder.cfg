SPECIFICATION Spec
CONSTANTS
    n1 = n1
    n2 = n2
    n3 = n3
    a1 = a1
    s1 = s1
    s2 = s2
    s3 = s3
    r1 = r1
    r2 = r2
    r3 = r3
    w1 = w1
    w2 = w2
    w3 = w3
    none = none
    Nodes = {n1, n2}
    Actors = {a1}
    Senders = {s1, s2}
    Receivers = {r1, r2}
    Workers = {w1}
    Home <- HomeOne
    Place <- WorkPlace
    Bound <- BoundTwo
    Known <- AllRoutes
    Wired = {n1, n2}
    MaxSends = 2
    MaxEntries = 1
    MayLeave = {}
    MayDie = {}
    Locals = {}
    Lossy = FALSE
    Local = none
INVARIANTS
    MessagesArriveInOrder
CHECK_DEADLOCK FALSE
