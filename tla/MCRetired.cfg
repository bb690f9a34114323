CONSTANTS
    actA = actA
    actB = actB
    actC = actC
    pool0 = pool0
    pool1 = pool1
    pool2 = pool2
    main = main
    thr1 = thr1
    thr2 = thr2
    thr3 = thr3
    host = host
    TaskCode = TaskCode
    Nobody = Nobody
    Actors = {actA}
    Pools = {pool0, pool1}
    Workers = {thr1}
    Hosts = {}
    Main = main
    MainPool = pool0
    Home <- RetireHome
    Bound <- RetireBound
    Sink <- NoSinks
    Dedicated = {pool1}
    Serves <- RetireServes
    Early = {actA, pool1}
    May <- RetireMay
    Whose = actA
    MaxSlot = 2
    MaxWaiters = 1
    MaxSpurious = 0
SPECIFICATION Spec
INVARIANTS
    NoSilentHang
CHECK_DEADLOCK FALSE
