CONSTANTS
    actA = actA
    actB = actB
    actC = actC
    pool0 = pool0
    pool1 = pool1
    pool2 = pool2
    main = main
    thr1 = thr1
    thr2 = thr2
    thr3 = thr3
    host = host
    TaskCode = TaskCode
    Nobody = Nobody
    Actors = {actA, actB}
    Pools = {pool0, pool1}
    Workers = {thr1}
    Hosts = {host}
    Main = main
    MainPool = pool0
    Home <- TaskHome
    Bound <- TaskBound
    Sink <- TaskSink
    Dedicated = {pool1}
    Serves <- TaskServes
    Early = {actB}
    May <- TaskMay
    Whose = actA
    MaxSlot = 3
    MaxWaiters = 2
    MaxSpurious = 1
SPECIFICATION Spec
INVARIANTS
    TypeOK
    OwedIsExact
    StuckIsReal
PROPERTIES
    IdleIsReal
    RepliesAreKept
CHECK_DEADLOCK FALSE
