CONSTANTS
    actA = actA
    actB = actB
    actC = actC
    pool0 = pool0
    pool1 = pool1
    pool2 = pool2
    main = main
    thr1 = thr1
    thr2 = thr2
    thr3 = thr3
    host = host
    TaskCode = TaskCode
    Nobody = Nobody
    Actors = {actA, actB}
    Pools = {pool0, pool1}
    Workers = {thr1, thr2}
    Hosts = {}
    Main = main
    MainPool = pool0
    Home <- WaitHome
    Bound <- WaitBound
    Sink <- NoSinks
    Dedicated = {}
    Serves <- WaitServes
    Early = {actA, actB, pool1}
    May <- WaitMay
    Whose = actA
    MaxSlot = 2
    MaxWaiters = 2
    MaxSpurious = 0
SPECIFICATION FairSpec
INVARIANTS
    OneActivation
    SleepersAreListed
    WaitersAreWoken
    BooksBalance
    NoSilentHang
    OpenWaitsKeepTheirRecord
PROPERTIES
    MainWaitsEnd
CHECK_DEADLOCK FALSE
