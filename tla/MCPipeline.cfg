CONSTANTS
    actA = actA
    actB = actB
    actC = actC
    pool0 = pool0
    pool1 = pool1
    pool2 = pool2
    main = main
    thr1 = thr1
    thr2 = thr2
    thr3 = thr3
    host = host
    TaskCode = TaskCode
    Nobody = Nobody
    Actors = {actA, actB, actC}
    Pools = {pool0, pool1, pool2}
    Workers = {thr1, thr2, thr3}
    Hosts = {}
    Main = main
    MainPool = pool0
    Home <- PipeHome
    Bound <- PipeBound
    Sink <- PipeSink
    Dedicated = {}
    Serves <- PipeServes
    Early = {actA, actB, actC, pool1, pool2}
    May <- PipeMay
    Whose = actA
    MaxSlot = 1
    MaxWaiters = 1
    MaxSpurious = 0
SPECIFICATION FairSpec
INVARIANTS
    ReadyQueueIsExact
    WorkIsNotSleptOn
    SendersAreNotStranded
    BlockedAreListed
    TheDeadAreLeft
PROPERTIES
    MailboxIsKept
    EveryActorIsServed
CHECK_DEADLOCK FALSE
