SPECIFICATION FairSpec
CONSTANTS
    r1 = r1
    r2 = r2
    none = none
    Replies = {r1, r2}
    Delays <- SomeDelays
    MaxLong = 6
    MaxClock = 4
    Capacity = 2
    None = none
INVARIANTS
    TypeOK
    WheelIsStartedOnce
    NoDeadlineIsSleptOn
    FiredAtTheDeadline
PROPERTIES
    KeepsItsPromise
    EveryDeadlineFires
CHECK_DEADLOCK FALSE
