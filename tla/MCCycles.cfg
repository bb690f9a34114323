SPECIFICATION Spec
CONSTANTS
    X = X
    Y = Y
    Z = Z
    P = P
    hx = hx
    hy = hy
    hw = hw
    hz = hz
    t1 = t1
    t2 = t2
    only = only
    Actors = {X, Y}
    Plains = {P}
    Handlers = {hx, hy, hz}
    Tasks = {t1, t2}
    Claims = {only}
    Programs <- SmallPrograms
    Rank <- ByName
    None = None
INVARIANTS
    TypeOK
    ReportsAreTrue
    GateCyclesAreErrors
    EveryCycleIsReported
    TasksAreCode
CHECK_DEADLOCK FALSE
