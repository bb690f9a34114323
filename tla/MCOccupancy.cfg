SPECIFICATION Spec
CONSTANTS
    X = X
    Y = Y
    Z = Z
    P = P
    hx = hx
    hy = hy
    hw = hw
    hz = hz
    t1 = t1
    t2 = t2
    only = only
    Actors = {X, Y, Z}
    Plains = {P}
    Handlers = {hx, hy, hw, hz}
    Tasks = {t1}
    Claims = {only}
    Programs <- Peers
    Rank <- ByName
    None = None
INVARIANTS
    OccupancyCyclesAreErrors
CHECK_DEADLOCK FALSE
