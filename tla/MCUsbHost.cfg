SPECIFICATION MCSpec
CONSTANTS
    d1 = d1
    d2 = d2
    e1 = e1
    c1 = c1
    b1 = b1
    Timers = {d1, d2, e1}
    Cancellable = {d1, d2}
    Delays = {1, 3}
INVARIANTS
    AtMostOneTickLate
PROPERTIES
    InTurn
    
    AllEnd
CHECK_DEADLOCK FALSE
