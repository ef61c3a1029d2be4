CONSTANTS
    c1 = c1
    x = x
    y = y
    p1 = p1
    p2 = p2
    a1 = a1
    a2 = a2
    w1 = w1
    w2 = w2
    Cleaners = {c1}
    Sites = {x, y}
    Programs = {p1, p2}
    Posts = {a1, a2}
    Workers = {w1, w2}
    Desks <- MCDesks
SYMMETRY MCSymmetry
SPECIFICATION Spec
INVARIANTS WorkforceOK
PROPERTIES StatusIsEarned TransfersMoveEverything
CHECK_DEADLOCK FALSE
