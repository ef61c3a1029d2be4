CONSTANTS
    s1 = s1
    s2 = s2
    a1 = a1
    o1 = o1
    w1 = w1
    w2 = w2
    Shifts = {s1, s2}
    Areas = {a1}
    Roles = {o1}
    Workers = {w1, w2}
SYMMETRY MCSymmetry
SPECIFICATION Spec
INVARIANTS ScheduledStaysActive
CONSTRAINT UntilRaced
CHECK_DEADLOCK FALSE
