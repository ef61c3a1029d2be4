\* Two records, two shifts, two workers.
SPECIFICATION Spec
CONSTANTS
    s1 = s1
    s2 = s2
    Slots = {s1, s2}
    Groups <- MCGroups
    Marks = {"present"}
    Workers = {w1, w2}
SYMMETRY MCSymmetry
INVARIANT
    SheetOK
PROPERTIES
    FrozenOnceSubmitted
    ReviewHolds
CHECK_DEADLOCK FALSE
