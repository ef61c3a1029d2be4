CONSTANTS
    s1 = s1
    s2 = s2
    z1 = z1
    w1 = w1
    w2 = w2
    asst = asst
    gen = gen
    calm = calm
    alarm = alarm
    some = some
    Sites = {s1, s2}
    Zones = {z1}
    ZoneOf <- OneZone
    Data = {calm, alarm}
    Alarming = {alarm}
    Notes = {some}
    Assistant = asst
    General = gen
    Handled <- Desks
    Workers = {w1, w2}
SYMMETRY WorkerSymmetry
SPECIFICATION Spec
INVARIANTS RowsOK OnlySubmissionsRise
PROPERTIES SubmittedStands
CHECK_DEADLOCK FALSE
