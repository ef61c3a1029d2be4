\* A metadata edit beside a movement.
SPECIFICATION Spec
CONSTANTS
    i1 = i1
    i2 = i2
    i3 = i3
    s1 = s1
    s2 = s2
    p1 = p1
    p2 = p2
    c1 = c1
    c2 = c2
    c3 = c3
    Items = {i1, i2}
    Stores = {s1, s2}
    StoreOf <- MCStoreOf
    Products = {p1, p2}
    NoProduct = NoProduct
    Calls = {c1, c2, c3}
    NoCall = NoCall
    Months = {m1}
    NoMonth = NoMonth
    Quantities = {1, 2}
    MovementTypes = {"issued", "received"}
    Metadata <- MCEdits
    Operations = {"movement", "update"}
    InitialItems = {i1, i2}
    InitialStock <- MCStock
    InitialMeta <- MCMeta
    Managed = {i1, i2}
    AllowNegativeStock = FALSE
    LowStockTask = FALSE
    LocksNullableJoin = TRUE
INVARIANTS
    CurrentStockOnlyByMovements
SYMMETRY CallSymmetry
