\* Two workers, every operation, one line per draft.
SPECIFICATION Spec
CONSTANTS
    Workers = {w1, w2}
    StoreItems = {a}
    Quantities = {0, 1, 2}
    None = None
    Operations = {"update", "submit", "review", "approve", "pack", "assemble", "reject", "complete"}
    MaxBatches = 2
INVARIANTS
    RequestOK
    TrailComplete

    
SYMMETRY WorkerSymmetry
CHECK_DEADLOCK FALSE
