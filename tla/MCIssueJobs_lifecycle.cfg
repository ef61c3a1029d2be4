\* Two jobs of one issue, two workers.
SPECIFICATION Spec
CONSTANTS
    Jobs = {j1, j2}
    Workers = {w1, w2}
    NoJob = NoJob
    MaxEscalations = 2
SYMMETRY JobSymmetry
INVARIANTS
    JobsOK
    IssueFollowsJobs
PROPERTIES
    ClosesWithLastJob
    VerifiedBeforeClosed
CHECK_DEADLOCK FALSE
