\* Three tasks over three days of two-day weeks, two of them at once.
SPECIFICATION FairSpec
CONSTANTS
    Tasks = {1, 2, 3}
    Reports = {"daily", "weekly"}
    WeekLength = 2
    MaxDay = 3
    MaxRetries = 1
    Concurrency = 2
    NoPeriod = NoPeriod
INVARIANTS
    DeliveriesOK
    UnsentHasATask
PROPERTY
    StartedIsSent
CHECK_DEADLOCK FALSE
