\* The administrative parts and the distribution network, one at a time.
SPECIFICATION OfficeSpec
CONSTANTS
    a1 = a1
    a2 = a2
    a3 = a3
    b1 = b1
    b2 = b2
    w1 = w1
    w2 = w2
    Workers = {w1, w2}
    Stores = {a1, a2, a3}
    NoParent = NoParent
    Keep = Keep
    TypesMayChange = FALSE
    Assignments = {a1}
    Days = {1, 2}
    Spans <- MCSpans
    MaxSchedules = 3
    Shifts = {b1, b2}
    Areas = {a1}
    AreaRoles = {}
    SiteUsers = {a1, a2, a3}
    Zones = {b1, b2}
    MaxSupervisors = 2
    Cleaners = {b1, b2}
    Contacts = {a1}
    MaxDays = 1
    Entries = {a1}
    Kinds = {a2}
    Tables = {"", "t1", "t2"}
    Limit = 2
    MaxMessages = 4
    Admins = {b1, b2}
    Staff = {}
    Tokens = {a1}
    MaxVersion = 2
    MaxRequests = 4
    Changes = {a1, a2, a3}
    BatchSize = 2
    Inspections = {a1}
    Items = {a1, a2, a3}
    FirstItems = {a1, a2}
    ItemType <- MCItemType
    Required = {a2}
    Scores = {6000}
SYMMETRY OfficeSymmetry
INVARIANTS
    
    
    SchedulesOK
    
    SupervisionFits
    
    ChecklistsStand
    MessagesArrive
    
    
    EventsFollowCommits
    
    
PROPERTY
    SubmittedAnswersStand
CONSTRAINT UntilRaced
CHECK_DEADLOCK FALSE
