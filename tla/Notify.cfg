SPECIFICATION FairSpec
CONSTANTS
    t1 = t1
    j1 = j1
    j2 = j2
    w1 = w1
    w2 = w2
    NoMessage = NoMessage
    Task = {t1}
    Job = {j1, j2}
    About <- MCAboutOne
    Origin <- MCOrigin
    Proc = {w1, w2}
    MaxRetries = 3
    Faults = TRUE
CHECK_DEADLOCK FALSE
INVARIANTS
    TypeOK
    BoundedNotes
PROPERTIES
    JobsEnd
    EventuallyNotified
    IsNotices
