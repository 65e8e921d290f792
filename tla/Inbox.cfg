SPECIFICATION FairSpec
CONSTANTS
    r1 = r1
    r2 = r2
    r3 = r3
    r4 = r4
    u1 = u1
    u2 = u2
    None = None
    Nobody = Nobody
    Req = {r1, r2, r3, r4}
    User = {u1, u2}
    Note = {1, 2, 3, 4}
    Old = {1, 2}
    Task = {1, 2}
    MaxId = 4
    Recipient <- MCRecipient
    About <- MCAbout
    Calls <- MCCalls
    PageSize = 1
    Faults = TRUE
CHECK_DEADLOCK FALSE
INVARIANTS
    TypeOK
    OnlyBulkDeadlocks
    ReadIffToldSo
    MissedOnlyIfMoved
    TwiceOnlyIfAdded
PROPERTIES
    RequestsEnd
    IsMailbox
