SPECIFICATION Spec
CONSTANTS
    u1 = u1
    u2 = u2
    u3 = u3
    p1 = p1
    p2 = p2
    d1 = d1
    d2 = d2
    r1 = r1
    r2 = r2
    r3 = r3
    None = None
    Unset = Unset
    NoRow = NoRow
    NoEntry = NoEntry
    NoPending = NoPending
    NoCall = NoCall
    User = {u1, u2, u3}
    Active = {u1, u2}
    Project = {p1, p2}
    Owner <- MCOwner
    Task = {1, 2, 3}
    Detail = {d1, d2}
    Req = {r1, r2, r3}
    Calls <- MCCalls
    Queries <- MCQueries
    InitialTables <- MCTables
    RedisMayFail = TRUE
    BrokerMayFail = TRUE
    DbMayFail = TRUE
SYMMETRY MCSymmetry
CHECK_DEADLOCK FALSE
INVARIANTS
    TypeOK
    TenantIsolation
    StaleOnlyIfExcused
    ReferentialIntegrity
PROPERTIES
    OnlyAsAsked
    ChangesAreAnnounced
    IsTaskTable
