SPECIFICATION Spec
SYMMETRY MCSymmetry
CONSTANTS
    r1 = r1
    r2 = r2
    r3 = r3
    a1 = a1
    a2 = a2
    a3 = a3
    e1 = e1
    e2 = e2
    E2 = E2
    x = x
    y = y
    m = m
    n = n
    None = None
    Unset = Unset
    BadToken = BadToken
    NoAccount = NoAccount
    NotYet = NotYet
    Gone = Gone
    Req = {r1, r2, r3}
    Account = {a1, a2, a3}
    Project = {1, 2}
    Email = {e1, e2, E2}
    Lower <- MCLower
    Password = {x, y}
    Name = {m, n}
    Calls <- MCCalls
    FirstAccounts <- MCAccounts1
    FirstProjects <- MCProjects
    PageSize = 1
CHECK_DEADLOCK FALSE
INVARIANTS
    TypeOK
    OneAccountPerMailbox
    SignupsDecided
    PatchTookEffect
PROPERTIES
    IsDirectory
    ChangedAsAsked
    OwnersOnly
