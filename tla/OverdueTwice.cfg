SPECIFICATION Spec
CONSTANTS
    t1 = t1
    t2 = t2
    p1 = p1
    u1 = u1
    u2 = u2
    w1 = w1
    w2 = w2
    None = None
    NoRow = NoRow
    NoNotice = NoNotice
    Task = {t1, t2}
    Project = {p1}
    User = {u1, u2}
    ProjectOf <- MCProjectOf
    OwnerOf <- MCOwnerOf
    Rows <- MCRows
    Proc = {w1, w2}
    Faults = FALSE
INVARIANT NoDuplicates
