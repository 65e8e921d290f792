SPECIFICATION FairSpec
CONSTANTS
    r1 = r1
    r2 = r2
    Req = {r1, r2}
    Kinds <- MCKinds
    PoolSize = 1
    DbConnections = 2
    Task <- MCTask
    Project = 2
    Images = {TRUE, FALSE}
    None = None
INVARIANTS
    TypeOK
    NothingLeaks
    GaugeIsExact
    StaleNeedsCause
    AnswersMean
PROPERTY
    OnlyHungRedisBlocks
