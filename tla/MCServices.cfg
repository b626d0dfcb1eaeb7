SPECIFICATION ServicesSpec
CONSTANTS
    Tables <- SmallTables
    RowCounts = {4, 15, 10001}
    MaxProposed = 2
    ChartFaults = {"model", "export"}
    RoleSets <- SomeRoles
    SqlFaults = {"connect", "explain", "graph"}
    MaxCalls = 3
    MaxRetries = 3
    MaxClicks = 3
    LlmFaults = {"nokey", "denied", "busy", "wrong", "late", "unreadable", "store", "leave", "net"}
    Request = {q1, q2}
    Original = t0
    Elsewhere = t9
    MaxUsers = 1
    AdminFaults = {"db", "seed", "clean", "audit"}
    Slot = {r1, r2}
    Host = {w1}
    CubeTTL = 1
    CubeDelay = 1
    Asked <- SomeQueries
    CubeFaults = {"cube", "redis", "evict", "restart"}
    OldChats = 1
    MaxQuestions = 2
    MaxStreams = 3
    MaxLoads = 1
    Prompt = {p1, p2}
    Server = {w1}
    Question = {"first", "second"}
    Life <- OneTick
    Transit = 1
    ContextFaults = {"embedding", "source", "redis", "evict", "restart"}
CHECK_DEADLOCK FALSE
INVARIANTS
    SilentIsRight
    TwoValidationsSettle
    GatesAreExact
    LineageIsExact
    CallsAccounted
    FeedbackAgrees
    MetricsServed
    TenantsTold
    ScreenTells
    PromptsAreTold
