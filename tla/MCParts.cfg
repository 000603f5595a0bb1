SPECIFICATION AllSpec

CONSTANTS
    MaxTime = 6

    Slugs = {s1, s2}
    Resolvers = {r1, r2}
    EndpointTTL = 2
    NegativeTTL = 1
    MaxEntries = 1
    NoSlug = NoSlug
    MaxLookup = 1

    Keys = {k1}
    Callers = {c1, c2}
    Cost = 2
    Burst = 3
    IdleTime = 3
    MaxDelay = 1
    Unasked = Unasked

    Handlers = {h1, h2}
    TouchInterval = 2
    TouchIdle = 2

    Rows = {m1, m2}
    Hours = {1, 2}
    Batch = 1
    MaxBatches = 2
    MaxFailures = 1

    Ids = {1, 2, 3}
    Times = {1, 2}
    Limit = 1
    NoCursor = NoCursor

    Calls = {1, 2, 3}
    Slots = 1
    ForwardDeadline = 4
    LocalTimeout = 1
    MaxTravel = 1

    Observers = {1, 2, 3}
    Bounds = 1
    NoSeries = NoSeries

    JSON <- AllValues
    MaxDepth = 3
    Inputs <- ComparedPairs
    IdKeys <- NamedKeys
    EmptyText = 0
    Lower <- LowerCase
    Volatile = {"date"}

INVARIANTS
    TypesOK
    StalenessIsBounded
    LimitHolds
    LagIsBounded
    ExpiryFollowsSetting
    PagesAreComplete
    ClientSpeaksFirst
    ScrapesAreCurrent
    ComparisonIsExact

PROPERTIES
    ExpiredIsSwept
    ProcessCloses

CHECK_DEADLOCK FALSE
