SPECIFICATION Spec
CONSTANTS
    UserNames = {"admin", "bob"}
    Tokens = {t1, t2}
    OtherRoles = {"viewer"}
    SessionTerm = 0
    UsTimeBound = 1
    UsCreations = 3
    ApiKeyIds = {k1, k2}
    KeyRequests = {r1, r2}
    Logins = {q1, q2}
    RlLimit = 1
    RlInterval = 2
    RlThreshold = 2
    RlWindow = 2
    RlMaxAge = 2
    RlTimeBound = 3
    RlRequests = 4
    Browsers = {b1, b2}
    FeedSize = 2
    QueueSize = 1
    FeedNotes = 3
    FeedRestarts = 1
    ChanSize = 1
    RawHours = 2
    HourlyHours = 2
    DayHours = 2
    HubEvents = 3
    HubHours = 5
    DefaultAddr = "any"
    DnsNames = {"ads", "host"}
    DnsAddrs = {"any", "lan"}
    Queries = {q1, q2}
    ListedName = "ads"
    DnsReloads = 2
    DnsQueries = 1
    Macs = {m1, m2}
    DevIPs = {"pub", "priv"}
    PublicIPs = {"pub"}
    Identities = {"i1"}
    Updaters = {u1}
    EnrichSlots = 1
    DevSteps = 4
    Packets <- MCPackets
    CacheSize = 1
    ChanCap = 1
    ScanPorts = 3
    ScanWindow = 1
    NotifyEvery = 1
    LearnEnd = 1
    MaxPackets = 2
    MaxDecisions = 2
    MaxDeletes = 1
    Fingerprints = {"a", "b"}
    Retention = 1
    MaxFlowNo = 2
    MaxDay = 1
    MaxExports = 1
    RuleIDs = {"r1"}
    Points = 2
    CounterWidth = 3
    MaxBytes = 4
    MaxPoints = 4
    SsMembers = {"m1", "m2"}
    MaxSsChanges = 2
    MaxHlChanges = 3
    LogSources = {"api", "auth"}
    RingSize = 3
    NfMax = 3
    NfCut = 1
    SubLimit = 1
    ChunkSize = 3
    LineLength = 3
    MaxTail = 2
    MaxLogged = 4
CHECK_DEADLOCK FALSE
INVARIANTS  NetworkKnown FlowsAsDecided ShownIsTrue
 
