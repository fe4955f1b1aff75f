SPECIFICATION Spec
CONSTANTS
    BaseCfg <- mcBaseCfg
    Edits <- mcEdits
    Flows <- mcFlows
    MaxRuleEdits = 2
    MinPerHour = 2
    HourPerDay = 2
    WeekLen = 3
    MonthLen <- MCMonthLen
    CronYears = 4
    Rules = {r1}
    StartSpec <- MCStart
    EndSpec <- MCEnd
    SecPerMin = 5
    SetEvery = 4
    MaxLast = 1
    MaxLate = 2
    SchedEnd = 16
    MaxReloads = 1
    MaxRestarts = 1
    MaxRuns = 1
    MinFields <- MCMin
    HourFields <- MCHour
    DomFields <- MCDom
    MonthFields <- MCMonth
    DowFields <- MCDow
    PrDests = {"default", "net"}
    PrConfigs <- MCPrConfigs
    MaxPrReloads = 3
    MaxPrRestarts = 1
    MaxPrFaults = 1
    UplinkRuns = {1, 21, 33}
    MaxUplinkRuns = 2
    IpsVersions = {1, 2}
    IpsStatic <- MCStatic
    IpsManual <- MCManual
    IpsMaxAge = 1
    IpsEnd = 2
    MaxIpsApplies = 3
    MaxIpsFaults = 2
    MaxIpsEdits = 1
    QosPolicies <- MCQosPolicies
    DcAddrs = {a1, a2}
    DcLease = 4
    DcT1 = 2
    DcDelay = 1
    DcEnd = 8
    MaxDcLoops = 2
    MaxDcFailures = 1
    MaxDcRestarts = 1
    WgKeys = {"k1", "kx"}
    WgNets = {n1, n2}
    WgBadKeys = {"kx"}
    VpnCalls = 3
    NumUplinks = 2
    NumNets = 2
    Threshold = 2
    TierChoices <- MCTiers
    NoMark = NoMark
    MaxLinkChanges = 2
    MaxFaults = 1
    MaxUplinkCalls = 2
CHECK_DEADLOCK FALSE
INVARIANTS  SchedulesKept RoutesWhole SetsAndQueuesWhole LinksKept
PROPERTIES  EventuallyOnWorkingUplink
