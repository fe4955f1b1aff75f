SPECIFICATION GatewaySpec
CONSTANTS
    c1 = c1
    c2 = c2
    Clients = {c1, c2}
    NoClient = NoClient
    RangeStart = 1
    RangeEnd = 1
    ReservationMaps <- MCReservations
    LeaseTime = 2
    MaxTime = 4
    NsHosts = {"h1", "h2"}
    RsQueue = 1
    Feeds <- MCFeeds
    NsAddrs = {"a1", "a2"}
    MaxNsFaults = 2
    MaxNsChanges = 3
    MaxNtpCalls = 4
    OcJobs = {"t1", "t2", "shell"}
    OcTarget <- MCTarget
    OcUnstartable = {"shell"}
    OcWarm = 1
    OcMax = 1
    OcQueueCap = 2
    OcInsts = 3
    OcFaults = 1
CHECK_DEADLOCK FALSE
INVARIANTS LeasesSound ServicesSound
PROPERTIES GatewayProgress TestsServed
