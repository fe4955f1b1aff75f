SPECIFICATION Spec
CONSTANTS
    Clients = {c1, c2}
    Values = {0, 1, 2}
    Inputs <- Three
    Unwritable = {2}
    Bad = Bad
    NoTree = NoTree
    NoConfig = NoConfig
    MaxBackups = 2
    MaxOps = 3
    MaxFaults = 1
    MaxFields = 1
    MaxEdits = 1
    PolNames = {"p1", "p2", "p3"}
    PolClients = {d1, d2}
    PolZones <- MCPolZones
    PolRequests = 2
    CfgIfs = {"eth0", "eth1"}
    CfgVlans = {"eth0.5"}
    CfgZones <- CfgOrder
    NetBits = 3
    WrittenConfigs <- MCWritten
    ZoneEdits <- MCZoneEdits
    PolicyEdits <- MCPolicyEdits
    CfgClients = {e1}
    CfgEdits = 1
    ImpRuleBound = 2
    ImpDifferences = 3
SYMMETRY Symmetry
CHECK_DEADLOCK FALSE
INVARIANTS OrderAsAsked LoadedAsWritten 
PROPERTIES  SavesReadable
