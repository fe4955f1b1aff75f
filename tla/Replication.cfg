SPECIFICATION FairSpec
CONSTANTS
    Buckets = {b}
    Keys = {k1, k2}
    Values = {v1, v2}
    NoRow = NoRow
    NoValue = NoValue
    SubCap = 1
    TTLs = {1}
    Retention = 1
    MaxTime = 2
    MaxChanges = 2
    MaxConnects = 2
CHECK_DEADLOCK FALSE
INVARIANTS ReplicaAgrees
PROPERTIES CatchesUp
