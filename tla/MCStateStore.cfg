SPECIFICATION MCSpec
CONSTANTS
    Buckets = {b1}
    Keys = {k1, k2}
    Values = {v1, v2}
    NoRow = NoRow
    NoValue = NoValue
    Subscribers = {s1, s2}
    SubCap = 2
    TTLs = {1}
    Retention = 1
    NoSnapshot = NoSnapshot
    MaxTime = 3
    MaxChanges = 4
    MaxRestores = 1
SYMMETRY MCSymmetry
INVARIANTS LogDescribesStore SnapshotPlusLog SubscribersServed
PROPERTIES VisibleChangesAreLogged
