SPECIFICATION FairSpec
CONSTANTS
    e0 = e0
    a1 = a1
    v1 = v1
    v2 = v2
    Ifaces = {e0}
    Bond = b0
    Addrs = {a1}
    Vids = {v1, v2}
    Reloads <- MCReloads
    NoSnapshot = NoSnapshot
    MaxApplies = 2
    MaxOthers = 2
CHECK_DEADLOCK FALSE
INVARIANTS InterfacesUndoable
PROPERTIES RollbackExact EventuallyDecided
