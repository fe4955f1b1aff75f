SPECIFICATION Spec
CONSTANTS
    CrashThreshold = 2
    CrashWindow = 2
    Never = Never
    MaxTime = 3
    MaxStarts = 3
    MaxBootFaults = 1
    MaxUpgrades = 3
    Overlap = FALSE
    MaxCrashes = 2
    NoPid = NoPid
    Threads = {1, 2}
    Called <- MCCalled
    MaxRpcCrashes = 2
CHECK_DEADLOCK FALSE
INVARIANTS  HandoverSound CallsHonest
PROPERTIES DaemonProgress
