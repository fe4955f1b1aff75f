SPECIFICATION FairSpec
CONSTANTS
    Configs = {c1, c2}
    Monitored = {c1}
    Rules = {r1}
    Scheds = {s1}
    Callers = {upnp, sched}
    NoConfig = NoConfig
    SafeRules = SafeRules
    Tampered = Tampered
    Gens = {1, 2}
    MaxOps = 4
    MaxFails = 1
CHECK_DEADLOCK FALSE
INVARIANTS ChangesInForce
PROPERTIES TamperReverted
