SPECIFICATION FairSpec
CONSTANTS
    Rulesets = {r0, r1, r2}
    InitialRuleset = r0
    Flushed = Flushed
    NoRuleset = NoRuleset
    RollbackOutcomes = {"ok", "unread", "flushed"}
    MaxApplies = 3
PROPERTY EventuallyDecided
