SPECIFICATION FairSpec
CONSTANTS
    Rulesets = {r0, r1, r2}
    InitialRuleset = r0
    Flushed = Flushed
    NoRuleset = NoRuleset
    RollbackOutcomes = {"ok"}
    MaxApplies = 3
INVARIANTS UndoReady
PROPERTIES NoLateRollback Refinement EventuallyDecided
