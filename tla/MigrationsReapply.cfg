SPECIFICATION Spec
CONSTANTS
    Null = Null
    Accounts = {}
    Targets <- MCTargets
INVARIANTS
    EveryStatementApplies
