SPECIFICATION Spec
CONSTANTS
    Null = Null
    Accounts = {a1, a2}
    Targets <- MCTargets
INVARIANTS
    TypeOK
    HeadServesModels
    OnlyDataStopsCommands
PROPERTIES
    ImplementsChain
