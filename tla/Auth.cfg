\* Requests of one account, which may overlap.
SPECIFICATION Spec
CONSTANTS
    Workers = {w1, w2}
    Tokens = {t1, t2, t3, t4}
    NoToken = NoToken
    MaxPassword = 2
SYMMETRY Symmetry
INVARIANTS
    TypeOK
    ExchangedTokensAreSpent
    TokensAreSingleUse
    SerialTokensHaveCurrentPassword
PROPERTIES
    SessionsEndForGood
