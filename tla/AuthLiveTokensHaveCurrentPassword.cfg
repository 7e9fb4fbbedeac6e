\* Two overlapping requests of one account.
SPECIFICATION Spec
CONSTANTS
    Workers = {w1, w2}
    Tokens = {t1, t2, t3}
    NoToken = NoToken
    MaxPassword = 1
SYMMETRY Symmetry
INVARIANT
    LiveTokensHaveCurrentPassword
