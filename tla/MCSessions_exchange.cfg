CONSTANTS
    Families = {f1}
    Tokens = {t1, t2, t3}
    Clients = {c1, c2}
    NoFamily = NoFamily
    NoToken = NoToken
    Second = 1
    AccessTTL = 1
    MaxTime = 0
SPECIFICATION Spec
SYMMETRY Interchangeable
CHECK_DEADLOCK FALSE
INVARIANT
    TokensAreExchangedOnce
