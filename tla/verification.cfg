SPECIFICATION MCSpec
CONSTANTS
    passport = passport
    again = again
    renewal = renewal
    instagram = instagram
    x1 = x1
    Request = {passport, again, renewal, instagram}
    KindOf <- Kinds
    Owner = {w1}
    Config <- Configs
    RegistryRoot = {x1, x2}
    Key = {"k1", "k3"}
    Login = {q1, q2}
    NoLogin = NoLogin
    Code = {c1, c2}
    Staleness = 1
    Ahead = 1
    Validity = 2
    Ttl = 1
    Expiry = 5
    Skew = {0, 1}
    MaxTime = 4
    MaxTry = 2
INVARIANTS
    IssuedWhereAsked
    ValidityFollowsProof
    MintedOnce
    RedirectsAreBound
CHECK_DEADLOCK FALSE
