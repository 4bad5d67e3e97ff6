\* One slot per window: two calls of a credential compete for it.
CONSTANTS
    passport = passport
    instagram = instagram
    p = p
    i = i
    Sponsor = {sponsor}
    Consumer = {shop}
    Credential = {p, i}
    CredentialType = {passport, instagram}
    TypeOf <- TwoTypes
    CredentialExpiry <- Expiries
    Session = {session}
    NoSession = none
    NoGateway = none
    Slot = {0}
    Window = 2
    RevocationAnchor = 2
    PolicyDelay = 3
    Mask = {{instagram}}
    Lane = {"sponsored", "consumer", "plain"}
    MaxFee = {1}
    MaxFeeCap = 1
    MaxTime = 5
    MaxPending = 2
    MaxRights = 2
    Focus = {"governance", "settlement"}
    SettleBy = 4
SPECIFICATION MCSpec
CHECK_DEADLOCK FALSE
INVARIANTS
    PrivateReadsStayValid
    MeteringIsAtomic
    RateLimited
