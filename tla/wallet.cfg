SPECIFICATION MCSpec
CONSTANTS
    Tab = {t1, t2}
    NoTab = NoTab
    Passkey = {p, q}
    None = None
    t1 = t1
    t2 = t2
    Mine = p
    Focus = {"tabs", "keys", "reset"}
    Funding = {TRUE, FALSE}
    MaxChain = 2
SYMMETRY TabSymmetry
INVARIANTS
    StaleStoreIsNotRestored
    StoreHasAnOwner
    ReadyMeansReady
PROPERTIES
    RememberedWalletsStay
CHECK_DEADLOCK FALSE
